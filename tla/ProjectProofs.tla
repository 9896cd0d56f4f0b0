----------------------------- MODULE ProjectProofs -----------------------------
(***************************************************************************)
(* Proofs about the questions of a project and about the reports on the    *)
(* code they leave.                                                        *)
(*                                                                         *)
(* RuntimeVerification, for any checks, texts of their steps, versions of  *)
(* the source and executions: a report that is not blocked rests on one    *)
(* completed run of every check on its own source, and a command that was  *)
(* filed as not completed is executed again before its log was shown only  *)
(* if a plan was made from nothing since, or it has completed elsewhere.   *)
(*                                                                         *)
(* ProjectSeries, for any number of turns, categories and their limits,    *)
(* calls of a session, plans, retries and troubles: what was sent and what *)
(* is about to be sent stays within its category's and its session's       *)
(* limits, a question is sent over the code of what came before it, and a  *)
(* draft that only its wording failed keeps its container.                 *)
(***************************************************************************)
EXTENDS RuntimeVerification, ProjectSeries, SequenceTheorems, FiniteSetTheorems, TLAPS

-----------------------------------------------------------------------------
(* RuntimeVerification: the inductive invariant.                           *)

(* The runs an attempt holds are of its source and its plan, one a check;  *)
(* no check it has yet to come to has a run, the one it executes has.      *)
OfPlan(r) ==
  r.source = frozen.source /\ r.setup = plan.setup /\ r.check = plan.check[r.case]

Later == {Checks[i] : i \in {j \in DOMAIN Checks : position < j}}
Open == IF stage = "cases" THEN {Checks[i] : i \in {j \in DOMAIN Checks : position <= j}}
        ELSE Later

RunInv ==
  /\ stage \in {"idle", "planning"} => position = 1 /\ runs = {}
  /\ stage \in {"cases", "ran", "diagnosing"} =>
       /\ plan \in Plan
       /\ \A r \in runs : OfPlan(r)
       /\ \A r, q \in runs : q.case = r.case => q = r
  /\ stage \in {"cases", "ran"} => \A r \in runs : r.case \notin Open
  /\ stage = "ran" => Left /\ \E r \in runs : r.case = Here

(* A receipt is filed under what was executed, and a key has one outcome.  *)
KeyOf(r) == <<r.source, r.setup, r.case, r.check>>

ReceiptInv ==
  /\ \A g \in good : g.key = KeyOf(g.run)
  /\ \A g, h \in good : g.key = h.key => g.run = h.run

(* The cases executed are those of the plan that is saved.                 *)
PlannedInv ==
  stage \in {"cases", "ran"} => planned = [input |-> frozen, plan |-> plan]

(* A key nobody was shown the log of is filed, and either lost with its    *)
(* plan, or completed elsewhere, or of the plan that is saved.             *)
OfSaved(k) ==
  planned # None /\ \E c \in Case : k = Key(planned.input.source, planned.plan, c)

UnseenInv ==
  /\ \A k \in unseen : \E t \in stuck : t.key = k
  /\ \A k \in unseen \ lost : Receipts(k) # {} \/ OfSaved(k)

(* Of such keys, the plan in execution repeats the lost and the completed. *)
ReplayInv ==
  stage \in {"cases", "ran"} =>
    \A c \in Open : Key(frozen.source, plan, c) \in unseen \ lost =>
                      Receipts(Key(frozen.source, plan, c)) # {}

VInv ==
  /\ RuntimeTypeOK /\ RunInv /\ ReceiptInv /\ PlannedInv /\ UnseenInv
  /\ ReplayInv /\ ReportsBacked

-----------------------------------------------------------------------------
(* Operators.                                                              *)

LEMMA ChecksInOrder ==
  /\ Len(Checks) \in Nat /\ DOMAIN Checks = 1 .. Len(Checks)
  /\ \A i \in 1 .. Len(Checks) : Checks[i] \in Case
BY RuntimeVerificationAssumption DEF Case

(* What a step of a plan says is one of the texts.                         *)
LEMMA StepsOfPlan ==
  ASSUME NEW p \in Plan, NEW c \in Case
  PROVE  p.setup \in Scripts /\ p.check[c] \in Scripts
<1>1. p.setup \in Texts[Setup] /\ p.check \in [Case -> Scripts]
  BY DEF Plan
<1>2. p.setup \in Scripts
  BY <1>1 DEF Scripts
<1> QED BY <1>1, <1>2

(* The check an attempt has come to is one of its plan, and not one of     *)
(* those it has yet to come to after it.                                   *)
LEMMA HereIsNext ==
  ASSUME position \in 1 .. (Len(Checks) + 1), Left
  PROVE  /\ Here \in Case /\ Here \notin Later
         /\ {Checks[i] : i \in {j \in DOMAIN Checks : position <= j}} = Later \cup {Here}
         /\ {Checks[i] : i \in {j \in DOMAIN Checks : position + 1 <= j}} = Later
<1>1. position \in 1 .. Len(Checks)
  BY ChecksInOrder DEF Left
<1>2. Here \in Case
  BY <1>1, ChecksInOrder DEF Here
<1>3. Here \notin Later
  <2> SUFFICES ASSUME NEW i \in DOMAIN Checks, position < i, Here = Checks[i] PROVE FALSE
    BY DEF Later
  <2>1. i = position
    BY <1>1, ChecksInOrder, RuntimeVerificationAssumption DEF Here
  <2> QED BY <2>1, <1>1
<1>4. \A j \in DOMAIN Checks : position <= j <=> (position < j \/ j = position)
  BY <1>1, ChecksInOrder
<1>5. \A j \in DOMAIN Checks : position + 1 <= j <=> position < j
  BY <1>1, ChecksInOrder
<1>6. position \in DOMAIN Checks
  BY <1>1, ChecksInOrder
<1> QED BY <1>2, <1>3, <1>4, <1>5, <1>6 DEF Later, Here

(* A key determines what was executed.                                     *)
LEMMA KeyOfRun ==
  ASSUME NEW r, r.source = frozen.source, r.setup = plan.setup, r.check = plan.check[r.case]
  PROVE  KeyOf(r) = Key(frozen.source, plan, r.case)
BY DEF KeyOf, Key

LEMMA KeysDiffer ==
  ASSUME NEW s, NEW p, NEW c, NEW e, Key(s, p, c) = Key(s, p, e)
  PROVE  c = e
BY DEF Key

LEMMA FirstIsInput == FirstInput \in Input
BY RuntimeVerificationAssumption DEF FirstInput, Input

LEMMA InitSound == Init => VInv
<1> SUFFICES ASSUME Init PROVE VInv
  OBVIOUS
<1> USE DEF Init, Idle
<1>1. RuntimeTypeOK
  BY FirstIsInput, ChecksInOrder DEF RuntimeTypeOK
<1>2. RunInv /\ ReceiptInv
  BY DEF RunInv, ReceiptInv
<1>3. PlannedInv /\ UnseenInv /\ ReplayInv
  BY DEF PlannedInv, UnseenInv, ReplayInv
<1>4. ReportsBacked
  BY DEF ReportsBacked
<1> QED BY <1>1, <1>2, <1>3, <1>4 DEF VInv

LEMMA GoIdleTypes ==
  ASSUME GoIdle, RuntimeTypeOK
  PROVE  /\ stage' = "idle" /\ frozen' \in Input
         /\ position' \in 1 .. (Len(Checks) + 1) /\ runs' \subseteq Run
         /\ written' = None
BY FirstIsInput, ChecksInOrder DEF GoIdle, RuntimeTypeOK

(* An attempt that ends, or goes on to what is done with its report.       *)
LEMMA Ends ==
  ASSUME VInv,
         \/ GoIdle
         \/ stage' = "verified" /\ UNCHANGED <<frozen, plan, position, runs, written>>,
         UNCHANGED <<planned, good, stuck, history>>
  PROVE  RunInv' /\ ReceiptInv' /\ PlannedInv' /\ UnseenInv' /\ ReplayInv'
<1>1. stage' \in {"idle", "verified"} /\ (stage' = "idle" => position' = 1 /\ runs' = {})
  BY DEF GoIdle
<1>2. RunInv' /\ PlannedInv' /\ ReplayInv'
  BY <1>1 DEF RunInv, PlannedInv, ReplayInv
<1>3. ReceiptInv'
  BY DEF VInv, ReceiptInv
<1>4. UnseenInv'
  BY DEF VInv, UnseenInv, OfSaved, Receipts, history
<1> QED BY <1>2, <1>3, <1>4

LEMMA ReuseSound == VInv /\ Reuse => VInv'
<1> SUFFICES ASSUME VInv, Reuse PROVE VInv'
  OBVIOUS
<1>1. RunInv' /\ ReceiptInv' /\ PlannedInv' /\ UnseenInv' /\ ReplayInv'
  BY Ends DEF Reuse
<1>2. RuntimeTypeOK'
  BY DEF VInv, RuntimeTypeOK, Reuse
<1>3. ReportsBacked'
  BY DEF VInv, ReportsBacked, Reuse, Backed
<1> QED BY <1>1, <1>2, <1>3 DEF VInv

LEMMA LeaveSound == VInv /\ (Leave \/ Interrupt) => VInv'
<1> SUFFICES ASSUME VInv, Leave \/ Interrupt PROVE VInv'
  OBVIOUS
<1> GoIdle /\ UNCHANGED <<input, files, used, history>>
  BY DEF Leave, Interrupt
<1>1. RunInv' /\ ReceiptInv' /\ PlannedInv' /\ UnseenInv' /\ ReplayInv'
  BY Ends DEF files
<1>2. RuntimeTypeOK'
  BY GoIdleTypes DEF VInv, RuntimeTypeOK, files
<1>3. ReportsBacked'
  BY DEF VInv, ReportsBacked, GoIdle, files, Backed
<1> QED BY <1>1, <1>2, <1>3 DEF VInv

LEMMA AdoptSound == VInv /\ Adopt => VInv'
<1> SUFFICES ASSUME VInv, Adopt PROVE VInv'
  OBVIOUS
<1>1. RunInv' /\ ReceiptInv' /\ PlannedInv' /\ UnseenInv' /\ ReplayInv'
  BY Ends DEF Adopt
<1>2. RuntimeTypeOK'
  BY GoIdleTypes DEF VInv, RuntimeTypeOK, Adopt
<1>3. ReportsBacked'
  <2>1. checkpoint' = None /\ report' = written /\ written' \in {None, written}
    BY DEF Adopt, GoIdle
  <2> QED BY <2>1 DEF VInv, ReportsBacked, Backed
<1> QED BY <1>1, <1>2, <1>3 DEF VInv

(* What an attempt starts from.                                            *)
LEMMA ResumeSound == VInv /\ Resume => VInv'
<1> SUFFICES ASSUME VInv, Resume PROVE VInv'
  OBVIOUS
<1> USE DEF Resume, files, history
<1>1. checkpoint \in Evidence /\ Backed(checkpoint)
  BY DEF VInv, RuntimeTypeOK, ReportsBacked, Resumable
<1>2. RuntimeTypeOK'
  BY <1>1 DEF VInv, RuntimeTypeOK, Evidence
<1>3. RunInv'
  <2>1. plan' \in Plan
    BY <1>1 DEF Evidence
  <2>2. \A r \in runs' : OfPlan(r)'
    BY <1>1 DEF Backed, OfPlan
  <2>3. \A r, q \in runs' : q.case = r.case => q = r
    BY <1>1 DEF Backed
  <2> QED BY <2>1, <2>2, <2>3 DEF RunInv
<1>4. ReceiptInv' /\ UnseenInv' /\ ReplayInv' /\ ReportsBacked'
  BY DEF VInv, ReceiptInv, UnseenInv, OfSaved, Receipts, ReplayInv, ReportsBacked, Backed
<1>5. PlannedInv'
  BY DEF PlannedInv
<1> QED BY <1>2, <1>3, <1>4, <1>5 DEF VInv

LEMMA VerifySound == VInv /\ Verify => VInv'
<1> SUFFICES ASSUME VInv, Verify PROVE VInv'
  OBVIOUS
<1> USE DEF Verify, history
<1>1. RuntimeTypeOK'
  BY DEF VInv, RuntimeTypeOK
<1>2. RunInv' /\ PlannedInv'
  BY DEF VInv, RunInv, PlannedInv
<1>3. ReceiptInv' /\ UnseenInv' /\ ReplayInv' /\ ReportsBacked'
  BY DEF VInv, ReceiptInv, UnseenInv, OfSaved, Receipts, ReplayInv, ReportsBacked, Backed
<1> QED BY <1>1, <1>2, <1>3 DEF VInv

(* Whatever plan is made: what it may repeat, it may repeat lost or        *)
(* completed.                                                              *)
LEMMA PlannedSound ==
  ASSUME VInv, stage = "planning", NEW p \in Plan, Planned(p), unseen' \subseteq unseen,
         \A k \in unseen' \ lost' : Receipts(k) # {}
  PROVE  VInv'
<1> USE DEF Planned
<1>1. planned' \in PlanCheckpoint /\ planned' # None
      /\ planned' = [input |-> frozen, plan |-> p]
  BY RuntimeVerificationAssumption DEF VInv, RuntimeTypeOK, PlanCheckpoint
<1>2. RuntimeTypeOK'
  BY <1>1 DEF VInv, RuntimeTypeOK
<1>3. RunInv'
  BY DEF VInv, RunInv
<1>4. ReceiptInv' /\ ReportsBacked'
  BY DEF VInv, ReceiptInv, ReportsBacked, Backed
<1>5. PlannedInv'
  BY DEF PlannedInv
<1>6. UnseenInv'
  BY <1>1 DEF VInv, UnseenInv, OfSaved, Receipts
<1>7. ReplayInv'
  <2> SUFFICES ASSUME NEW c \in Open', Key(frozen.source, p, c) \in unseen' \ lost'
               PROVE  Receipts(Key(frozen.source, p, c))' # {}
    BY DEF ReplayInv
  <2> QED BY DEF Receipts
<1> QED BY <1>2, <1>3, <1>4, <1>5, <1>6, <1>7 DEF VInv

(* What is unseen, not lost and not completed is of the saved plan, and so *)
(* among the incomplete runs that plan is kept without or repaired after.  *)
LEMMA UnseenIncomplete ==
  ASSUME VInv, Saved, NEW k \in unseen \ lost, Receipts(k) = {}
  PROVE  \E t \in Incomplete : t.key = k
<1>1. PICK t \in stuck : t.key = k
  BY DEF VInv, UnseenInv
<1>2. PICK c \in Case : k = Key(frozen.source, planned.plan, c)
  BY DEF VInv, UnseenInv, OfSaved, Saved
<1> QED BY <1>1, <1>2 DEF Incomplete

LEMMA KeepPlanSound == VInv /\ KeepPlan => VInv'
<1> SUFFICES ASSUME VInv, KeepPlan PROVE VInv'
  OBVIOUS
<1>1. planned \in PlanCheckpoint
  BY DEF VInv, RuntimeTypeOK, KeepPlan, Saved
<1> DEFINE p == planned.plan
<1>2. p \in Plan
  BY <1>1 DEF PlanCheckpoint
<1>3. Saved /\ Incomplete = {}
  BY DEF KeepPlan, ToRepair
<1>4. ASSUME NEW k \in unseen \ lost PROVE Receipts(k) # {}
  BY <1>3, <1>4, UnseenIncomplete
<1> QED BY <1>2, <1>4, PlannedSound DEF KeepPlan, history

LEMMA RepairPlanSound == VInv /\ RepairPlan => VInv'
<1> SUFFICES ASSUME VInv, RepairPlan PROVE VInv'
  OBVIOUS
<1>1. PICK p \in Plan : Planned(p)
  BY DEF RepairPlan, Repairs
<1>2. ASSUME NEW k \in unseen' \ lost' PROVE Receipts(k) # {}
  <2>1. k \in unseen \ lost /\ k \notin Shown
    BY <1>2 DEF RepairPlan
  <2> SUFFICES ASSUME Receipts(k) = {} PROVE FALSE
    OBVIOUS
  <2>2. PICK t \in Incomplete : t.key = k
    BY <2>1, UnseenIncomplete DEF RepairPlan
  <2> QED BY <2>1, <2>2 DEF Shown, Incomplete, RepairPlan
<1> QED BY <1>1, <1>2, PlannedSound DEF RepairPlan

LEMMA NewPlanSound == VInv /\ NewPlan => VInv'
<1> SUFFICES ASSUME VInv, NewPlan PROVE VInv'
  OBVIOUS
<1>1. PICK p \in Plan : Planned(p)
  BY DEF NewPlan
<1>2. unseen' \ lost' = {} /\ unseen' \subseteq unseen
  BY DEF NewPlan
<1> QED BY <1>1, <1>2, PlannedSound DEF NewPlan

(* The cases.                                                              *)
LEMMA RestoreSound == VInv /\ Restore => VInv'
<1> SUFFICES ASSUME VInv, Restore PROVE VInv'
  OBVIOUS
<1> USE DEF Restore, files, history
<1>1. /\ Here \in Case /\ Here \notin Later /\ Open = Later \cup {Here} /\ Open' = Later
  BY HereIsNext DEF VInv, RuntimeTypeOK, Open
<1>2. ASSUME NEW g \in Receipts(HereKey)
      PROVE  g.run \in Run /\ OfPlan(g.run) /\ g.run.case = Here
  <2>1. KeyOf(g.run) = HereKey /\ g.run \in Run
    BY DEF VInv, ReceiptInv, Receipts, RuntimeTypeOK
  <2> QED BY <2>1 DEF KeyOf, HereKey, Key, OfPlan
<1>3. \A g, h \in Receipts(HereKey) : g.run = h.run
  BY DEF VInv, ReceiptInv, Receipts
<1>4. \A r \in runs : r.case # Here
  BY <1>1 DEF VInv, RunInv
<1>5. RuntimeTypeOK'
  <2>1. position' \in 1 .. (Len(Checks) + 1)
    BY ChecksInOrder DEF VInv, RuntimeTypeOK, Left
  <2> QED BY <1>2, <2>1 DEF VInv, RuntimeTypeOK
<1>6. RunInv'
  <2>1. \A r \in runs' : OfPlan(r)'
    BY <1>2 DEF VInv, RunInv, OfPlan
  <2>2. \A r, q \in runs' : q.case = r.case => q = r
    BY <1>2, <1>3, <1>4 DEF VInv, RunInv
  <2>3. \A r \in runs' : r.case \notin Open'
    BY <1>1, <1>2 DEF VInv, RunInv
  <2> QED BY <2>1, <2>2, <2>3 DEF VInv, RunInv
<1>7. ReceiptInv' /\ PlannedInv' /\ UnseenInv' /\ ReportsBacked'
  BY DEF VInv, ReceiptInv, PlannedInv, UnseenInv, OfSaved, Receipts, ReportsBacked, Backed
<1>8. ReplayInv'
  BY <1>1 DEF VInv, ReplayInv, Receipts
<1> QED BY <1>5, <1>6, <1>7, <1>8 DEF VInv

LEMMA ExecuteSound == VInv /\ Execute => VInv'
<1> SUFFICES ASSUME VInv, Execute PROVE VInv'
  OBVIOUS
<1> USE DEF Execute, files, history
<1>1. Here \in Case /\ Here \notin Later /\ Open = Later \cup {Here} /\ Open' = Later
  BY HereIsNext DEF VInv, RuntimeTypeOK, Open, Later
<1>2. PICK e \in Exit : runs' = runs \cup
        {[source |-> input.source, setup |-> plan.setup, case |-> Here,
          check |-> plan.check[Here], exit |-> e]}
  OBVIOUS
<1> DEFINE new == [source |-> input.source, setup |-> plan.setup, case |-> Here,
                   check |-> plan.check[Here], exit |-> e]
<1>3. new \in Run /\ OfPlan(new) /\ new.case = Here
  BY <1>1, StepsOfPlan DEF VInv, RunInv, RuntimeTypeOK, Run, OfPlan, Unchanged, Input
<1> HIDE DEF new
<1>4. runs' = runs \cup {new}
  BY <1>2 DEF new
<1>5. \A r \in runs : r.case # Here
  BY <1>1 DEF VInv, RunInv
<1>6. RuntimeTypeOK'
  BY <1>3, <1>4 DEF VInv, RuntimeTypeOK
<1>7. RunInv'
  <2>1. \A r \in runs' : OfPlan(r)'
    BY <1>3, <1>4 DEF VInv, RunInv, OfPlan
  <2>2. \A r, q \in runs' : q.case = r.case => q = r
    BY <1>3, <1>4, <1>5 DEF VInv, RunInv
  <2>3. \A r \in runs' : r.case \notin Open'
    BY <1>1, <1>3, <1>4 DEF VInv, RunInv
  <2>4. Left' /\ \E r \in runs' : r.case = Here'
    BY <1>3, <1>4 DEF Left, Here
  <2> QED BY <2>1, <2>2, <2>3, <2>4 DEF VInv, RunInv
<1>8. ReceiptInv' /\ PlannedInv' /\ UnseenInv' /\ ReportsBacked'
  BY DEF VInv, ReceiptInv, PlannedInv, UnseenInv, OfSaved, Receipts, ReportsBacked, Backed
<1>9. ReplayInv'
  BY <1>1 DEF VInv, ReplayInv, Receipts
<1> QED BY <1>6, <1>7, <1>8, <1>9 DEF VInv

(* A case is filed under its key: the receipts of other keys stay.         *)
LEMMA FileSound == VInv /\ File => VInv'
<1> SUFFICES ASSUME VInv, File PROVE VInv'
  OBVIOUS
<1>1. PICK removed \in BOOLEAN :
        LET keeps == Kept(removed)
        IN /\ good' = IF keeps THEN (good \ Receipts(HereKey)) \cup {Filed} ELSE good
           /\ stuck' = IF keeps THEN stuck
                       ELSE {t \in stuck : t.key # HereKey} \cup {Filed}
           /\ unseen' = IF keeps THEN unseen ELSE unseen \cup {HereKey}
           /\ lost' = IF keeps THEN lost ELSE lost \ {HereKey}
           /\ IF removed THEN /\ stage' = "cases"
                              /\ position' = position + 1
                              /\ UNCHANGED <<frozen, plan, runs, written>>
                         ELSE GoIdle
  BY DEF File
<1>2. stage = "ran" /\ UNCHANGED <<input, planned, checkpoint, report, used>>
  BY DEF File
<1>3. Left /\ position \in 1 .. (Len(Checks) + 1) /\ \E r \in runs : r.case = Here
  BY <1>2 DEF VInv, RunInv, RuntimeTypeOK
<1>4. /\ Here \in Case /\ Here \notin Later /\ Open = Later
      /\ {Checks[i] : i \in {j \in DOMAIN Checks : position + 1 <= j}} = Later
  BY <1>2, <1>3, HereIsNext DEF Open
<1>5. JustRan \in runs /\ JustRan.case = Here /\ JustRan \in Run /\ OfPlan(JustRan)
  <2>1. JustRan \in runs /\ JustRan.case = Here
    BY <1>3 DEF JustRan
  <2> QED BY <1>2, <2>1 DEF VInv, RunInv, RuntimeTypeOK
<1>6. Filed.key = HereKey /\ Filed.run = JustRan /\ KeyOf(JustRan) = HereKey
  BY <1>5 DEF Filed, KeyOf, OfPlan, HereKey, Key
<1> DEFINE keeps == Kept(removed)
<1>7. ASSUME NEW k, Receipts(k) # {} PROVE Receipts(k)' # {}
  <2>1. CASE k = HereKey /\ keeps
    BY <1>1, <1>6, <2>1 DEF Receipts
  <2>2. CASE k # HereKey \/ ~keeps
    BY <1>1, <1>7, <2>2 DEF Receipts
  <2> QED BY <2>1, <2>2
<1>8. ASSUME stage' = "cases", position' = position + 1,
             UNCHANGED <<frozen, plan, runs, written>>
      PROVE  RunInv' /\ PlannedInv' /\ ReplayInv'
  <2>1. Open' = Later
    BY <1>4, <1>8 DEF Open
  <2>2. RunInv'
    BY <1>2, <1>4, <1>8, <2>1 DEF VInv, RunInv, OfPlan
  <2>3. PlannedInv'
    BY <1>2, <1>8 DEF VInv, PlannedInv
  <2>5. ASSUME NEW c \in Later PROVE Key(frozen.source, plan, c) # HereKey
    BY <1>4, KeysDiffer DEF HereKey
  <2>6. ReplayInv'
    <3> SUFFICES ASSUME NEW c \in Later, Key(frozen.source, plan, c) \in unseen' \ lost'
                 PROVE  Receipts(Key(frozen.source, plan, c))' # {}
      BY <1>8, <2>1 DEF ReplayInv
    <3>1. Key(frozen.source, plan, c) \in unseen \ lost
      BY <1>1, <2>5
    <3>2. Receipts(Key(frozen.source, plan, c)) # {}
      BY <1>2, <1>4, <3>1 DEF VInv, ReplayInv
    <3>3. PICK k : k = Key(frozen.source, plan, c)
      OBVIOUS
    <3>4. Receipts(k)' # {}
      BY <1>7, <3>2, <3>3
    <3> QED BY <1>8, <3>3, <3>4
  <2> QED BY <2>2, <2>3, <2>6
<1>9. ASSUME GoIdle PROVE RunInv' /\ PlannedInv' /\ ReplayInv'
  BY <1>9 DEF GoIdle, RunInv, PlannedInv, ReplayInv
<1>10. RunInv' /\ PlannedInv' /\ ReplayInv'
  BY <1>1, <1>8, <1>9
<1>11. ReceiptInv'
  <2>1. CASE keeps
    <3>1. \A g \in good : g \in good' => g.key # HereKey \/ g = Filed
      BY <1>1, <2>1 DEF Receipts
    <3>2. good' \subseteq good \cup {Filed}
      BY <1>1, <2>1
    <3> QED BY <1>6, <3>1, <3>2 DEF VInv, ReceiptInv
  <2>2. CASE ~keeps
    BY <1>1, <2>2 DEF VInv, ReceiptInv
  <2> QED BY <2>1, <2>2
<1>12. UnseenInv'
  <2>1. \A k \in unseen' : \E t \in stuck' : t.key = k
    BY <1>1, <1>6 DEF VInv, UnseenInv
  <2>2. ASSUME NEW k \in unseen' \ lost' PROVE Receipts(k)' # {} \/ OfSaved(k)'
    <3>1. CASE k \in unseen \ lost
      BY <1>2, <1>7, <3>1 DEF VInv, UnseenInv, OfSaved
    <3>2. CASE k \notin unseen \ lost
      <4>1. k = HereKey
        BY <1>1, <2>2, <3>2
      <4>2. planned = [input |-> frozen, plan |-> plan] /\ planned # None
        BY <1>2, RuntimeVerificationAssumption
           DEF VInv, PlannedInv, RuntimeTypeOK, RunInv, PlanCheckpoint
      <4> QED BY <1>2, <1>4, <4>1, <4>2 DEF OfSaved, HereKey
    <3> QED BY <3>1, <3>2
  <2> QED BY <2>1, <2>2 DEF UnseenInv
<1>13. RuntimeTypeOK'
  <2>1. keeps => Completed(JustRan)
    BY DEF Kept
  <2>2. \A g \in good' : g.run \in Run /\ Completed(g.run)
    BY <1>1, <1>5, <1>6, <2>1 DEF VInv, RuntimeTypeOK
  <2>3. \A t \in stuck' : t.run \in Run
    BY <1>1, <1>5, <1>6 DEF VInv, RuntimeTypeOK
  <2>4. /\ stage' \in {"idle", "cases"} /\ frozen' \in Input
        /\ position' \in 1 .. (Len(Checks) + 1) /\ runs' \subseteq Run
        /\ written' \in {None, written}
    BY <1>1, <1>3, ChecksInOrder, GoIdleTypes DEF VInv, RuntimeTypeOK, Left, GoIdle
  <2> QED BY <1>2, <2>2, <2>3, <2>4 DEF VInv, RuntimeTypeOK
<1>14. ReportsBacked'
  <2>1. written' \in {None, written}
    BY <1>1 DEF GoIdle
  <2> QED BY <1>2, <2>1 DEF VInv, ReportsBacked, Backed
<1> QED BY <1>10, <1>11, <1>12, <1>13, <1>14 DEF VInv

(* What the runs of an attempt amount to.                                  *)
LEMMA RunsBack ==
  ASSUME VInv, stage \in {"cases", "diagnosing"},
         \A c \in Case : \E r \in runs : r.case = c, \A r \in runs : Completed(r),
         NEW e, e.runs = runs, e.input = frozen, e.plan = plan
  PROVE  Backed(e)
<1>1. \A r \in runs : r.case \in Case
  BY DEF VInv, RuntimeTypeOK, Run
<1>2. {r.case : r \in e.runs} = Case
  BY <1>1
<1> QED BY <1>2 DEF VInv, RunInv, OfPlan, Backed

LEMMA ConcludeSound == VInv /\ Conclude => VInv'
<1> SUFFICES ASSUME VInv, Conclude PROVE VInv'
  OBVIOUS
<1> USE DEF Conclude, history
<1> DEFINE e == [input |-> frozen, plan |-> plan, runs |-> runs, reported |-> FALSE]
           AllRan == /\ \A c \in Case : \E r \in runs : r.case = c
                     /\ \A r \in runs : Completed(r)
                     /\ Unchanged
<1>1. checkpoint' = IF AllRan THEN e ELSE checkpoint
  OBVIOUS
<1>2. AllRan => Backed(e)
  BY RunsBack
<1>3. e \in Evidence
  BY DEF VInv, RunInv, RuntimeTypeOK, Evidence
<1> HIDE DEF e, AllRan
<1>4. RuntimeTypeOK'
  BY <1>1, <1>3 DEF VInv, RuntimeTypeOK
<1>5. RunInv'
  BY DEF VInv, RunInv, OfPlan
<1>6. ReceiptInv' /\ PlannedInv' /\ UnseenInv' /\ ReplayInv'
  BY DEF VInv, ReceiptInv, PlannedInv, UnseenInv, OfSaved, Receipts, ReplayInv
<1>7. ReportsBacked'
  <2>1. checkpoint' # None => Backed(checkpoint')
    BY <1>1, <1>2 DEF VInv, ReportsBacked
  <2> QED BY <2>1 DEF VInv, ReportsBacked, Backed
<1> QED BY <1>4, <1>5, <1>6, <1>7 DEF VInv

(* Only what completed everywhere may be called anything but blocked.      *)
LEMMA WriteReportSound == VInv /\ WriteReport => VInv'
<1> SUFFICES ASSUME VInv, WriteReport PROVE VInv'
  OBVIOUS
<1> USE DEF WriteReport, history
<1>1. PICK b \in Verdicts :
        written' = [input |-> frozen, plan |-> plan, runs |-> runs,
                    status |-> Status(b), blocked |-> b]
  OBVIOUS
<1>2. b \in SUBSET (Case \cup {Setup})
  BY DEF Verdicts, VInv, RuntimeTypeOK, Run
<1>3. Status(b) \in {"passed", "bugs", "blocked"}
  BY DEF Status
<1>4. written' \in Report /\ written'.status = Status(b) /\ written'.runs = runs
      /\ written'.input = frozen /\ written'.plan = plan
  BY <1>1, <1>2, <1>3 DEF VInv, RunInv, RuntimeTypeOK, Report
<1>5. Status(b) # "blocked" => Backed(written')
  <2> SUFFICES ASSUME Status(b) # "blocked" PROVE Backed(written')
    OBVIOUS
  <2>1. b = {} /\ \A c \in Case : \E r \in runs : r.case = c /\ r.exit # "setup"
    <3> DEFINE Blocked == b # {} \/ \E c \in Case : ~\E r \in runs : r.case = c /\ r.exit # "setup"
    <3>1. Blocked => Status(b) = "blocked"
      BY DEF Status
    <3> QED BY <3>1
  <2>2. \A r \in runs : r.exit # "open"
    BY <2>1 DEF Verdicts
  <2>3. ASSUME NEW r \in runs PROVE r.exit # "setup"
    <3>1. r.case \in Case
      BY DEF VInv, RuntimeTypeOK, Run
    <3>2. PICK q \in runs : q.case = r.case /\ q.exit # "setup"
      BY <2>1, <3>1
    <3> QED BY <3>2 DEF VInv, RunInv
  <2>4. \A r \in runs : Completed(r)
    BY <2>2, <2>3 DEF Completed, VInv, RuntimeTypeOK, Run, Exit
  <2> QED BY <1>4, <2>1, <2>4, RunsBack
<1>6. checkpoint' \in {None} \cup Evidence /\ (checkpoint' # None => Backed(checkpoint'))
  <2>1. CASE checkpoint = None
    BY <2>1
  <2>2. CASE checkpoint # None
    <3>1. checkpoint \in Evidence /\ Backed(checkpoint)
      BY <2>2 DEF VInv, RuntimeTypeOK, ReportsBacked
    <3>2. checkpoint' = [checkpoint EXCEPT !.reported = TRUE]
      BY <2>2
    <3>3. /\ checkpoint' \in Evidence /\ checkpoint'.runs = checkpoint.runs
          /\ checkpoint'.input = checkpoint.input /\ checkpoint'.plan = checkpoint.plan
      BY <3>1, <3>2 DEF Evidence
    <3> QED BY <3>1, <3>3 DEF Backed
  <2> QED BY <2>1, <2>2
<1>7. RuntimeTypeOK'
  BY <1>4, <1>6 DEF VInv, RuntimeTypeOK
<1>8. RunInv' /\ ReceiptInv' /\ PlannedInv' /\ UnseenInv' /\ ReplayInv'
  BY DEF VInv, RunInv, ReceiptInv, PlannedInv, UnseenInv, OfSaved, Receipts, ReplayInv
<1>9. ReportsBacked'
  BY <1>4, <1>5, <1>6 DEF VInv, ReportsBacked, Backed
<1> QED BY <1>7, <1>8, <1>9 DEF VInv

(* Nothing an attempt holds is of the input as it is now.                  *)
LEMMA ChangesSound == VInv /\ (SourceChanges \/ RegressionChanges) => VInv'
<1> SUFFICES ASSUME VInv, SourceChanges \/ RegressionChanges PROVE VInv'
  OBVIOUS
<1> USE DEF files, memory, history
<1>1. input' \in Input
  BY DEF SourceChanges, RegressionChanges, VInv, RuntimeTypeOK, Input
<1>2. UNCHANGED <<files, memory, history>>
  BY DEF SourceChanges, RegressionChanges
<1>3. RuntimeTypeOK'
  BY <1>1, <1>2 DEF VInv, RuntimeTypeOK
<1>4. RunInv' /\ ReceiptInv'
  BY <1>2 DEF VInv, RunInv, OfPlan, Open, Later, Here, Left, ReceiptInv
<1>5. PlannedInv' /\ UnseenInv' /\ ReplayInv'
  BY <1>2 DEF VInv, PlannedInv, UnseenInv, OfSaved, ReplayInv, Open, Later, Receipts
<1>6. ReportsBacked'
  BY <1>2 DEF VInv, ReportsBacked, Backed
<1> QED BY <1>3, <1>4, <1>5, <1>6 DEF VInv

LEMMA StutterSound == VInv /\ UNCHANGED vars => VInv'
<1> SUFFICES ASSUME VInv, UNCHANGED vars PROVE VInv'
  OBVIOUS
<1> USE DEF vars, files, memory, history
<1>1. RuntimeTypeOK'
  BY DEF VInv, RuntimeTypeOK
<1>2. RunInv' /\ ReceiptInv'
  BY DEF VInv, RunInv, OfPlan, Open, Later, Here, Left, ReceiptInv
<1>3. PlannedInv' /\ UnseenInv' /\ ReplayInv'
  BY DEF VInv, PlannedInv, UnseenInv, OfSaved, ReplayInv, Open, Later, Receipts
<1>4. ReportsBacked'
  BY DEF VInv, ReportsBacked, Backed
<1> QED BY <1>1, <1>2, <1>3, <1>4 DEF VInv

-----------------------------------------------------------------------------
(* Results.                                                                *)

(* The inductive invariant holds of every behaviour: types, the runs an    *)
(* attempt holds, receipts filed by what was executed, and what is known   *)
(* of stuck runs whose log nobody was shown.                               *)
THEOREM VerificationInductive == Spec => []VInv
<1>1. VInv /\ [Next]_vars => VInv'
  <2> SUFFICES ASSUME VInv, [Next]_vars PROVE VInv'
    OBVIOUS
  <2>1. CASE Reuse \/ Resume \/ Verify
    BY <2>1, ReuseSound, ResumeSound, VerifySound
  <2>2. CASE KeepPlan \/ RepairPlan \/ NewPlan
    BY <2>2, KeepPlanSound, RepairPlanSound, NewPlanSound
  <2>3. CASE Restore \/ Execute \/ File \/ Conclude
    BY <2>3, RestoreSound, ExecuteSound, FileSound, ConcludeSound
  <2>4. CASE WriteReport \/ Adopt \/ Leave \/ Interrupt
    BY <2>4, WriteReportSound, AdoptSound, LeaveSound
  <2>5. CASE SourceChanges \/ RegressionChanges \/ UNCHANGED vars
    BY <2>5, ChangesSound, StutterSound
  <2> QED BY <2>1, <2>2, <2>3, <2>4, <2>5 DEF Next
<1> QED BY InitSound, <1>1, PTL DEF Spec

(* A report that says anything but blocked, and a checkpoint that may      *)
(* become one, rests on one completed run of every check on its source     *)
(* with its plan's commands (runtime-verification.mjs: the diagnosis; the  *)
(* restored, resumed and repaired cases of runtime-case-execution.mjs).    *)
THEOREM ReportsRestOnRuns == Spec => []ReportsBacked
<1>1. VInv => ReportsBacked
  BY DEF VInv
<1> QED BY VerificationInductive, <1>1, PTL

(* A command that was filed as not completed is not executed again before  *)
(* its log was shown to whoever makes the plans, unless a plan was made    *)
(* from nothing since, or the command has completed at another time        *)
(* (runtime-case-execution.mjs:91-106, runtime-verification.mjs:1149).     *)
THEOREM BlockedNotRepeated == Spec => NoBlindReplay
<1>1. ASSUME VInv, Next, stage = "cases", stage' = "ran", HereKey \in unseen
      PROVE  HereKey \in lost \/ Receipts(HereKey) # {}
  <2>1. Execute
    BY <1>1 DEF Next, Reuse, Resume, Verify, KeepPlan, RepairPlan, NewPlan, Planned, Restore,
                File, Conclude, WriteReport, Adopt, Leave, Interrupt, SourceChanges,
                RegressionChanges, GoIdle, memory
  <2>2. Here \in Open
    BY <1>1, <2>1, HereIsNext DEF Execute, VInv, RuntimeTypeOK, Open
  <2> QED BY <1>1, <2>2 DEF VInv, ReplayInv, HereKey
<1>2. VInv /\ [Next]_vars =>
        [stage = "cases" /\ stage' = "ran" /\ HereKey \in unseen
           => HereKey \in lost \/ Receipts(HereKey) # {}]_vars
  BY <1>1
<1> QED BY VerificationInductive, <1>2, PTL DEF Spec, NoBlindReplay

-----------------------------------------------------------------------------
(* ProjectSeries: the inductive invariant.                                 *)

Statuses == {"absent", "queued", "running", "review", "failed"}

\* What the proofs need to know of a turn; its other fields may hold anything.
IsRow(r) ==
  r \in [status : Statuses, category : Categories, root : Nat, repairOf : Nat,
         continues : Nat, sent : BOOLEAN, stage : Stages,
         work : {"run", "plan", "dispute", "replan"}, back : {"none", "review", "failed"},
         resumed : {r.resumed}, planned : {r.planned}, gateway : {r.gateway},
         outcome : {r.outcome}, permitted : {r.permitted}, archive : {r.archive},
         bugs : {r.bugs}, disputed : {r.disputed}, next : {r.next}, finished : {r.finished},
         excluded : {r.excluded}, continuation : {r.continuation}, tries : {r.tries},
         recovery : {r.recovery}]

IsJob(j) ==
  j \in [turn : Turns \cup {0}, kind : {j.kind}, phase : {j.phase}, row : {j.row},
         ok : BOOLEAN, next : {j.next}, category : {j.category}, inputs : {j.inputs}]

\* What a turn is, which never changes once it is there.
SameTurn(r, q) == /\ r.category = q.category /\ r.root = q.root
                  /\ r.repairOf = q.repairOf /\ r.continues = q.continues

\* A plan after a failure knows what its turn was before.
Plans(r) == r.work = "replan" => r.back \in {"review", "failed"}

\* Turns are there from the first to the last, and only the last one is queued
\* or runs.
TurnsInv ==
  /\ turns = [t \in Turns |-> turns[t]]
  /\ \A t \in Turns : IsRow(turns[t]) /\ Plans(turns[t])
  /\ \E n \in Present : \A u \in Present : u <= n
  /\ \A t \in Present, u \in Turns : u < t => u \in Present /\ turns[u].status \notin Active
  /\ \A t \in Present : turns[t].root \in 1 .. t

\* The job's turn is the last one and runs, and a successor that was planned for
\* it still has room.
JobInv ==
  /\ IsJob(job) /\ (job.turn = 0 => job.kind = "none")
  /\ job.turn # 0 =>
    LET t == job.turn
        r == job.row IN
    /\ t \in Present /\ turns[t].status = "running" /\ \A u \in Present : u <= t
    /\ IsRow(r) /\ SameTurn(r, turns[t]) /\ (r.sent => turns[t].sent)
    /\ r.back = turns[t].back
    /\ (job.kind = "replan") <=> (turns[t].work = "replan")
    /\ job.kind = "replan" /\ job.ok =>
         job.category \in Categories /\ CanAdd(job.category) /\ t < MaxTurns

\* The last turn takes its place also while it has failed, since it may be
\* prepared again without asking for one.
Held(c) ==
  {t \in Present : /\ Independent(turns[t]) /\ turns[t].category = c
                   /\ \/ turns[t].sent
                      \/ turns[t].status \in Active
                      \/ \A u \in Present : u <= t}
Rooted(k) == {t \in Present : turns[t].root = k}
Asked(k) == {t \in Rooted(k) : turns[t].continues = 0}
Repaired(k) == {t \in Asked(k) : turns[t].repairOf # 0}
Called(k) == {t \in Rooted(k) : turns[t].sent}
PlacesInv ==
  /\ \A c \in Categories : Cardinality(Held(c)) <= Limit[c]
  /\ \A k \in Nat : /\ Cardinality(Asked(k)) <= MaxLogicalTurns
                    /\ Cardinality(Repaired(k)) <= MaxBugRepairs
                    /\ Cardinality(Called(k)) <= MaxCalls

SInv == TurnsInv /\ JobInv /\ PlacesInv

LEMMA TurnsAreFinite ==
  ASSUME NEW S, S \subseteq Turns
  PROVE  IsFiniteSet(S) /\ Cardinality(S) \in Nat
<1>1. IsFiniteSet(Turns)
  BY SeriesAssumption, FS_Interval DEF Turns
<1>2. IsFiniteSet(S)
  BY <1>1, FS_Subset
<1> QED
  BY <1>2, FS_CardinalityType

LEMMA FewerTurns ==
  ASSUME NEW T, T \subseteq Turns, NEW S, S \subseteq T
  PROVE  Cardinality(S) <= Cardinality(T)
BY TurnsAreFinite, FS_Subset

LEMMA OneMoreTurn ==
  ASSUME NEW T, T \subseteq Turns, NEW S, NEW t, S \subseteq T \cup {t}
  PROVE  Cardinality(S) <= Cardinality(T) + 1
<1>1. IsFiniteSet(T) /\ Cardinality(T) \in Nat
  BY TurnsAreFinite
<1>2. IsFiniteSet(T \cup {t}) /\ Cardinality(T \cup {t}) \in {Cardinality(T), Cardinality(T) + 1}
  BY <1>1, FS_AddElement
<1>3. Cardinality(S) <= Cardinality(T \cup {t}) /\ Cardinality(S) \in Nat
  BY <1>2, FS_Subset, FS_CardinalityType
<1> QED
  BY <1>1, <1>2, <1>3

LEMMA SingleTurn == ASSUME NEW S, NEW t, S \subseteq {t} PROVE Cardinality(S) \in {0, 1}
<1>1. S = {} \/ S = {t}
  OBVIOUS
<1> QED
  BY <1>1, FS_EmptySet, FS_Singleton

\* Rows stay rows, and the turns they were.
LEMMA AbsentRow ==
  /\ IsRow(Absent) /\ ~Absent.sent /\ Absent.repairOf = 0 /\ Absent.continues = 0
  /\ Absent.work = "run" /\ Absent.status = "absent"
BY SeriesAssumption DEF IsRow, Absent, Statuses, Stages

LEMMA NewQuestionRow ==
  ASSUME NEW t \in Nat, NEW c \in Categories, NEW p
  PROVE  LET q == NewQuestion(t, c, p) IN
         /\ IsRow(q) /\ Plans(q) /\ q.status = "queued" /\ ~q.sent /\ Independent(q)
         /\ q.category = c /\ q.root = t
<1>1. ASSUME NEW r, IsRow(r)
      PROVE  LET q == [r EXCEPT !.status = "queued", !.category = c, !.root = t,
                               !.planned = p] IN
             /\ IsRow(q) /\ q.status = "queued" /\ q.category = c /\ q.root = t
             /\ q.sent = r.sent /\ q.work = r.work /\ q.repairOf = r.repairOf
             /\ q.continues = r.continues
  BY <1>1 DEF IsRow, Statuses
<1> QED
  BY <1>1, AbsentRow DEF NewQuestion, Plans, Independent

LEMMA NewRepairRow ==
  ASSUME NEW t \in Nat, t # 0, NEW c \in Categories, turns[t].root \in Nat
  PROVE  LET q == NewRepair(t, c) IN
         /\ IsRow(q) /\ Plans(q) /\ q.status = "queued" /\ ~q.sent
         /\ q.root = turns[t].root /\ q.continues = 0 /\ q.repairOf # 0
<1>1. ASSUME NEW r, IsRow(r)
      PROVE  LET q == [r EXCEPT !.status = "queued", !.category = c,
                               !.root = turns[t].root, !.repairOf = t] IN
             /\ IsRow(q) /\ q.status = "queued" /\ q.root = turns[t].root /\ q.repairOf = t
             /\ q.sent = r.sent /\ q.work = r.work /\ q.continues = r.continues
  BY <1>1 DEF IsRow, Statuses
<1> QED
  BY <1>1, AbsentRow DEF NewRepair, Plans

LEMMA NewContinuationRow ==
  ASSUME NEW t \in Nat, t # 0, turns[t].category \in Categories, turns[t].root \in Nat
  PROVE  LET q == NewContinuation(t) IN
         /\ IsRow(q) /\ Plans(q) /\ q.status = "queued" /\ ~q.sent
         /\ q.root = turns[t].root /\ q.continues # 0
<1>1. ASSUME NEW r, IsRow(r)
      PROVE  LET q == [r EXCEPT !.status = "queued", !.category = turns[t].category,
                               !.root = turns[t].root, !.continues = t] IN
             /\ IsRow(q) /\ q.status = "queued" /\ q.root = turns[t].root /\ q.continues = t
             /\ q.sent = r.sent /\ q.work = r.work
  BY <1>1 DEF IsRow, Statuses
<1> QED
  BY <1>1, AbsentRow DEF NewContinuation, Plans

\* A step that leaves every turn what it is, and none is sent by it.
LEMMA PlacesStay ==
  ASSUME TurnsInv, TurnsInv', PlacesInv, Present' = Present,
         \A t \in Present : SameTurn(turns'[t], turns[t]) /\ (turns'[t].sent => turns[t].sent)
  PROVE  PlacesInv'
<1>1. ASSUME NEW c \in Categories
      PROVE  Cardinality(Held(c)') <= Limit[c]
  <2>1. Held(c)' \subseteq Held(c)
    <3> SUFFICES ASSUME NEW t \in Held(c)' PROVE t \in Held(c)
      OBVIOUS
    <3>1. t \in Present /\ Independent(turns[t]) /\ turns[t].category = c
      BY DEF Held, Independent, SameTurn
    <3>2. \/ turns[t].sent
          \/ turns'[t].status \in Active
          \/ \A u \in Present : u <= t
      BY <3>1 DEF Held
    <3>3. turns'[t].status \in Active => \A u \in Present : u <= t
      <4> SUFFICES ASSUME turns'[t].status \in Active, NEW u \in Present PROVE u <= t
        OBVIOUS
      <4>1. ~(t < u)
        BY <3>1 DEF TurnsInv, Present, Active
      <4> QED
        BY <3>1, <4>1, SeriesAssumption DEF Present, Turns
    <3> QED
      BY <3>1, <3>2, <3>3 DEF Held
  <2>2. Held(c) \subseteq Turns
    BY DEF Held, Present
  <2>3. Cardinality(Held(c)') <= Cardinality(Held(c)) /\ Cardinality(Held(c)) <= Limit[c]
    BY <2>1, <2>2, FewerTurns DEF PlacesInv
  <2> QED
    BY <2>1, <2>2, <2>3, TurnsAreFinite, SeriesAssumption DEF Categories
<1>2. ASSUME NEW k \in Nat
      PROVE  /\ Cardinality(Asked(k)') <= MaxLogicalTurns
             /\ Cardinality(Repaired(k)') <= MaxBugRepairs
             /\ Cardinality(Called(k)') <= MaxCalls
  <2>1. Asked(k)' \subseteq Asked(k) /\ Repaired(k)' \subseteq Repaired(k)
        /\ Called(k)' \subseteq Called(k)
    BY DEF Asked, Repaired, Called, Rooted, SameTurn
  <2>2. Asked(k) \subseteq Turns /\ Repaired(k) \subseteq Turns /\ Called(k) \subseteq Turns
    BY DEF Asked, Repaired, Called, Rooted, Present
  <2>3. /\ Cardinality(Asked(k)) <= MaxLogicalTurns
        /\ Cardinality(Repaired(k)) <= MaxBugRepairs
        /\ Cardinality(Called(k)) <= MaxCalls
    BY DEF PlacesInv
  <2>4. /\ Cardinality(Asked(k)') <= Cardinality(Asked(k))
        /\ Cardinality(Repaired(k)') <= Cardinality(Repaired(k))
        /\ Cardinality(Called(k)') <= Cardinality(Called(k))
    BY <2>1, <2>2, FewerTurns
  <2> QED
    BY <2>1, <2>2, <2>3, <2>4, TurnsAreFinite, SeriesAssumption
    DEF MaxLogicalTurns, MaxBugRepairs
<1> QED
  BY <1>1, <1>2 DEF PlacesInv

\* The reservation of the last turn's call.
LEMMA PlacesSent ==
  ASSUME TurnsInv, TurnsInv', PlacesInv, Present' = Present, NEW n \in Present,
         \A u \in Present : u <= n,
         \A t \in Present : SameTurn(turns'[t], turns[t])
                            /\ (t # n => turns'[t].sent = turns[t].sent),
         Cardinality(Calls(n)) < MaxCalls
  PROVE  PlacesInv'
<1>1. ASSUME NEW c \in Categories
      PROVE  Cardinality(Held(c)') <= Limit[c]
  <2>1. Held(c)' \subseteq Held(c)
    <3> SUFFICES ASSUME NEW t \in Held(c)' PROVE t \in Held(c)
      OBVIOUS
    <3>1. t \in Present /\ Independent(turns[t]) /\ turns[t].category = c
      BY DEF Held, Independent, SameTurn
    <3>2. CASE t = n
      BY <3>1, <3>2 DEF Held
    <3>3. CASE t # n
      <4>1. t \in Turns /\ n \in Turns /\ t < n /\ t \in Nat /\ n \in Nat
        BY <3>1, <3>3, SeriesAssumption DEF Present, Turns
      <4>2. turns'[t].status \notin Active
        BY <3>1, <4>1 DEF TurnsInv
      <4>3. ~ \A u \in Present : u <= t
        BY <4>1
      <4>4. turns[t].sent
        BY <3>1, <3>3, <4>2, <4>3 DEF Held
      <4> QED
        BY <3>1, <4>4 DEF Held
    <3> QED
      BY <3>2, <3>3
  <2>2. Held(c) \subseteq Turns
    BY DEF Held, Present
  <2>3. Cardinality(Held(c)') <= Cardinality(Held(c)) /\ Cardinality(Held(c)) <= Limit[c]
    BY <2>1, <2>2, FewerTurns DEF PlacesInv
  <2> QED
    BY <2>1, <2>2, <2>3, TurnsAreFinite, SeriesAssumption DEF Categories
<1>2. ASSUME NEW k \in Nat
      PROVE  /\ Cardinality(Asked(k)') <= MaxLogicalTurns
             /\ Cardinality(Repaired(k)') <= MaxBugRepairs
             /\ Cardinality(Called(k)') <= MaxCalls
  <2>1. Asked(k)' = Asked(k) /\ Repaired(k)' = Repaired(k)
    BY DEF Asked, Repaired, Rooted, SameTurn
  <2>2. Cardinality(Called(k)') <= MaxCalls
    <3>1. Called(k) \subseteq Turns /\ Calls(n) \subseteq Turns
      BY DEF Called, Rooted, Calls, Session, Present
    <3>2. CASE turns[n].root = k
      <4>1. Called(k)' \subseteq Calls(n) \cup {n}
        BY <3>2 DEF Called, Rooted, Calls, Session, SameTurn
      <4>2. Cardinality(Called(k)') <= Cardinality(Calls(n)) + 1
        BY <3>1, <4>1, OneMoreTurn
      <4>3. Called(k)' \subseteq Turns
        BY DEF Called, Rooted, Present
      <4> QED
        BY <3>1, <4>2, <4>3, TurnsAreFinite, SeriesAssumption
    <3>3. CASE turns[n].root # k
      <4>1. Called(k)' = Called(k)
        BY <3>3 DEF Called, Rooted, SameTurn
      <4> QED
        BY <4>1 DEF PlacesInv
    <3> QED
      BY <3>2, <3>3
  <2> QED
    BY <2>1, <2>2 DEF PlacesInv
<1> QED
  BY <1>1, <1>2 DEF PlacesInv

\* One turn more, behind a last one that is over: a question where there was
\* room, or a repair or a continuation in the last one's session.
LEMMA PlacesAdded ==
  ASSUME TurnsInv, TurnsInv', PlacesInv, NEW n \in Present, n < MaxTurns,
         \A u \in Present : u <= n,
         Present' = Present \cup {n + 1},
         \A t \in Present : SameTurn(turns'[t], turns[t]) /\ (turns'[t].sent => turns[t].sent),
         ~turns'[n + 1].sent,
         \/ /\ Independent(turns'[n + 1]) /\ turns'[n + 1].root = n + 1
            /\ CanAdd(turns'[n + 1].category)
         \/ /\ turns'[n + 1].root = turns[n].root
            /\ turns'[n + 1].continues = 0 /\ turns'[n + 1].repairOf # 0
            /\ Cardinality(Questions(n)) < MaxLogicalTurns
            /\ Cardinality(RepairsIn(n)) < MaxBugRepairs
         \/ turns'[n + 1].root = turns[n].root /\ turns'[n + 1].continues # 0
  PROVE  PlacesInv'
<1> DEFINE m == n + 1
<1>0. n \in Turns /\ m \in Turns /\ n \in Nat /\ m \notin Present
  BY SeriesAssumption DEF Present, Turns
<1>1. ASSUME NEW c \in Categories
      PROVE  Cardinality(Held(c)') <= Limit[c]
  <2>1. Held(c)' \ {m} \subseteq Counted(c)
    <3> SUFFICES ASSUME NEW t \in Held(c)', t # m PROVE t \in Counted(c)
      OBVIOUS
    <3>1. t \in Present /\ Independent(turns[t]) /\ turns[t].category = c
      BY DEF Held, Independent, SameTurn
    <3>2. t \in Turns /\ t < m /\ t \in Nat
      BY <1>0, <3>1, SeriesAssumption DEF Present, Turns
    <3>3. m \in Present'
      OBVIOUS
    <3>4. turns'[t].status \notin Active
      BY <3>2, <3>3, <3>1 DEF TurnsInv
    <3>5. ~ \A u \in Present' : u <= t
      BY <1>0, <3>2, <3>3
    <3>6. turns[t].sent
      BY <3>1, <3>4, <3>5 DEF Held
    <3> QED
      BY <3>1, <3>6 DEF Counted
  <2>2. Counted(c) \subseteq Turns /\ Counted(c) \subseteq Held(c) /\ Held(c) \subseteq Turns
    <3>1. Counted(c) \subseteq Turns /\ Held(c) \subseteq Turns
      BY DEF Held, Counted, Present
    <3>2. Counted(c) \subseteq Held(c)
      BY DEF Held, Counted
    <3> QED
      BY <3>1, <3>2
  <2>3. CASE m \notin Held(c)'
    <3>1. Held(c)' \subseteq Held(c)
      BY <2>1, <2>2, <2>3
    <3>2. Cardinality(Held(c)') <= Cardinality(Held(c)) /\ Cardinality(Held(c)) <= Limit[c]
      BY <2>2, <3>1, FewerTurns DEF PlacesInv
    <3> QED
      BY <2>2, <3>1, <3>2, TurnsAreFinite, SeriesAssumption DEF Categories
  <2>4. CASE m \in Held(c)'
    <3>1. Independent(turns'[m]) /\ turns'[m].category = c
      BY <2>4 DEF Held, Independent
    <3>2. CanAdd(c)
      BY <3>1 DEF Independent
    <3>3. Held(c)' \subseteq Counted(c) \cup {m}
      BY <2>1
    <3>4. Cardinality(Held(c)') <= Cardinality(Counted(c)) + 1
          /\ Cardinality(Counted(c)) < Limit[c]
      BY <2>2, <3>2, <3>3, OneMoreTurn DEF CanAdd
    <3>5. Held(c)' \subseteq Turns
      BY <1>0, <2>2, <3>3
    <3> QED
      BY <2>2, <3>4, <3>5, TurnsAreFinite, SeriesAssumption DEF Categories
  <2> QED
    BY <2>3, <2>4
<1>2. ASSUME NEW k \in Nat
      PROVE  /\ Cardinality(Asked(k)') <= MaxLogicalTurns
             /\ Cardinality(Repaired(k)') <= MaxBugRepairs
             /\ Cardinality(Called(k)') <= MaxCalls
  <2>1. /\ Asked(k)' \ {m} \subseteq Asked(k) /\ Repaired(k)' \ {m} \subseteq Repaired(k)
        /\ Called(k)' \subseteq Called(k)
    BY DEF Asked, Repaired, Called, Rooted, SameTurn
  <2>2. Asked(k) \subseteq Turns /\ Repaired(k) \subseteq Turns /\ Called(k) \subseteq Turns
    BY DEF Asked, Repaired, Called, Rooted, Present
  <2>3. /\ Cardinality(Asked(k)) <= MaxLogicalTurns
        /\ Cardinality(Repaired(k)) <= MaxBugRepairs
        /\ Cardinality(Called(k)) <= MaxCalls
    BY DEF PlacesInv
  <2>4. /\ Asked(k)' \subseteq Turns /\ Repaired(k)' \subseteq Turns /\ Called(k)' \subseteq Turns
    BY <1>0, <2>1, <2>2
  <2>5. Cardinality(Called(k)') <= MaxCalls
    <3>1. Cardinality(Called(k)') <= Cardinality(Called(k))
      BY <2>1, <2>2, FewerTurns
    <3> QED
      BY <2>2, <2>3, <2>4, <3>1, TurnsAreFinite, SeriesAssumption
  <2>6. CASE m \notin Asked(k)'
    <3>1. m \notin Repaired(k)'
      BY <2>6 DEF Repaired
    <3>2. Cardinality(Asked(k)') <= Cardinality(Asked(k))
          /\ Cardinality(Repaired(k)') <= Cardinality(Repaired(k))
      BY <2>1, <2>2, <2>6, <3>1, FewerTurns
    <3> QED
      BY <2>2, <2>3, <2>4, <2>5, <3>2, TurnsAreFinite DEF MaxLogicalTurns, MaxBugRepairs
  <2>7. CASE m \in Asked(k)'
    <3>1. turns'[m].root = k /\ turns'[m].continues = 0
      BY <2>7 DEF Asked, Rooted
    <3>2. CASE Independent(turns'[m]) /\ turns'[m].root = m
      <4>1. Asked(k) = {}
        <5> SUFFICES ASSUME NEW t \in Asked(k) PROVE FALSE
          OBVIOUS
        <5>1. t \in Present /\ turns[t].root = m
          BY <3>1, <3>2 DEF Asked, Rooted
        <5>2. turns[t].root \in 1 .. t /\ t <= n
          BY <5>1 DEF TurnsInv
        <5>3. t \in Nat
          BY <5>1, SeriesAssumption DEF Present, Turns
        <5> QED
          BY <1>0, <5>1, <5>2, <5>3
      <4>2. Asked(k)' \subseteq {m} /\ Repaired(k)' \subseteq {m}
        BY <2>1, <4>1 DEF Repaired
      <4>3. Cardinality(Asked(k)') \in {0, 1} /\ Cardinality(Repaired(k)') \in {0, 1}
        BY <4>2, SingleTurn
      <4> QED
        BY <2>5, <4>3 DEF MaxLogicalTurns, MaxBugRepairs
    <3>3. CASE /\ turns'[m].root = turns[n].root
               /\ Cardinality(Questions(n)) < MaxLogicalTurns
               /\ Cardinality(RepairsIn(n)) < MaxBugRepairs
      <4>1. Questions(n) = Asked(k) /\ RepairsIn(n) = Repaired(k)
        BY <3>1, <3>3 DEF Questions, RepairsIn, Session, Asked, Repaired, Rooted
      <4>2. Asked(k)' \subseteq Asked(k) \cup {m} /\ Repaired(k)' \subseteq Repaired(k) \cup {m}
        BY <2>1
      <4>3. Cardinality(Asked(k)') <= Cardinality(Asked(k)) + 1
            /\ Cardinality(Repaired(k)') <= Cardinality(Repaired(k)) + 1
        BY <2>2, <4>2, OneMoreTurn
      <4> QED
        BY <2>2, <2>4, <2>5, <3>3, <4>1, <4>3, TurnsAreFinite
        DEF MaxLogicalTurns, MaxBugRepairs
    <3> QED
      BY <3>1, <3>2, <3>3
  <2> QED
    BY <2>6, <2>7
<1> QED
  BY <1>1, <1>2 DEF PlacesInv

LEMMA LastTurn ==
  ASSUME TurnsInv
  PROVE  /\ Last \in Present /\ \A u \in Present : u <= Last
         /\ \A t \in Present : (\A u \in Present : u <= t) => t = Last
<1>1. PICK n \in Present : \A u \in Present : u <= n
  BY DEF TurnsInv
<1>2. Last \in Present /\ \A u \in Present : u <= Last
  BY <1>1 DEF Last
<1>3. Present \subseteq Nat
  BY SeriesAssumption DEF Present, Turns
<1> QED
  BY <1>2, <1>3

\* A turn changes, but not what it is.
LEMMA TurnStays ==
  ASSUME TurnsInv, NEW t \in Present, NEW r, turns' = [turns EXCEPT ![t] = r],
         IsRow(r), Plans(r), SameTurn(r, turns[t]),
         r.status # "absent", r.status \in Active => \A u \in Present : u <= t
  PROVE  /\ TurnsInv' /\ Present' = Present
         /\ t \in Turns /\ turns'[t] = r /\ \A u \in Turns \ {t} : turns'[u] = turns[u]
<1>1. t \in Turns
  BY DEF Present
<1>2. turns'[t] = r /\ \A u \in Turns \ {t} : turns'[u] = turns[u]
  BY <1>1 DEF TurnsInv
<1>3. Present' = Present
  BY <1>2 DEF Present
<1>4. TurnsInv'
  <2>1. turns' = [u \in Turns |-> turns'[u]]
    BY DEF TurnsInv
  <2>2. \A u \in Turns : IsRow(turns'[u]) /\ Plans(turns'[u])
    BY <1>2 DEF TurnsInv
  <2>3. \E n \in Present : \A u \in Present : u <= n
    BY DEF TurnsInv
  <2>4. \A v \in Present, u \in Turns : u < v => u \in Present /\ turns'[u].status \notin Active
    <3> SUFFICES ASSUME NEW v \in Present, NEW u \in Turns, u < v
                 PROVE  u \in Present /\ turns'[u].status \notin Active
      OBVIOUS
    <3>1. u \in Present /\ turns[u].status \notin Active
      BY DEF TurnsInv
    <3>2. u = t => r.status \notin Active
      BY SeriesAssumption DEF Present, Turns
    <3> QED
      BY <1>2, <3>1, <3>2
  <2>5. \A u \in Present : turns'[u].root \in 1 .. u
    BY <1>2 DEF TurnsInv, SameTurn, Present
  <2> QED
    BY <1>3, <2>1, <2>2, <2>3, <2>4, <2>5 DEF TurnsInv, Active
<1> QED
  BY <1>1, <1>2, <1>3, <1>4

\* ... nor is it sent by it.
LEMMA TurnChanges ==
  ASSUME TurnsInv, PlacesInv, NEW t \in Present, NEW r, turns' = [turns EXCEPT ![t] = r],
         IsRow(r), Plans(r), SameTurn(r, turns[t]), r.sent => turns[t].sent,
         r.status # "absent", r.status \in Active => \A u \in Present : u <= t
  PROVE  TurnsInv' /\ PlacesInv'
<1>1. /\ TurnsInv' /\ Present' = Present
      /\ t \in Turns /\ turns'[t] = r /\ \A u \in Turns \ {t} : turns'[u] = turns[u]
  BY TurnStays
<1>2. \A u \in Present : SameTurn(turns'[u], turns[u]) /\ (turns'[u].sent => turns[u].sent)
  BY <1>1 DEF SameTurn, Present
<1> QED
  BY <1>1, <1>2, PlacesStay

\* The last turn is over, and another one follows it.
LEMMA TurnFollows ==
  ASSUME TurnsInv, PlacesInv, NEW n \in Present, n < MaxTurns,
         \A u \in Present : u <= n, NEW r, NEW q,
         turns' = [turns EXCEPT ![n] = r, ![n + 1] = q],
         IsRow(r), Plans(r), SameTurn(r, turns[n]), r.sent => turns[n].sent,
         r.status # "absent", r.status \notin Active,
         IsRow(q), Plans(q), q.status = "queued", ~q.sent,
         \/ Independent(q) /\ q.root = n + 1 /\ CanAdd(q.category)
         \/ /\ q.root = turns[n].root /\ q.continues = 0 /\ q.repairOf # 0
            /\ Cardinality(Questions(n)) < MaxLogicalTurns
            /\ Cardinality(RepairsIn(n)) < MaxBugRepairs
         \/ q.root = turns[n].root /\ q.continues # 0
  PROVE  TurnsInv' /\ PlacesInv'
<1> DEFINE m == n + 1
<1>0. n \in Turns /\ m \in Turns /\ n \in Nat /\ m \notin Present
  BY SeriesAssumption DEF Present, Turns
<1>1. turns'[n] = r /\ turns'[m] = q /\ \A u \in Turns \ {n, m} : turns'[u] = turns[u]
  BY <1>0 DEF TurnsInv
<1>2. Present' = Present \cup {m}
  <2>1. \A u \in Turns : turns'[u].status # "absent" <=> (u \in Present \/ u = m)
    BY <1>0, <1>1 DEF Present
  <2> QED
    BY <1>0, <2>1 DEF Present
<1>3. TurnsInv'
  <2>1. turns' = [u \in Turns |-> turns'[u]]
    BY DEF TurnsInv
  <2>2. \A u \in Turns : IsRow(turns'[u]) /\ Plans(turns'[u])
    BY <1>1 DEF TurnsInv
  <2>3. \E v \in Present' : \A u \in Present' : u <= v
    <3>1. \A u \in Present \cup {m} : u <= m
      BY <1>0, SeriesAssumption DEF Present, Turns
    <3> QED
      BY <1>2, <3>1
  <2>4. \A v \in Present \cup {m}, u \in Turns :
          u < v => u \in Present \cup {m} /\ turns'[u].status \notin Active
    <3> SUFFICES ASSUME NEW v \in Present \cup {m}, NEW u \in Turns, u < v
                 PROVE  u \in Present /\ turns'[u].status \notin Active
      OBVIOUS
    <3>1. u \in Nat /\ v \in Nat /\ v <= m /\ u # m
      BY <1>0, SeriesAssumption DEF Present, Turns
    <3>2. CASE u = n
      BY <1>1, <3>2
    <3>3. CASE u # n
      <4>1. u < n
        BY <1>0, <3>1, <3>3
      <4>2. u \in Present /\ turns[u].status \notin Active
        BY <4>1 DEF TurnsInv
      <4> QED
        BY <1>1, <3>1, <3>3, <4>2
    <3> QED
      BY <3>2, <3>3
  <2>5. \A u \in Present \cup {m} : turns'[u].root \in 1 .. u
    <3>1. \A u \in Present : turns[u].root \in 1 .. u
      BY DEF TurnsInv
    <3>2. \A u \in Present : turns'[u].root = turns[u].root
      BY <1>0, <1>1 DEF SameTurn, Present
    <3>3. q.root \in 1 .. m
      BY <1>0, <3>1
    <3> QED
      BY <1>1, <3>1, <3>2, <3>3
  <2> QED
    BY <1>2, <2>1, <2>2, <2>3, <2>4, <2>5 DEF TurnsInv, Active
<1>4. \A u \in Present : SameTurn(turns'[u], turns[u]) /\ (turns'[u].sent => turns[u].sent)
  BY <1>0, <1>1 DEF SameTurn, Present
<1> QED
  BY <1>1, <1>2, <1>3, <1>4, PlacesAdded

\* The job goes on with what it knows of its turn.
LEMMA JobGoesOn ==
  ASSUME SInv, UNCHANGED turns, IsJob(job'), job'.turn = job.turn,
         job.turn = 0 => job'.kind = job.kind,
         job.turn # 0 =>
           /\ IsRow(job'.row) /\ SameTurn(job'.row, job.row)
           /\ job'.row.sent = job.row.sent /\ job'.row.back = job.row.back
           /\ (job'.kind = "replan") <=> (job.kind = "replan")
           /\ job'.kind = "replan" /\ job'.ok =>
                \/ job.ok /\ job'.category = job.category
                \/ /\ job'.category \in Categories /\ CanAdd(job'.category)
                   /\ job.turn < MaxTurns
  PROVE  SInv'
<1>1. TurnsInv' /\ PlacesInv'
  BY DEF SInv, TurnsInv, PlacesInv, Present, Held, Asked, Repaired, Called, Rooted
<1>2. \A c \in Categories : CanAdd(c)' <=> CanAdd(c)
  BY DEF CanAdd, Counted, Present
<1>3. JobInv'
  BY <1>2 DEF SInv, JobInv, SameTurn, Present
<1> QED
  BY <1>1, <1>3 DEF SInv

LEMMA NoJobHolds == job' = NoJob => JobInv'
BY DEF NoJob, JobInv, IsJob

\* The row of a job's turn with other contents.
Carries(r) == /\ IsRow(r) /\ SameTurn(r, job.row)
              /\ r.sent = job.row.sent /\ r.back = job.row.back

LEMMA RowsCarry ==
  ASSUME IsRow(job.row), NEW x, NEW y, NEW z
  PROVE  /\ Carries(job.row)
         /\ Carries([job.row EXCEPT !.outcome = x, !.gateway = y, !.permitted = z])
         /\ Carries([job.row EXCEPT !.bugs = x, !.archive = y])
         /\ Carries([job.row EXCEPT !.bugs = x, !.disputed = y])
         /\ Carries([job.row EXCEPT !.continuation = x])
         /\ Carries([job.row EXCEPT !.continuation.state = x])
         /\ Carries([job.row EXCEPT !.recovery.code = x])
         /\ Carries([job.row EXCEPT !.recovery.waits = x])
         /\ x \in Stages => Carries([job.row EXCEPT !.stage = x])
<1>1. Carries(job.row)
  BY DEF Carries, SameTurn
<1>2. Carries([job.row EXCEPT !.outcome = x, !.gateway = y, !.permitted = z])
  BY DEF Carries, SameTurn, IsRow
<1>3. Carries([job.row EXCEPT !.bugs = x, !.archive = y])
  BY DEF Carries, SameTurn, IsRow
<1>4. Carries([job.row EXCEPT !.bugs = x, !.disputed = y])
  BY DEF Carries, SameTurn, IsRow
<1>5. Carries([job.row EXCEPT !.continuation = x])
  BY DEF Carries, SameTurn, IsRow
<1>6. Carries([job.row EXCEPT !.continuation.state = x])
  BY DEF Carries, SameTurn, IsRow
<1>7. Carries([job.row EXCEPT !.recovery.code = x])
  BY DEF Carries, SameTurn, IsRow
<1>8. Carries([job.row EXCEPT !.recovery.waits = x])
  BY DEF Carries, SameTurn, IsRow
<1>9. x \in Stages => Carries([job.row EXCEPT !.stage = x])
  BY DEF Carries, SameTurn, IsRow
<1> QED
  BY <1>1, <1>2, <1>3, <1>4, <1>5, <1>6, <1>7, <1>8, <1>9

\* A job that fails, or goes on, with another row.
LEMMA JobFails ==
  ASSUME SInv, UNCHANGED turns, NEW r, NEW p, NEW k, NEW x,
         job' = [job EXCEPT !.phase = p, !.ok = FALSE, !.kind = k, !.next = x, !.row = r],
         k = job.kind, job.turn # 0 => Carries(r)
  PROVE  SInv'
<1>1. /\ IsJob(job') /\ job'.turn = job.turn /\ job'.row = r /\ job'.kind = k
      /\ job'.ok = FALSE
  BY DEF SInv, JobInv, IsJob
<1> QED
  BY <1>1, JobGoesOn DEF Carries

LEMMA JobAdvances ==
  ASSUME SInv, UNCHANGED turns, NEW r, NEW p, NEW k, NEW x, NEW o \in BOOLEAN,
         job' = [job EXCEPT !.phase = p, !.ok = o, !.kind = k, !.next = x, !.row = r],
         k # "replan", job.kind # "replan", job.turn # 0, Carries(r)
  PROVE  SInv'
<1>1. /\ IsJob(job') /\ job'.turn = job.turn /\ job'.row = r /\ job'.kind = k
  BY DEF SInv, JobInv, IsJob
<1> QED
  BY <1>1, JobGoesOn DEF Carries

Containers ==
  \/ CloseForNext \/ EnsureContainer \/ ImportSource \/ FinishImport
  \/ CloseFailed \/ StartClosing \/ EndClosing \/ SwitchAuto

LEMMA JobSame ==
  ASSUME SInv
  PROVE  /\ IsJob(job)
         /\ job.turn # 0 => /\ IsRow(job.row) /\ SameTurn(job.row, turns[job.turn])
                            /\ SameTurn(job.row, job.row)
BY DEF SInv, JobInv, SameTurn

LEMMA ContainersKeep ==
  ASSUME SInv, Containers
  PROVE  SInv'
<1>1. UNCHANGED turns
  BY DEF Containers, CloseForNext, EnsureContainer, ImportSource, FinishImport, CloseFailed,
         StartClosing, EndClosing, SwitchAuto, store
<1>2. \/ job' = job
      \/ \E p : job' = To(p)
      \/ job' = Failed
      \/ job' = BlockedOnInputs
  BY DEF Containers, CloseForNext, EnsureContainer, ImportSource, FinishImport, CloseFailed,
         StartClosing, EndClosing, SwitchAuto
<1>3. CASE job' = job
  BY <1>1, <1>3, JobSame, JobGoesOn
<1>4. ASSUME NEW p, job' = To(p) PROVE SInv'
  <2>1. /\ IsJob(job') /\ job'.turn = job.turn /\ job'.row = job.row /\ job'.kind = job.kind
        /\ job'.ok = job.ok /\ job'.category = job.category
    BY <1>4, JobSame DEF To, IsJob
  <2> QED
    BY <1>1, <2>1, JobSame, JobGoesOn
<1>5. CASE job' = Failed
  <2>1. /\ IsJob(job') /\ job'.turn = job.turn /\ job'.row = job.row /\ job'.kind = job.kind
        /\ job'.ok = FALSE
    BY <1>5, JobSame DEF Failed, IsJob
  <2> QED
    BY <1>1, <2>1, JobSame, JobGoesOn
<1>6. CASE job' = BlockedOnInputs
  <2> DEFINE r == [job.row EXCEPT !.recovery.waits = job.inputs]
  <2>1. job' = [job EXCEPT !.phase = "done", !.ok = FALSE, !.kind = job.kind,
                           !.next = job.next, !.row = r]
    BY <1>6, JobSame DEF BlockedOnInputs, Failed, IsJob
  <2>2. job.turn # 0 => Carries(r)
    BY JobSame, RowsCarry
  <2> QED
    BY <1>1, <2>1, <2>2, JobFails
<1> QED
  BY <1>2, <1>3, <1>4, <1>5, <1>6

\* The steps of a call, of its evaluation and of a dispute.
LEMMA CallStepsKeep ==
  ASSUME SInv,
         \/ \E cause \in Stages : DraftRefused(cause)
         \/ \E outcome \in {"complete", "error", "gateway"}, permitted \in BOOLEAN :
              CallEnds(outcome, permitted)
         \/ \E bugs \in BOOLEAN, next \in Answers : Evaluate(bugs, next)
         \/ \E bugs \in BOOLEAN : EvaluateDisputed(bugs)
         \/ \E next \in Answers : PlanAgain(next) \/ PlanDisputed(next)
         \/ RetainDisputed
  PROVE  SInv'
<1>1. UNCHANGED turns
  BY DEF DraftRefused, CallEnds, Evaluate, EvaluateDisputed, PlanAgain, PlanDisputed,
         RetainDisputed, store
<1>2. IsJob(job) /\ job.kind # "replan" /\ job.kind # "none"
  BY JobSame DEF DraftRefused, CallEnds, Evaluate, EvaluateDisputed, PlanAgain, PlanDisputed,
         RetainDisputed, Runs
<1>3. job.turn # 0 /\ IsRow(job.row)
  BY <1>2, JobSame DEF SInv, JobInv
<1> DEFINE Step(p, o, k, x, r) ==
      job' = [job EXCEPT !.phase = p, !.ok = o, !.kind = k, !.next = x, !.row = r]
<1>4. ASSUME NEW r, NEW p, NEW k, NEW x, NEW o \in BOOLEAN, Step(p, o, k, x, r),
             k # "replan", Carries(r)
      PROVE  SInv'
  BY <1>1, <1>2, <1>3, <1>4, JobAdvances
<1>5. /\ Carries(job.row)
      /\ \A x, y, z :
           /\ Carries([job.row EXCEPT !.outcome = x, !.gateway = y, !.permitted = z])
           /\ Carries([job.row EXCEPT !.bugs = x, !.archive = y])
           /\ Carries([job.row EXCEPT !.bugs = x, !.disputed = y])
           /\ Carries([job.row EXCEPT !.continuation = x])
           /\ Carries([job.row EXCEPT !.continuation.state = x])
           /\ x \in Stages => Carries([job.row EXCEPT !.stage = x])
  BY <1>3, RowsCarry
<1>6. ASSUME NEW cause \in Stages, DraftRefused(cause) PROVE SInv'
  <2> DEFINE r == [job.row EXCEPT !.stage = cause]
  <2>1. Step("done", FALSE, job.kind, job.next, r)
    BY <1>2, <1>6 DEF DraftRefused, Failed, IsJob
  <2>2. Carries(r)
    BY <1>5
  <2> HIDE DEF r, Step
  <2> QED
    BY <1>2, <1>4, <2>1, <2>2
<1>7. ASSUME NEW outcome \in {"complete", "error", "gateway"}, NEW permitted \in BOOLEAN,
             CallEnds(outcome, permitted)
      PROVE  SInv'
  <2> DEFINE completed == outcome = "complete" /\ permitted
             r == [job.row EXCEPT !.outcome = IF completed THEN "complete" ELSE "error",
                                  !.gateway = outcome = "gateway" /\ permitted,
                                  !.permitted = permitted]
  <2>1. \/ Step("answered", job.ok, job.kind, job.next, r)
        \/ Step("done", FALSE, job.kind, "none", r)
    BY <1>2, <1>7 DEF CallEnds, Done, IsJob
  <2>2. Carries(r)
    BY <1>5
  <2>3. job.ok \in BOOLEAN
    BY <1>2 DEF IsJob
  <2> HIDE DEF r, Step
  <2> QED
    BY <1>2, <1>4, <2>1, <2>2, <2>3
<1>8. ASSUME NEW bugs \in BOOLEAN, NEW next \in Answers, Evaluate(bugs, next) PROVE SInv'
  <2> DEFINE r == [job.row EXCEPT !.bugs = bugs, !.archive = container.code]
  <2>1. Step("done", TRUE, job.kind, next, r)
    BY <1>2, <1>8 DEF Evaluate, Done, IsJob
  <2>2. Carries(r)
    BY <1>5
  <2> HIDE DEF r, Step
  <2> QED
    BY <1>2, <1>4, <2>1, <2>2
<1>9. ASSUME NEW bugs \in BOOLEAN, EvaluateDisputed(bugs) PROVE SInv'
  <2> DEFINE r == [job.row EXCEPT !.bugs = bugs, !.disputed = TRUE]
  <2>1. Step("begun", job.ok, "dispute", job.next, r)
    BY <1>2, <1>9 DEF EvaluateDisputed, IsJob
  <2>2. Carries(r)
    BY <1>5
  <2>3. job.ok \in BOOLEAN
    BY <1>2 DEF IsJob
  <2> HIDE DEF r, Step
  <2> QED
    BY <1>2, <1>4, <2>1, <2>2, <2>3
<1>10. ASSUME NEW next \in Answers, PlanAgain(next) PROVE SInv'
  <2>1. Step("done", TRUE, job.kind, next, job.row)
    BY <1>2, <1>10 DEF PlanAgain, Done, IsJob
  <2> QED
    BY <1>2, <1>4, <1>5, <2>1
<1>11. ASSUME NEW next \in Answers, PlanDisputed(next) PROVE SInv'
  <2> DEFINE b == [job.row EXCEPT !.continuation.state = "blocked"]
             p == [job.row EXCEPT !.continuation.state = "planned"]
  <2>1. \/ Step("done", FALSE, job.kind, "error", b)
        \/ Step("done", FALSE, job.kind, next, p)
    BY <1>2, <1>11 DEF PlanDisputed, Done, Failed, IsJob
  <2>2. Carries(b) /\ Carries(p)
    BY <1>5
  <2> HIDE DEF b, p, Step
  <2> QED
    BY <1>2, <1>4, <2>1, <2>2
<1>12. CASE RetainDisputed
  <2> DEFINE k == [state |-> "ready", code |-> container.code]
             b == [job.row EXCEPT !.continuation.state = "blocked"]
             r == [job.row EXCEPT !.continuation = k]
  <2>1. \/ Step("retained", job.ok, job.kind, job.next, r)
        \/ Step("done", FALSE, job.kind, "error", b)
    BY <1>2, <1>12 DEF RetainDisputed, Failed, IsJob
  <2>2. job.ok \in BOOLEAN
    BY <1>2 DEF IsJob
  <2>3. Carries(b) /\ Carries(r)
    <3> HIDE DEF k
    <3> QED
      BY <1>5
  <2> HIDE DEF b, r, Step
  <2> QED
    BY <1>2, <1>4, <2>1, <2>2, <2>3
<1> QED
  BY <1>6, <1>7, <1>8, <1>9, <1>10, <1>11, <1>12

\* What a plan after a failure starts from, and the successor it settles on.
LEMMA PlanStepsKeep ==
  ASSUME SInv,
         \/ RetainSource
         \/ \E c \in Categories, accepted \in BOOLEAN : PlanSuccessor(c, accepted)
  PROVE  SInv'
<1>1. UNCHANGED turns
  BY DEF RetainSource, PlanSuccessor, store
<1>2. IsJob(job) /\ (job.turn # 0 => IsRow(job.row))
  BY JobSame
<1>3. CASE job' = BlockedOnInputs \/ \E w : job' = [Failed EXCEPT !.row.recovery.waits = w]
  <2>1. PICK w : job' = [Failed EXCEPT !.row.recovery.waits = w]
    BY <1>3 DEF BlockedOnInputs
  <2> DEFINE r == [job.row EXCEPT !.recovery.waits = w]
  <2>2. job' = [job EXCEPT !.phase = "done", !.ok = FALSE, !.kind = job.kind,
                           !.next = job.next, !.row = r]
    BY <1>2, <2>1 DEF Failed, IsJob
  <2>3. job.turn # 0 => Carries(r)
    BY <1>2, RowsCarry
  <2> QED
    BY <1>1, <2>2, <2>3, JobFails
<1>4. CASE \E code : job' = [job EXCEPT !.phase = "kept", !.row.recovery.code = code]
  <2>1. PICK code : job' = [job EXCEPT !.phase = "kept", !.row.recovery.code = code]
    BY <1>4
  <2> DEFINE r == [job.row EXCEPT !.recovery.code = code]
  <2>2. /\ IsJob(job') /\ job'.turn = job.turn /\ job'.row = r /\ job'.kind = job.kind
        /\ job'.ok = job.ok /\ job'.category = job.category
    <3>1. job' = [job EXCEPT !.phase = "kept", !.row = r]
      BY <2>1
    <3> HIDE DEF r
    <3> QED
      BY <1>2, <3>1 DEF IsJob
  <2>3. job.turn # 0 => Carries(r)
    BY <1>2, RowsCarry
  <2> HIDE DEF r
  <2> QED
    BY <1>1, <2>2, <2>3, JobGoesOn DEF Carries
<1>5. ASSUME NEW c \in Categories, CanAdd(c), Last < MaxTurns,
             job' = [Done(job.row, TRUE, "planned") EXCEPT !.category = c]
      PROVE  SInv'
  <2>1. /\ IsJob(job') /\ job'.turn = job.turn /\ job'.row = job.row /\ job'.kind = job.kind
        /\ job'.category = c
    BY <1>2, <1>5 DEF Done, IsJob
  <2>2. job.turn # 0 => job.turn < MaxTurns
    BY <1>5, LastTurn DEF SInv, JobInv
  <2>3. job.turn # 0 => Carries(job.row)
    BY <1>2, RowsCarry
  <2> QED
    BY <1>1, <1>5, <2>1, <2>2, <2>3, JobGoesOn DEF Carries
<1>6. RetainSource => \/ job' = BlockedOnInputs
                      \/ \E code : job' = [job EXCEPT !.phase = "kept",
                                                      !.row.recovery.code = code]
  BY DEF RetainSource
<1>7. ASSUME NEW c \in Categories, NEW accepted \in BOOLEAN, PlanSuccessor(c, accepted)
      PROVE  SInv'
  <2>1. \/ /\ CanAdd(c) /\ Last < MaxTurns
           /\ job' = [Done(job.row, TRUE, "planned") EXCEPT !.category = c]
        \/ job' = [Failed EXCEPT !.row.recovery.waits = <<>>]
        \/ job' = BlockedOnInputs
    BY <1>7 DEF PlanSuccessor
  <2> QED
    BY <1>3, <1>5, <2>1
<1> QED
  BY <1>3, <1>4, <1>6, <1>7

------------------------------------------------------------------------------
\* The person, while no job runs.

LEMMA NothingRuns ==
  ASSUME SInv, ~Pending
  PROVE  job.turn = 0 /\ \A t \in Present : turns[t].status \notin Active
BY DEF SInv, JobInv, Pending, Active

LEMMA IdleJob == ASSUME JobInv, job.turn = 0, job' = job PROVE JobInv'
BY DEF JobInv, IsJob

LEMMA EnqueuesKeep ==
  ASSUME SInv, (\E c \in Categories : EnqueueQuestion(c)) \/ EnqueueRepair
  PROVE  SInv'
<1> DEFINE n == Last
<1>1. ~Pending /\ n < MaxTurns /\ job' = job
  BY DEF EnqueueQuestion, EnqueueRepair
<1>2. n \in Present /\ (\A u \in Present : u <= n) /\ TurnsInv /\ PlacesInv /\ JobInv
  BY LastTurn DEF SInv
<1>3. job.turn = 0 /\ turns[n].status \notin Active
  BY <1>1, <1>2, NothingRuns
<1>4. /\ n \in Turns /\ n \in Nat /\ n # 0 /\ n + 1 \in Nat /\ turns[n].status # "absent"
      /\ IsRow(turns[n]) /\ Plans(turns[n]) /\ turns[n].root \in Nat
  BY <1>2, SeriesAssumption DEF Present, Turns, TurnsInv, IsRow
<1>5. JobInv'
  BY <1>1, <1>2, <1>3, IdleJob
<1>6. SameTurn(turns[n], turns[n])
  BY DEF SameTurn
<1>7. \A q : turns' = [turns EXCEPT ![n + 1] = q]
               => turns' = [turns EXCEPT ![n] = turns[n], ![n + 1] = q]
  BY <1>2, <1>4 DEF TurnsInv
<1>8. ASSUME NEW c \in Categories, EnqueueQuestion(c) PROVE TurnsInv' /\ PlacesInv'
  <2> DEFINE q == NewQuestion(n + 1, c, 0)
  <2>1. turns' = [turns EXCEPT ![n + 1] = q] /\ CanAdd(c)
    BY <1>8 DEF EnqueueQuestion
  <2>2. /\ IsRow(q) /\ Plans(q) /\ q.status = "queued" /\ ~q.sent /\ Independent(q)
        /\ q.category = c /\ q.root = n + 1
    BY <1>4, NewQuestionRow
  <2>3. turns' = [turns EXCEPT ![n] = turns[n], ![n + 1] = q] /\ CanAdd(q.category)
    BY <1>7, <2>1, <2>2
  <2> HIDE DEF q, n
  <2> QED
    BY <1>1, <1>2, <1>3, <1>4, <1>6, <2>2, <2>3, TurnFollows
<1>9. ASSUME EnqueueRepair PROVE TurnsInv' /\ PlacesInv'
  <2> DEFINE q == NewRepair(n, First)
  <2>1. /\ turns' = [turns EXCEPT ![n + 1] = q]
        /\ Cardinality(Questions(n)) < MaxLogicalTurns
        /\ Cardinality(RepairsIn(n)) < MaxBugRepairs
    BY <1>9 DEF EnqueueRepair, CanRepair
  <2>2. /\ IsRow(q) /\ Plans(q) /\ q.status = "queued" /\ ~q.sent
        /\ q.root = turns[n].root /\ q.continues = 0 /\ q.repairOf # 0
    BY <1>4, NewRepairRow, SeriesAssumption
  <2>3. turns' = [turns EXCEPT ![n] = turns[n], ![n + 1] = q]
    BY <1>7, <2>1
  <2> HIDE DEF q, n
  <2> QED
    BY <1>1, <1>2, <1>3, <1>4, <1>6, <2>1, <2>2, <2>3, TurnFollows
<1> QED
  BY <1>5, <1>8, <1>9 DEF SInv

\* A retried turn's row.
Requeued(q, w, l, b) ==
  [q EXCEPT !.status = "queued", !.work = w, !.stage = l, !.back = b]
PlannedAgain(q) == [q EXCEPT !.status = "queued", !.work = "plan"]

Queues(x, q, w, b) == /\ IsRow(x) /\ SameTurn(x, q) /\ x.sent = q.sent
                      /\ x.status = "queued" /\ x.work = w /\ x.back = b

LEMMA RowsQueued ==
  ASSUME NEW q, IsRow(q)
  PROVE  /\ Queues(PlannedAgain(q), q, "plan", q.back)
         /\ \A w \in {"run", "plan", "dispute", "replan"}, l \in Stages,
              b \in {"none", "review", "failed"} : Queues(Requeued(q, w, l, b), q, w, b)
<1>1. Queues(PlannedAgain(q), q, "plan", q.back)
  BY DEF PlannedAgain, Queues, IsRow, SameTurn, Statuses
<1>2. ASSUME NEW w \in {"run", "plan", "dispute", "replan"}, NEW l \in Stages,
             NEW b \in {"none", "review", "failed"}
      PROVE  Queues(Requeued(q, w, l, b), q, w, b)
  BY DEF Requeued, Queues, IsRow, SameTurn, Statuses
<1> QED
  BY <1>1, <1>2

LEMMA RetriesKeep ==
  ASSUME SInv, Retry \/ RetryPlan
  PROVE  SInv'
<1> DEFINE t == Last
<1>1. ~Pending /\ job' = job
  BY DEF Retry, RetryPlan
<1>2. t \in Present /\ (\A u \in Present : u <= t) /\ TurnsInv /\ PlacesInv /\ JobInv
  BY LastTurn DEF SInv
<1>3. job.turn = 0
  BY <1>1, NothingRuns
<1>4. t \in Turns /\ IsRow(turns[t]) /\ Plans(turns[t])
  BY <1>2 DEF Present, TurnsInv
<1>5. ASSUME NEW x, NEW w, NEW b, Queues(x, turns[t], w, b), turns' = [turns EXCEPT ![t] = x],
             w = "replan" => b \in {"review", "failed"}
      PROVE  SInv'
  <2>1. /\ IsRow(x) /\ SameTurn(x, turns[t]) /\ x.sent = turns[t].sent /\ x.status = "queued"
        /\ Plans(x)
    BY <1>5 DEF Plans, Queues
  <2> HIDE DEF t
  <2>2. TurnsInv' /\ PlacesInv'
    BY <1>2, <1>5, <2>1, TurnChanges
  <2> QED
    BY <1>1, <1>2, <1>3, <2>2, IdleJob DEF SInv
<1>6. CASE Retry
  <2> DEFINE r == turns[t]
             prepares == FrozenPreparation(t) /\ ~ClosedRepairDraft(t, known)
             anew == \/ ClosedRepairDraft(t, known)
                     \/ r.recovery.state = "blocked" /\ ~r.disputed /\ ~prepares
             planning == anew \/ (r.work = "replan" /\ ~prepares)
             w == IF planning THEN "replan" ELSE IF r.disputed THEN "dispute" ELSE "run"
             l == IF anew THEN r.stage ELSE "draft"
             b == IF anew THEN r.status ELSE r.back
  <2>1. turns' = [turns EXCEPT ![t] = Requeued(r, w, l, b)] /\ r.status \in {"failed", "review"}
    BY <1>6 DEF Retry, Requeued
  <2>2. r.stage \in Stages /\ r.back \in {"none", "review", "failed"}
    BY <1>4 DEF IsRow
  <2>3. /\ w \in {"run", "plan", "dispute", "replan"} /\ l \in Stages
        /\ b \in {"none", "review", "failed"} /\ (w = "replan" => b \in {"review", "failed"})
    BY <1>4, <2>1, <2>2 DEF Plans, Stages
  <2> HIDE DEF w, l, b, t
  <2>4. Queues(Requeued(r, w, l, b), r, w, b)
    BY <1>4, <2>3, RowsQueued
  <2> QED
    BY <1>5, <2>1, <2>3, <2>4
<1>7. CASE RetryPlan
  <2>1. turns' = [turns EXCEPT ![t] = PlannedAgain(turns[t])]
    BY <1>7 DEF RetryPlan, PlannedAgain
  <2>2. Queues(PlannedAgain(turns[t]), turns[t], "plan", turns[t].back)
    BY <1>4, RowsQueued
  <2> HIDE DEF t
  <2> QED
    BY <1>5, <2>1, <2>2
<1> QED
  BY <1>6, <1>7

\* A turn may also be excluded beside a job; the room a plan found stays.
LEMMA ExcludeKeeps ==
  ASSUME SInv, NEW t \in Present, Exclude(t)
  PROVE  SInv'
<1> DEFINE r == [turns[t] EXCEPT !.excluded = TRUE]
<1>1. /\ turns' = [turns EXCEPT ![t] = r] /\ job' = job
      /\ turns[t].status \in {"review", "failed"} /\ TurnsInv /\ PlacesInv /\ JobInv
  BY DEF Exclude, SInv
<1>2. t \in Turns /\ IsRow(turns[t]) /\ Plans(turns[t])
  BY <1>1 DEF Present, TurnsInv
<1>3. /\ IsRow(r) /\ SameTurn(r, turns[t]) /\ r.sent = turns[t].sent
      /\ r.status = turns[t].status /\ r.work = turns[t].work /\ r.back = turns[t].back
  <2>1. ASSUME NEW q, IsRow(q)
        PROVE  LET x == [q EXCEPT !.excluded = TRUE] IN
               /\ IsRow(x) /\ SameTurn(x, q) /\ x.sent = q.sent
               /\ x.status = q.status /\ x.work = q.work /\ x.back = q.back
    BY <2>1 DEF IsRow, SameTurn
  <2> QED
    BY <1>2, <2>1
<1> HIDE DEF r
<1>4. Plans(r) /\ r.status \notin Active /\ r.status # "absent"
  BY <1>1, <1>2, <1>3 DEF Plans, Active
<1>5. /\ TurnsInv' /\ Present' = Present
      /\ turns'[t] = r /\ \A u \in Turns \ {t} : turns'[u] = turns[u]
  BY <1>1, <1>3, <1>4, TurnStays
<1>6. PlacesInv'
  BY <1>1, <1>3, <1>4, TurnChanges
<1>7. \A c \in Categories : CanAdd(c) => CanAdd(c)'
  <2> SUFFICES ASSUME NEW c \in Categories PROVE Counted(c)' = Counted(c)
    BY DEF CanAdd
  <2> QED
    BY <1>2, <1>3, <1>5 DEF Counted, Independent, SameTurn, Present
<1>8. JobInv'
  <2>1. job.turn # 0 => turns'[job.turn] = turns[job.turn]
    BY <1>1, <1>5 DEF JobInv, Present
  <2>2. IsJob(job') /\ job' = job
    BY <1>1 DEF JobInv, IsJob
  <2> QED
    BY <1>1, <1>5, <1>7, <2>1, <2>2 DEF JobInv
<1> QED
  BY <1>5, <1>6, <1>8 DEF SInv

------------------------------------------------------------------------------
\* The job takes a turn, sends it, and hands its result in.

LEMMA ClaimKeeps ==
  ASSUME SInv, NEW t \in Present, Claim(t)
  PROVE  SInv'
<1>1. /\ TurnsInv /\ PlacesInv /\ t \in Turns /\ t # 0
      /\ IsRow(turns[t]) /\ Plans(turns[t])
  BY SeriesAssumption DEF SInv, TurnsInv, Present, Turns
<1> DEFINE queued == [turns[t] EXCEPT !.status = "running"]
           again == [turns[t] EXCEPT !.status = "running", !.work = "dispute", !.tries = @ + 1]
           replan == [turns[t] EXCEPT !.status = "running", !.work = "replan",
                                      !.back = turns[t].status]
           Claims(c) ==
             /\ turns' = [turns EXCEPT ![t] = c]
             /\ job' = [NoJob EXCEPT !.turn = t, !.kind = c.work, !.phase = "begun",
                                     !.row = c, !.inputs = Conditions]
<1>2. \/ turns[t].status = "queued" /\ Claims(queued)
      \/ RetriesItself(t) /\ Claims(again)
      \/ Due(t) /\ Claims(replan)
  <2>1. CASE turns[t].status = "queued"
    BY <2>1 DEF Claim, RetriesItself
  <2>2. CASE turns[t].status # "queued" /\ RetriesItself(t)
    BY <2>2 DEF Claim
  <2>3. CASE turns[t].status # "queued" /\ ~RetriesItself(t)
    BY <2>3 DEF Claim
  <2> QED
    BY <2>1, <2>2, <2>3
<1>3. \A u \in Present : u <= t
  <2>1. CASE turns[t].status = "queued"
    <3> SUFFICES ASSUME NEW u \in Present, t < u PROVE FALSE
      BY SeriesAssumption DEF Present, Turns
    <3> QED
      BY <1>1, <2>1 DEF TurnsInv, Active
  <2>2. CASE t = Last
    BY <1>1, <2>2, LastTurn
  <2> HIDE DEF Claims
  <2> QED
    BY <1>2, <2>1, <2>2 DEF RetriesItself, Due
<1>4. ASSUME NEW c, IsRow(c), SameTurn(c, turns[t]), c.sent = turns[t].sent,
             c.status = "running", Plans(c), Claims(c)
      PROVE  SInv'
  <2>1. /\ TurnsInv' /\ Present' = Present /\ turns'[t] = c
    BY <1>1, <1>3, <1>4, TurnStays DEF Active
  <2>2. PlacesInv'
    BY <1>1, <1>3, <1>4, TurnChanges DEF Active
  <2>3. /\ IsJob(job') /\ job'.turn = t /\ job'.kind = c.work /\ job'.row = c /\ ~job'.ok
    BY <1>1, <1>4 DEF IsJob, NoJob
  <2>4. SameTurn(c, c)
    BY DEF SameTurn
  <2>5. JobInv'
    BY <1>1, <1>3, <1>4, <2>1, <2>3, <2>4 DEF JobInv
  <2> QED
    BY <2>1, <2>2, <2>5 DEF SInv
<1>5. CASE turns[t].status = "queued" /\ Claims(queued)
  <2>1. /\ IsRow(queued) /\ SameTurn(queued, turns[t]) /\ queued.sent = turns[t].sent
        /\ queued.status = "running" /\ queued.work = turns[t].work
        /\ queued.back = turns[t].back
    <3>1. ASSUME NEW q, IsRow(q)
          PROVE  LET x == [q EXCEPT !.status = "running"] IN
                 /\ IsRow(x) /\ SameTurn(x, q) /\ x.sent = q.sent
                 /\ x.status = "running" /\ x.work = q.work /\ x.back = q.back
      BY <3>1 DEF IsRow, SameTurn, Statuses
    <3> QED
      BY <1>1, <3>1
  <2> HIDE DEF queued, Claims
  <2>2. Plans(queued)
    BY <1>1, <2>1 DEF Plans
  <2> QED
    BY <1>4, <1>5, <2>1, <2>2
<1>6. CASE RetriesItself(t) /\ Claims(again)
  <2>1. /\ IsRow(again) /\ SameTurn(again, turns[t]) /\ again.sent = turns[t].sent
        /\ again.status = "running" /\ again.work = "dispute"
    <3>1. ASSUME NEW q, IsRow(q)
          PROVE  LET x == [q EXCEPT !.status = "running", !.work = "dispute",
                                    !.tries = @ + 1] IN
                 /\ IsRow(x) /\ SameTurn(x, q) /\ x.sent = q.sent
                 /\ x.status = "running" /\ x.work = "dispute"
      BY <3>1 DEF IsRow, SameTurn, Statuses
    <3> QED
      BY <1>1, <3>1
  <2> HIDE DEF again, Claims
  <2>2. Plans(again)
    BY <2>1 DEF Plans
  <2> QED
    BY <1>4, <1>6, <2>1, <2>2
<1>7. CASE Due(t) /\ Claims(replan)
  <2>0. turns[t].status \in {"review", "failed"}
    BY <1>7 DEF Due, UnsentFailure
  <2>1. /\ IsRow(replan) /\ SameTurn(replan, turns[t]) /\ replan.sent = turns[t].sent
        /\ replan.status = "running" /\ replan.back = turns[t].status
    <3>1. ASSUME NEW q, IsRow(q), q.status \in {"review", "failed"}
          PROVE  LET x == [q EXCEPT !.status = "running", !.work = "replan",
                                    !.back = q.status] IN
                 /\ IsRow(x) /\ SameTurn(x, q) /\ x.sent = q.sent
                 /\ x.status = "running" /\ x.back = q.status
      BY <3>1 DEF IsRow, SameTurn, Statuses
    <3> QED
      BY <1>1, <2>0, <3>1
  <2> HIDE DEF replan, Claims
  <2>2. Plans(replan)
    BY <2>0, <2>1 DEF Plans
  <2> QED
    BY <1>4, <1>7, <2>1, <2>2
<1> HIDE DEF Claims
<1> QED
  BY <1>2, <1>5, <1>6, <1>7

LEMMA SendKeeps == ASSUME SInv, Send PROVE SInv'
<1> DEFINE t == job.turn
           r == [turns[t] EXCEPT !.sent = TRUE]
           j == [job.row EXCEPT !.sent = TRUE]
<1>1. /\ TurnsInv /\ PlacesInv /\ JobInv /\ job.kind = "run"
      /\ turns' = [turns EXCEPT ![t].sent = TRUE]
      /\ job' = [job EXCEPT !.phase = "sent", !.row = j]
      /\ Cardinality(Calls(t)) < MaxCalls
  BY DEF SInv, Send, Runs, MaySend
<1>2. /\ t # 0 /\ t \in Present /\ turns[t].status = "running" /\ \A u \in Present : u <= t
      /\ IsJob(job) /\ IsRow(job.row) /\ SameTurn(job.row, turns[t])
      /\ job.row.back = turns[t].back /\ turns[t].work # "replan"
  BY <1>1 DEF JobInv
<1>3. t \in Turns /\ IsRow(turns[t]) /\ Plans(turns[t])
  BY <1>1, <1>2 DEF Present, TurnsInv
<1>4. /\ IsRow(r) /\ SameTurn(r, turns[t]) /\ r.sent /\ r.status = turns[t].status
      /\ r.work = turns[t].work /\ r.back = turns[t].back
      /\ IsRow(j) /\ SameTurn(j, job.row) /\ j.back = job.row.back
  <2>1. ASSUME NEW q, IsRow(q)
        PROVE  LET x == [q EXCEPT !.sent = TRUE] IN
               /\ IsRow(x) /\ SameTurn(x, q) /\ x.sent /\ x.status = q.status
               /\ x.work = q.work /\ x.back = q.back
    BY <2>1 DEF IsRow, SameTurn
  <2> QED
    BY <1>2, <1>3, <2>1
<1>5. turns' = [turns EXCEPT ![t] = r] /\ Plans(r)
  BY <1>1, <1>3, <1>4 DEF Plans
<1>6. /\ IsJob(job') /\ job'.turn = t /\ job'.kind = "run" /\ job'.row = j
  <2> HIDE DEF j
  <2> QED
    BY <1>1, <1>2 DEF IsJob
<1> HIDE DEF r, j, t
<1>7. /\ TurnsInv' /\ Present' = Present
      /\ turns'[t] = r /\ \A u \in Turns \ {t} : turns'[u] = turns[u]
  BY <1>1, <1>2, <1>4, <1>5, TurnStays
<1>8. PlacesInv'
  <2>1. \A u \in Present : SameTurn(turns'[u], turns[u])
                            /\ (u # t => turns'[u].sent = turns[u].sent)
    BY <1>4, <1>7 DEF SameTurn, Present
  <2> QED
    BY <1>1, <1>2, <1>7, <2>1, PlacesSent
<1>9. JobInv'
  <2>1. SameTurn(j, r)
    BY <1>2, <1>4 DEF SameTurn
  <2> QED
    BY <1>2, <1>4, <1>6, <1>7, <2>1 DEF JobInv
<1> QED
  BY <1>7, <1>8, <1>9 DEF SInv

\* What the row of the job's turn may become when the job is over.
Over(r) == /\ IsRow(r) /\ SameTurn(r, turns[job.turn])
           /\ r.status \in {"review", "failed"} /\ r.work = "run"
           /\ (r.sent => turns[job.turn].sent)
           /\ r.stage \in {job.row.stage, turns[job.turn].stage}

LEMMA OverStays ==
  ASSUME NEW r, Over(r), NEW x, NEW b \in BOOLEAN
  PROVE  /\ Plans(r)
         /\ Over([r EXCEPT !.next = x])
         /\ Over([r EXCEPT !.finished = x])
         /\ Over([r EXCEPT !.resumed = x])
         /\ Over([r EXCEPT !.continuation.state = x])
         /\ Over([r EXCEPT !.recovery.state = x])
         /\ Over([r EXCEPT !.recovery.child = x])
         /\ Over([r EXCEPT !.recovery.attempts = x])
         /\ Over([r EXCEPT !.status = "review"])
         /\ Over([r EXCEPT !.status = "failed"])
<1>1. Plans(r)
  BY DEF Over, Plans
<1>2. Over([r EXCEPT !.next = x]) /\ Over([r EXCEPT !.finished = x])
  BY DEF Over, SameTurn, IsRow
<1>3. Over([r EXCEPT !.resumed = x]) /\ Over([r EXCEPT !.continuation.state = x])
  BY DEF Over, SameTurn, IsRow
<1>4. Over([r EXCEPT !.recovery.state = x]) /\ Over([r EXCEPT !.recovery.child = x])
  BY DEF Over, SameTurn, IsRow
<1>5. Over([r EXCEPT !.recovery.attempts = x])
  BY DEF Over, SameTurn, IsRow
<1>6. Over([r EXCEPT !.status = "review"]) /\ Over([r EXCEPT !.status = "failed"])
  BY DEF Over, SameTurn, IsRow, Statuses
<1> QED
  BY <1>1, <1>2, <1>3, <1>4, <1>5, <1>6

\* The job's turn is over, alone or with a successor that is a draft.
OverNow ==
  /\ Present \subseteq Present' /\ Over(turns'[job.turn])
  /\ \A u \in Present' \ {job.turn} :
       \/ u \in Present /\ turns'[u] = turns[u]
       \/ u \notin Present /\ turns'[u].stage = "draft"

LEMMA OverIsNow ==
  ASSUME TurnsInv, NEW t, t = job.turn, t \in Present, t + 1 \notin Present, NEW r, Over(r),
         \/ turns' = [turns EXCEPT ![t] = r]
         \/ \E q : turns' = [turns EXCEPT ![t] = r, ![t + 1] = q] /\ q.stage = "draft"
  PROVE  OverNow
<1>1. t \in Turns /\ t # t + 1 /\ t \in Nat
  BY SeriesAssumption DEF Present, Turns
<1>2. turns'[t] = r /\ \A u \in Turns \ {t, t + 1} : turns'[u] = turns[u]
  BY <1>1 DEF TurnsInv
<1>3. turns'[t].status # "absent"
  BY <1>2 DEF Over
<1>4. Present \subseteq Present'
  BY <1>2, <1>3 DEF Present
<1>5. ASSUME t + 1 \in Present' PROVE turns'[t + 1].stage = "draft"
  <2>1. CASE turns' = [turns EXCEPT ![t] = r]
    <3>1. t + 1 \in Turns /\ turns'[t + 1] = turns[t + 1]
      BY <1>1, <1>5, <2>1 DEF TurnsInv, Present
    <3> QED
      BY <1>5, <3>1 DEF Present
  <2>2. ASSUME NEW q, turns' = [turns EXCEPT ![t] = r, ![t + 1] = q], q.stage = "draft"
        PROVE  turns'[t + 1].stage = "draft"
    <3>1. t + 1 \in Turns
      BY <1>5 DEF Present
    <3> QED
      BY <1>1, <2>2, <3>1 DEF TurnsInv
  <2> QED
    BY <2>1, <2>2
<1> QED
  BY <1>2, <1>4, <1>5 DEF OverNow, Present

LEMMA OverKeeps ==
  ASSUME SInv, job.turn # 0, NEW r, Over(r),
         \/ turns' = [turns EXCEPT ![job.turn] = r]
         \/ /\ turns' = [turns EXCEPT ![job.turn] = r,
                                       ![job.turn + 1] = NewRepair(job.turn, First)]
            /\ CanRepair(job.turn, "review") /\ job.turn < MaxTurns
         \/ /\ turns' = [turns EXCEPT ![job.turn] = r,
                                       ![job.turn + 1] = NewContinuation(job.turn)]
            /\ job.turn < MaxTurns
         \/ \E c \in Categories, p \in Nat :
              /\ turns' = [turns EXCEPT ![job.turn] = r,
                                        ![job.turn + 1] = NewQuestion(job.turn + 1, c, p)]
              /\ CanAdd(c) /\ job.turn < MaxTurns
  PROVE  TurnsInv' /\ PlacesInv' /\ OverNow
<1> DEFINE t == job.turn
<1>1. TurnsInv /\ PlacesInv /\ t \in Present /\ \A u \in Present : u <= t
  BY DEF SInv, JobInv
<1>2. /\ t \in Turns /\ t \in Nat /\ t # 0 /\ t + 1 \in Nat
      /\ turns[t].root \in Nat /\ turns[t].category \in Categories
  BY <1>1, SeriesAssumption DEF Present, Turns, TurnsInv, IsRow
<1>3. /\ IsRow(r) /\ Plans(r) /\ SameTurn(r, turns[t]) /\ (r.sent => turns[t].sent)
      /\ r.status # "absent" /\ r.status \notin Active
  BY OverStays DEF Over, Active
<1>4. CASE turns' = [turns EXCEPT ![job.turn] = r]
  <2>1. t + 1 \notin Present
    BY <1>1, <1>2
  <2>2. OverNow
    BY <1>1, <1>4, <2>1, OverIsNow
  <2> QED
    BY <1>1, <1>3, <1>4, <2>2, TurnChanges
<1>5. CASE /\ turns' = [turns EXCEPT ![job.turn] = r,
                                     ![job.turn + 1] = NewRepair(job.turn, First)]
           /\ CanRepair(job.turn, "review") /\ job.turn < MaxTurns
  <2> DEFINE q == NewRepair(t, First)
  <2>1. /\ IsRow(q) /\ Plans(q) /\ q.status = "queued" /\ ~q.sent
        /\ q.root = turns[t].root /\ q.continues = 0 /\ q.repairOf # 0
    BY <1>2, NewRepairRow, SeriesAssumption
  <2>2. /\ Cardinality(Questions(t)) < MaxLogicalTurns
        /\ Cardinality(RepairsIn(t)) < MaxBugRepairs
    BY <1>5 DEF CanRepair
  <2>3. turns' = [turns EXCEPT ![t] = r, ![t + 1] = q] /\ t < MaxTurns
    BY <1>5
  <2>4. q.stage = "draft" /\ t + 1 \notin Present
    <3>1. q.stage = "draft"
      BY DEF NewQuestion, NewRepair, NewContinuation, Absent
    <3>2. t + 1 \notin Present
      BY <1>1, <1>2
    <3> QED
      BY <3>1, <3>2
  <2> HIDE DEF q, t
  <2>5. OverNow
    BY <1>1, <2>3, <2>4, OverIsNow DEF t
  <2> QED
    BY <1>1, <1>3, <2>1, <2>5, <2>2, <2>3, TurnFollows
<1>6. CASE /\ turns' = [turns EXCEPT ![job.turn] = r,
                                     ![job.turn + 1] = NewContinuation(job.turn)]
           /\ job.turn < MaxTurns
  <2> DEFINE q == NewContinuation(t)
  <2>1. /\ IsRow(q) /\ Plans(q) /\ q.status = "queued" /\ ~q.sent
        /\ q.root = turns[t].root /\ q.continues # 0
    BY <1>2, NewContinuationRow
  <2>3. turns' = [turns EXCEPT ![t] = r, ![t + 1] = q] /\ t < MaxTurns
    BY <1>6
  <2>4. q.stage = "draft" /\ t + 1 \notin Present
    <3>1. q.stage = "draft"
      BY DEF NewQuestion, NewRepair, NewContinuation, Absent
    <3>2. t + 1 \notin Present
      BY <1>1, <1>2
    <3> QED
      BY <3>1, <3>2
  <2> HIDE DEF q, t
  <2>5. OverNow
    BY <1>1, <2>3, <2>4, OverIsNow DEF t
  <2> QED
    BY <1>1, <1>3, <2>1, <2>5, <2>3, TurnFollows
<1>7. ASSUME NEW c \in Categories, NEW p \in Nat,
             turns' = [turns EXCEPT ![job.turn] = r,
                                    ![job.turn + 1] = NewQuestion(job.turn + 1, c, p)],
             CanAdd(c), job.turn < MaxTurns
      PROVE  TurnsInv' /\ PlacesInv' /\ OverNow
  <2> DEFINE q == NewQuestion(t + 1, c, p)
  <2>1. /\ IsRow(q) /\ Plans(q) /\ q.status = "queued" /\ ~q.sent /\ Independent(q)
        /\ q.category = c /\ q.root = t + 1
    BY <1>2, NewQuestionRow
  <2>3. turns' = [turns EXCEPT ![t] = r, ![t + 1] = q] /\ t < MaxTurns /\ CanAdd(q.category)
    BY <1>7, <2>1
  <2>4. q.stage = "draft" /\ t + 1 \notin Present
    <3>1. q.stage = "draft"
      BY DEF NewQuestion, NewRepair, NewContinuation, Absent
    <3>2. t + 1 \notin Present
      BY <1>1, <1>2
    <3> QED
      BY <3>1, <3>2
  <2> HIDE DEF q, t
  <2>5. OverNow
    BY <1>1, <2>3, <2>4, OverIsNow DEF t
  <2> QED
    BY <1>1, <1>3, <2>1, <2>5, <2>3, TurnFollows
<1> QED
  BY <1>4, <1>5, <1>6, <1>7

\* What a job's row, and a turn that was planned for, become at the end.
EndsAs(r, q, s) == /\ IsRow(r) /\ SameTurn(r, q) /\ r.sent = q.sent
                   /\ r.status = s /\ r.work = "run" /\ r.stage = q.stage

Evaluated(q, x, s) == [[q EXCEPT !.work = "run", !.excluded = x] EXCEPT !.status = s]
Replanned(q, x, s) ==
  [q EXCEPT !.status = s, !.work = "run", !.back = "none", !.recovery = x,
            !.recovery.attempts = @ + 1]

LEMMA RowsEnd ==
  ASSUME NEW q, IsRow(q), NEW s \in {"review", "failed"}, NEW x
  PROVE  /\ EndsAs(Evaluated(q, x, s), q, s)
         /\ EndsAs(Replanned(q, x, s), q, s)
<1>1. EndsAs(Evaluated(q, x, s), q, s)
  BY DEF Evaluated, EndsAs, IsRow, SameTurn, Statuses
<1>2. EndsAs(Replanned(q, x, s), q, s)
  BY DEF Replanned, EndsAs, IsRow, SameTurn, Statuses
<1> QED
  BY <1>1, <1>2

LEMMA FinishTurnKeeps ==
  ASSUME SInv, NEW c \in Categories, FinishTurn(c)
  PROVE  SInv' /\ OverNow
<1> DEFINE t == job.turn
           row == [job.row EXCEPT !.work = "run", !.excluded = turns[t].excluded]
           review == [row EXCEPT !.status = "review"]
           failed == [row EXCEPT !.status = "failed"]
           Ended(q) == turns' = [turns EXCEPT ![t] = q]
           Mends(q) == /\ turns' = [turns EXCEPT ![t] = q, ![t + 1] = NewRepair(t, First)]
                         /\ CanRepair(t, "review") /\ t < MaxTurns
           Continued(q) == /\ turns' = [turns EXCEPT ![t] = q, ![t + 1] = NewContinuation(t)]
                           /\ t < MaxTurns
           Asks(q) == /\ turns' = [turns EXCEPT ![t] = q, ![t + 1] = NewQuestion(t + 1, c, 0)]
                      /\ CanAdd(c) /\ t < MaxTurns
<1>1. t # 0 /\ job' = NoJob
  BY DEF SInv, JobInv, FinishTurn
<1>2. IsRow(job.row) /\ SameTurn(job.row, turns[t]) /\ (job.row.sent => turns[t].sent)
  BY <1>1 DEF SInv, JobInv
<1>3. Over(review) /\ Over(failed)
  <2> SUFFICES ASSUME NEW s \in {"review", "failed"} PROVE Over([row EXCEPT !.status = s])
    OBVIOUS
  <2> DEFINE y == [row EXCEPT !.status = s]
  <2>1. EndsAs(y, job.row, s)
    <3>1. y = Evaluated(job.row, turns[t].excluded, s)
      BY DEF Evaluated
    <3> HIDE DEF y
    <3> QED
      BY <1>2, <3>1, RowsEnd
  <2>2. Over(y)
    <3> HIDE DEF y
    <3> QED
      BY <1>2, <2>1 DEF EndsAs, Over, SameTurn
  <2> QED
    BY <2>2
<1>4. ASSUME NEW q, Over(q), Ended(q) \/ Mends(q) \/ Continued(q) \/ Asks(q)
      PROVE  TurnsInv' /\ PlacesInv' /\ OverNow
  BY <1>1, <1>4, OverKeeps
<1>5. ASSUME NEW r, Over(r), turns' = Follow(r, c)
      PROVE  TurnsInv' /\ PlacesInv' /\ OverNow
  <2> DEFINE k == IF r.continuation.state = "planned" THEN "continued" ELSE r.continuation.state
             n == [r EXCEPT !.next = "goes"]
             goes == [n EXCEPT !.continuation.state = k]
             rest == [r EXCEPT !.next = job.next]
             fails == [rest EXCEPT !.next = "error"]
             ends == [rest EXCEPT !.finished = rest.finished
                                    \/ (auto /\ job.next \notin {"none", "error"})]
  <2>1. Over(n) /\ Over(rest)
    BY <1>5, OverStays
  <2>2. Over(goes)
    <3> HIDE DEF n, k
    <3> QED
      BY <2>1, OverStays
  <2>3. Over(fails) /\ Over(ends)
    <3> HIDE DEF rest
    <3> QED
      BY <2>1, OverStays
  <2>4. goes = [r EXCEPT !.next = "goes",
                  !.continuation.state = IF @ = "planned" THEN "continued" ELSE @]
    BY <1>5 DEF Over, IsRow
  <2>5. \/ Mends(goes) \/ Asks(goes) \/ Ended(fails) \/ Ended(ends)
    <3> DEFINE gone == [r EXCEPT !.next = "goes",
                          !.continuation.state = IF @ = "planned" THEN "continued" ELSE @]
    <3>1. \/ Mends(gone) \/ Asks(gone) \/ Ended(fails) \/ Ended(ends)
      BY <1>5 DEF Follow
    <3> HIDE DEF goes, fails, ends, Mends, Asks, Ended
    <3> QED
      BY <2>4, <3>1
  <2> HIDE DEF goes, fails, ends, Mends, Asks, Ended, Continued
  <2> QED
    BY <1>4, <2>2, <2>3, <2>5
<1>6. TurnsInv' /\ PlacesInv' /\ OverNow
  <2> DEFINE resumed == [failed EXCEPT !.resumed = t + 1]
             rest == [failed EXCEPT !.next = job.next]
  <2>1. Over(resumed) /\ Over(rest)
    <3> HIDE DEF failed
    <3> QED
      BY <1>3, OverStays
  <2>2. \/ turns' = Follow(review, c) \/ turns' = Follow(failed, c)
        \/ Continued(resumed) \/ Ended(rest)
    BY DEF FinishTurn
  <2> HIDE DEF review, failed, resumed, rest, Mends, Asks, Ended, Continued
  <2> QED
    BY <1>3, <1>4, <1>5, <2>1, <2>2
<1> QED
  BY <1>1, <1>6, NoJobHolds DEF SInv

LEMMA FinishReplanKeeps == ASSUME SInv, FinishReplan PROVE SInv' /\ OverNow
<1> DEFINE t == job.turn
           done == [turns[t] EXCEPT !.status = job.row.back, !.work = "run", !.back = "none",
                                    !.recovery = job.row.recovery,
                                    !.recovery.attempts = @ + 1]
           blocked == [done EXCEPT !.recovery.state = "blocked"]
           continued == [done EXCEPT !.recovery.state = "continued",
                                     !.recovery.child = t + 1]
<1>1. t # 0 /\ job.kind = "replan" /\ job' = NoJob /\ JobInv /\ TurnsInv
  BY DEF SInv, JobInv, FinishReplan, Runs
<1>2. /\ t \in Turns /\ t \in Nat /\ IsRow(turns[t])
      /\ job.row.back \in {"review", "failed"}
      /\ job.ok => job.category \in Categories /\ CanAdd(job.category) /\ t < MaxTurns
  BY <1>1, SeriesAssumption DEF JobInv, TurnsInv, Plans, Present, Turns
<1>3. Over(done)
  <2>1. EndsAs(done, turns[t], job.row.back)
    <3>1. done = Replanned(turns[t], job.row.recovery, job.row.back)
      BY DEF Replanned
    <3> HIDE DEF done
    <3> QED
      BY <1>2, <3>1, RowsEnd
  <2> HIDE DEF done
  <2> QED
    BY <1>2, <2>1 DEF EndsAs, Over
<1>4. Over(blocked) /\ Over(continued)
  <2> HIDE DEF done
  <2>1. Over(blocked) /\ Over([done EXCEPT !.recovery.state = "continued"])
    BY <1>3, OverStays
  <2> DEFINE d == [done EXCEPT !.recovery.state = "continued"]
  <2>2. continued = [d EXCEPT !.recovery.child = t + 1]
    BY <1>3 DEF Over, IsRow
  <2> HIDE DEF d, continued
  <2>3. Over(d)
    BY <2>1 DEF d
  <2> QED
    BY <2>1, <2>2, <2>3, OverStays
<1>5. \/ turns' = [turns EXCEPT ![t] = blocked]
      \/ /\ turns' = [turns EXCEPT ![t] = continued,
                                    ![t + 1] = NewQuestion(t + 1, job.category, t)]
         /\ job.ok
  BY DEF FinishReplan
<1> HIDE DEF blocked, continued
<1>6. TurnsInv' /\ PlacesInv' /\ OverNow
  BY <1>1, <1>2, <1>4, <1>5, OverKeeps
<1> QED
  BY <1>1, <1>6, NoJobHolds DEF SInv

LEMMA CrashKeeps ==
  ASSUME SInv, NEW late \in BOOLEAN, Crash(late)
  PROVE  SInv'
<1> DEFINE t == job.turn
           s == IF turns[t].outcome = "complete" THEN "queued" ELSE "failed"
           l == IF late \/ (turns[t].stage = "late" /\ job.kind = "replan")
                THEN "late" ELSE "draft"
           r == [turns[t] EXCEPT !.status = s, !.stage = l]
<1>1. /\ TurnsInv /\ PlacesInv /\ job' = NoJob
      /\ t \in Present /\ \A u \in Present : u <= t
  BY DEF SInv, JobInv, Crash, JobFree
<1>2. t \in Turns /\ IsRow(turns[t]) /\ Plans(turns[t])
  BY <1>1 DEF Present, TurnsInv
<1>3. turns' = [turns EXCEPT ![t] = r]
  <2>1. turns' = [turns EXCEPT
                         ![t].status = s,
                         ![t].stage = IF late \/ (@ = "late" /\ job.kind = "replan")
                                      THEN "late" ELSE "draft"]
    BY DEF Crash
  <2> QED
    BY <1>1, <1>2, <2>1 DEF TurnsInv, IsRow
<1>4. /\ IsRow(r) /\ SameTurn(r, turns[t]) /\ r.sent = turns[t].sent
      /\ r.status \in {"queued", "failed"}
      /\ r.work = turns[t].work /\ r.back = turns[t].back
  <2> DEFINE Dies(z, q, x) == /\ IsRow(z) /\ SameTurn(z, q) /\ z.sent = q.sent
                              /\ z.status = x /\ z.work = q.work /\ z.back = q.back
  <2>1. ASSUME NEW q, IsRow(q), NEW x \in {"queued", "failed"}, NEW y \in Stages
        PROVE  Dies([q EXCEPT !.status = x, !.stage = y], q, x)
    BY <2>1 DEF IsRow, SameTurn, Statuses
  <2>2. l \in Stages /\ s \in {"queued", "failed"}
    BY DEF Stages
  <2>3. Dies(r, turns[t], s)
    <3> HIDE DEF l, s, Dies
    <3> QED
      BY <1>2, <2>1, <2>2
  <2> HIDE DEF r
  <2> QED
    BY <2>2, <2>3
<1>5. Plans(r)
  <2> HIDE DEF r
  <2> QED
    BY <1>2, <1>4 DEF Plans
<1>6. TurnsInv' /\ PlacesInv'
  <2> HIDE DEF r, t
  <2> QED
    BY <1>1, <1>3, <1>4, <1>5, TurnChanges
<1> QED
  BY <1>1, <1>6, NoJobHolds DEF SInv

------------------------------------------------------------------------------
\* The invariant, and what follows from it.

LEMMA FirstTurn == SeriesInit => SInv
<1> SUFFICES ASSUME SeriesInit PROVE SInv
  OBVIOUS
<1> DEFINE q == NewQuestion(1, First, 0)
<1>1. /\ IsRow(q) /\ Plans(q) /\ q.status = "queued" /\ ~q.sent /\ Independent(q)
      /\ q.category = First /\ q.root = 1
  BY NewQuestionRow, SeriesAssumption
<1>2. /\ turns = [t \in Turns |-> IF t = 1 THEN q ELSE Absent] /\ job = NoJob
      /\ 1 \in Turns
  BY SeriesAssumption DEF SeriesInit, Turns
<1> HIDE DEF q
<1>3. turns[1] = q /\ \A t \in Turns \ {1} : turns[t] = Absent
  BY <1>2
<1>4. Present = {1}
  BY <1>1, <1>2, <1>3, AbsentRow DEF Present
<1>5. TurnsInv
  <2>1. turns = [t \in Turns |-> turns[t]]
    BY <1>2
  <2>2. \A t \in Turns : IsRow(turns[t]) /\ Plans(turns[t])
    BY <1>1, <1>3, AbsentRow DEF Plans
  <2>3. \A t \in Present, u \in Turns : u < t => u \in Present /\ turns[u].status \notin Active
    BY <1>4, SeriesAssumption DEF Turns
  <2>4. \A t \in Present : turns[t].root \in 1 .. t
    BY <1>1, <1>3, <1>4
  <2> QED
    BY <1>4, <2>1, <2>2, <2>3, <2>4 DEF TurnsInv
<1>6. JobInv
  BY <1>2 DEF JobInv, NoJob, IsJob
<1>7. ASSUME NEW c \in Categories PROVE Cardinality(Held(c)) <= Limit[c]
  <2>1. CASE c = First
    <3>1. Cardinality(Held(c)) \in {0, 1}
      BY <1>4, SingleTurn DEF Held
    <3> QED
      BY <2>1, <3>1, SeriesAssumption
  <2>2. CASE c # First
    <3>1. Held(c) = {}
      BY <1>1, <1>3, <1>4, <2>2 DEF Held
    <3> QED
      BY <3>1, FS_EmptySet, SeriesAssumption
  <2> QED
    BY <2>1, <2>2
<1>8. ASSUME NEW k \in Nat
      PROVE  /\ Cardinality(Asked(k)) <= MaxLogicalTurns
             /\ Cardinality(Repaired(k)) <= MaxBugRepairs
             /\ Cardinality(Called(k)) <= MaxCalls
  <2>1. Cardinality(Asked(k)) \in {0, 1} /\ Cardinality(Repaired(k)) \in {0, 1}
    BY <1>4, SingleTurn DEF Asked, Repaired, Rooted
  <2>2. Called(k) = {}
    BY <1>1, <1>3, <1>4 DEF Called, Rooted
  <2> QED
    BY <2>1, <2>2, FS_EmptySet, SeriesAssumption DEF MaxLogicalTurns, MaxBugRepairs
<1> QED
  BY <1>5, <1>6, <1>7, <1>8 DEF SInv, PlacesInv

LEMMA SeriesStep == SInv /\ [SeriesNext]_seriesVars => SInv'
<1> SUFFICES ASSUME SInv, [SeriesNext]_seriesVars PROVE SInv'
  OBVIOUS
<1>1. CASE JobStep
  <2>1. ASSUME NEW t \in Present, Claim(t) PROVE SInv'
    BY <2>1, ClaimKeeps
  <2>2. CASE CloseForNext \/ EnsureContainer \/ ImportSource \/ FinishImport \/ CloseFailed
    BY <2>2, ContainersKeep DEF Containers
  <2>3. CASE Send
    BY <2>3, SendKeeps
  <2>4. CASE \/ \E cause \in Stages : DraftRefused(cause)
             \/ \E outcome \in {"complete", "error", "gateway"}, permitted \in BOOLEAN :
                  CallEnds(outcome, permitted)
             \/ \E bugs \in BOOLEAN, next \in Answers : Evaluate(bugs, next)
             \/ \E bugs \in BOOLEAN : EvaluateDisputed(bugs)
             \/ \E next \in Answers : PlanAgain(next) \/ PlanDisputed(next)
             \/ RetainDisputed
    BY <2>4, CallStepsKeep
  <2>5. CASE \/ RetainSource
             \/ \E c \in Categories, accepted \in BOOLEAN : PlanSuccessor(c, accepted)
    BY <2>5, PlanStepsKeep
  <2>6. ASSUME NEW c \in Categories, FinishTurn(c) PROVE SInv'
    BY <2>6, FinishTurnKeeps
  <2>7. CASE FinishReplan
    BY <2>7, FinishReplanKeeps
  <2> QED
    BY <1>1, <2>1, <2>2, <2>3, <2>4, <2>5, <2>6, <2>7 DEF JobStep
<1>2. CASE Person
  <2>1. CASE (\E c \in Categories : EnqueueQuestion(c)) \/ EnqueueRepair
    BY <2>1, EnqueuesKeep
  <2>2. CASE Retry \/ RetryPlan
    BY <2>2, RetriesKeep
  <2>3. CASE SwitchAuto
    BY <2>3, ContainersKeep DEF Containers
  <2>4. ASSUME NEW t \in Present, Exclude(t) PROVE SInv'
    BY <2>4, ExcludeKeeps
  <2> QED
    BY <1>2, <2>1, <2>2, <2>3, <2>4 DEF Person
<1>3. CASE StartClosing \/ EndClosing
  BY <1>3, ContainersKeep DEF Containers
<1>4. ASSUME NEW late \in BOOLEAN, Crash(late) PROVE SInv'
  BY <1>4, CrashKeeps
<1>5. CASE UNCHANGED seriesVars
  BY <1>5, JobSame, JobGoesOn DEF seriesVars
<1> QED
  BY <1>1, <1>2, <1>3, <1>4, <1>5 DEF SeriesNext

LEMMA LimitsFollow == SInv => LimitsKept
<1> SUFFICES ASSUME SInv PROVE LimitsKept
  OBVIOUS
<1>1. ASSUME NEW c \in Categories PROVE Cardinality(Counted(c)) <= Limit[c]
  <2>1. Counted(c) \subseteq Held(c) /\ Held(c) \subseteq Turns
    <3>1. Counted(c) \subseteq Held(c)
      BY DEF Counted, Held
    <3>2. Held(c) \subseteq Turns
      BY DEF Held, Present
    <3> QED
      BY <3>1, <3>2
  <2>2. Cardinality(Counted(c)) <= Cardinality(Held(c)) /\ Cardinality(Held(c)) <= Limit[c]
    BY <2>1, FewerTurns DEF SInv, PlacesInv
  <2> QED
    BY <2>1, <2>2, TurnsAreFinite, SeriesAssumption DEF Categories
<1>2. ASSUME NEW t \in Present
      PROVE  /\ Cardinality(Questions(t)) <= MaxLogicalTurns
             /\ Cardinality(RepairsIn(t)) <= MaxBugRepairs
             /\ Cardinality({u \in Session(t) : turns[u].sent}) <= MaxCalls
  <2>1. turns[t].root \in Nat
    BY SeriesAssumption DEF SInv, TurnsInv, Present, Turns
  <2>2. /\ Questions(t) = Asked(turns[t].root) /\ RepairsIn(t) = Repaired(turns[t].root)
        /\ {u \in Session(t) : turns[u].sent} = Called(turns[t].root)
    BY DEF Questions, RepairsIn, Session, Asked, Repaired, Called, Rooted
  <2> QED
    BY <2>1, <2>2 DEF SInv, PlacesInv
<1> QED
  BY <1>1, <1>2 DEF LimitsKept

\* The invariant holds in every state of a project.
THEOREM SeriesInductive == SeriesSpec => []SInv
<1>1. SeriesInit => SInv
  BY FirstTurn
<1>2. SInv /\ [SeriesNext]_seriesVars => SInv'
  BY SeriesStep
<1> QED
  BY <1>1, <1>2, PTL DEF SeriesSpec

\* A project's categories and sessions stay within their questions, repairs and
\* calls, whichever of the four ways adds the next turn.
THEOREM ProjectLimits == SeriesSpec => []LimitsKept
<1>1. SInv => LimitsKept
  BY LimitsFollow
<1> QED
  BY <1>1, SeriesInductive, PTL

------------------------------------------------------------------------------
(* ProjectSeries: the code its copies, its snapshots and its workspace hold. *)

\* What a turn's row says goes together: only a call that was sent has an
\* outcome, only a completed and permitted one is archived or disputed, a scored
\* turn is archived, and a turn is taken up again only for what it may still do.
HasState(x) == x = [y \in DOMAIN x |-> x[y]] /\ "state" \in DOMAIN x
Grounded(r) ==
  /\ HasState(r.recovery) /\ HasState(r.continuation)
  /\ r.outcome # "none" => r.sent
  /\ r.outcome = "none" => r.permitted
  /\ r.archive # Empty => /\ r.outcome = "complete" /\ r.permitted /\ ~r.disputed
                          /\ r.status \in Active \cup {"review"}
  /\ r.disputed => r.outcome # "none" /\ r.permitted
  /\ r.continuation.state \in {"ready", "planned", "continued"} => r.disputed
  /\ r.status = "review" => r.archive # Empty /\ r.work = "run"
  /\ r.status \in Active =>
       /\ r.work = "run" => r.outcome = "none" /\ (r.status = "queued" => ~r.sent)
       /\ r.work = "plan" => r.archive # Empty
       /\ r.work = "dispute" => r.disputed
  /\ r.work = "replan" => (r.back = "review" <=> r.archive # Empty)

\* What a question achieved counts for one asked at t.
Counts(u, t) ==
  /\ ~turns[u].excluded /\ SessionPermitted(u)
  /\ \/ turns[u].archive # Empty
     \/ DisputedReady(u) /\ \A v \in (u + 1) .. t : turns[v].planned = 0
Holds(code, t) == \A u \in Present : u < t /\ Counts(u, t) => u \in code

\* Code that was taken after t: it has all that counts, and of other sessions
\* only what was permitted.
Taken(code, t) ==
  /\ t \in code /\ Holds(code, t)
  /\ \A w \in code \ {0} : /\ w \in Present /\ w <= t
                           /\ turns[w].root = turns[t].root \/ SessionPermitted(w)

\* Sessions follow one another; a follow-up stands behind a call of its session,
\* a question planned after a failure behind the turn it was planned for.
OrderInv ==
  /\ \A t \in Turns : Grounded(turns[t])
  /\ \A u, v \in Present : u < v => turns[v].root = turns[u].root \/ u < turns[v].root
  /\ \A t \in Present :
       /\ Independent(turns[t]) => turns[t].root = t
       /\ ~Independent(turns[t]) => /\ t - 1 \in Present /\ turns[t - 1].sent
                                    /\ turns[t - 1].root = turns[t].root
                                    /\ turns[t].planned = 0
                                    /\ ~turns[t].sent /\ t + 1 \notin Present
                                         => SessionPermitted(t)
       /\ turns[t].planned # 0 => /\ turns[t].planned = t - 1 /\ t - 1 \in Present
                                  /\ kept.replan[t - 1] # Empty

\* The archives and what was retained of a disputed question.
CopiesOf(t) ==
  /\ turns[t].archive # Empty => Taken(turns[t].archive, t)
  /\ kept.retained[t] # Empty => Taken(kept.retained[t], t)
  /\ DisputedReady(t) => kept.retained[t] # Empty
CopiesInv ==
  /\ kept = [kind \in {"replan", "retained"} |-> kept[kind]]
  /\ kept.replan = [t \in Turns |-> kept.replan[t]]
  /\ kept.retained = [t \in Turns |-> kept.retained[t]]
  /\ \A t \in Turns \ Present : kept.replan[t] = Empty /\ kept.retained[t] = Empty
  /\ \A t \in Present : CopiesOf(t)

\* What a successor starts from, until another turn follows instead.
ToReplan(r) == /\ r.work = "replan" \/ r.recovery.state = "blocked" \/ r.disputed
               /\ r.status \in Active => r.work # "run"
SnapshotsInv ==
  \A t \in Present :
    kept.replan[t] # Empty =>
      /\ (t + 1 \in Present => turns[t + 1].planned # 0) =>
           /\ \A u \in Present : /\ u <= t /\ ~turns[u].excluded /\ SessionPermitted(u)
                                 /\ turns[u].archive # Empty
                                 => u \in kept.replan[t]
           /\ \A w \in kept.replan[t] \ {0} : w \in Present /\ w <= t /\ SessionPermitted(w)
      /\ t + 1 \notin Present => ToReplan(turns[t])

\* The workspace: its session's calls, and of the turns before what was permitted.
\* It has what counts once its import is finished or a call of it was sent.
Drafting == job.turn # 0 /\ job.kind = "run" /\ job.phase = "draft"
BoxInv ==
  LET r == container.root IN
  /\ container = [root |-> r, status |-> container.status, code |-> container.code,
                  from |-> container.from, imported |-> container.imported]
  /\ r = 0 \/ (r \in Present /\ turns[r].root = r)
  /\ \A w \in container.code \ {0} :
       w \in Present /\ (turns[w].root = r \/ (w < r /\ SessionPermitted(w)))
  /\ \A w \in container.from \ {0} : w \in Present /\ w < r /\ SessionPermitted(w)
  /\ \/ container.imported \/ \E u \in Present : turns[u].root = r /\ turns[u].sent
     \/ Drafting
     => Holds(container.code, r)
  /\ \A u \in Present : turns[u].root = r /\ turns[u].outcome # "none" => u \in container.code
  /\ container.imported => Whole(container.code) \/ ~Whole(container.from)

\* The job knows what its turn was, and finds the workspace as it left it.
ResultInv ==
  LET t == job.turn
      q == job.row IN
  /\ q.outcome # "none" => q.sent /\ (container.root = turns[t].root => t \in container.code)
  /\ q.outcome = "none" => q.permitted
  /\ q.archive # Empty => /\ Taken(q.archive, t) /\ q.outcome = "complete" /\ q.permitted
                          /\ ~q.disputed
  /\ q.disputed => q.outcome # "none" /\ q.permitted
  /\ q.continuation.state \in {"ready", "planned", "continued"} => q.disputed
  /\ q.disputed /\ q.continuation.state \in {"ready", "planned", "continued"}
       => kept.retained[t] # Empty
  /\ turns[t].permitted
  /\ job.ok => q.archive # Empty
  /\ q.archive # Empty /\ job.phase = "done" => job.ok

PhaseInv ==
  LET t == job.turn
      p == job.phase IN
  job.kind = "run" =>
    /\ turns[t].work = "run" /\ ~job.row.disputed
    /\ p \in {"begun", "ensured", "importing", "draft", "sent", "answered"} => job.row.archive = Empty
    /\ p \in {"begun", "ensured", "importing", "draft"} => ~turns[t].sent
    /\ p \in {"ensured", "importing", "draft"} => SessionPermitted(t)
    /\ p \in {"ensured", "importing", "draft", "sent", "answered"} =>
         container.root = turns[t].root
    /\ p = "importing" => Independent(turns[t]) /\ Holds(container.from, container.root)
    /\ p = "draft" => ~Independent(turns[t]) \/ container.imported \/ PriorQuestion(t) = {}
    /\ p \in {"sent", "answered"} => turns[t].sent
    /\ p = "answered" => job.row.outcome = "complete" /\ job.row.permitted

WorkInv ==
  job.turn # 0 =>
    /\ HasState(job.row.recovery) /\ HasState(job.row.continuation)
    /\ job.kind \in {"run", "plan", "dispute", "replan"}
    /\ job.row.planned = turns[job.turn].planned
    /\ job.row.sent = turns[job.turn].sent
    /\ job.kind # "replan" => ResultInv
    /\ PhaseInv
    /\ job.kind = "plan" => /\ job.row.archive # Empty /\ job.row.recovery = turns[job.turn].recovery
                            /\ job.row.archive = turns[job.turn].archive
    /\ job.kind = "dispute" => /\ job.row.disputed /\ turns[job.turn].archive = Empty
                               /\ job.phase = "retained" => kept.retained[job.turn] # Empty
    /\ job.kind = "replan" =>
         (job.phase \in {"kept", "closed"} \/ job.ok => kept.replan[job.turn] # Empty)

CodeInv == OrderInv /\ CopiesInv /\ SnapshotsInv /\ BoxInv /\ WorkInv

\* The container of a turn runs, and the store was told so.
OwnBox(t) ==
  /\ container.root = turns[t].root /\ container.status = "running"
  /\ known.root = turns[t].root /\ known.status = "running"

\* A draft that failed by its new wording alone: while it is the last turn of an
\* open project, nothing was planned for it, and its container is there.
FrozenInv ==
  \A t \in Present :
    turns[t].stage = "frozen" =>
      /\ turns[t].status = "failed" /\ ~turns[t].sent
      /\ (\A u \in Present : u <= t) /\ ~closed => kept.replan[t] = Empty /\ OwnBox(t)

\* A finalization that began before the project was closed finds no such draft.
ClosingInv ==
  closing => /\ job.turn = 0
             /\ \A t \in Present :
                  (\A u \in Present : u <= t) /\ turns[t].stage = "frozen" => closed

\* Such a draft is refused only by a job that has its turn's container.
OwnInv ==
  job.turn # 0 =>
    /\ job.row.stage = "frozen" =>
         job.kind = "run" /\ job.phase = "done" /\ ~job.row.sent /\ OwnBox(job.turn)
    /\ job.kind = "run" /\ job.phase \in {"ensured", "importing", "draft"} =>
         container.root = turns[job.turn].root /\ container.status = "running"
    /\ job.kind = "run" /\ job.phase = "draft" => OwnBox(job.turn)

KeptInv == FrozenInv /\ ClosingInv /\ OwnInv

\* What a step that changes turns may do: n is the last one; what those before it
\* hold stays, save that they may be excluded, and one more may follow.
Becomes(r, q) == /\ SameTurn(r, q) /\ r.planned = q.planned /\ (q.sent => r.sent)
                 /\ r.permitted => q.permitted
                 /\ q.excluded => r.excluded
Alike(r, q) ==
  /\ Becomes(r, q)
  /\ r.outcome = q.outcome /\ r.permitted = q.permitted /\ r.archive = q.archive
  /\ r.disputed = q.disputed /\ r.continuation = q.continuation
Stays(r, q) == Alike(r, q) /\ r.sent = q.sent /\ r.status = q.status
Fresh(r) == /\ ~r.sent /\ r.outcome = "none" /\ r.permitted /\ r.archive = Empty /\ ~r.disputed
            /\ r.status = "queued" /\ r.work = "run"
Moves(n) ==
  /\ n \in Present /\ \A u \in Present : u <= n
  /\ Present' = Present \/ (n + 1 \in Turns /\ Present' = Present \cup {n + 1})
  /\ \A u \in Present \ {n} : Stays(turns'[u], turns[u])
  /\ Becomes(turns'[n], turns[n])
  /\ n + 1 \in Present' => Fresh(turns'[n + 1])

\* Turns that are there, and where their sessions begin.
LEMMA Numbers ==
  ASSUME TurnsInv
  PROVE  /\ Present \subseteq Turns /\ Turns \subseteq Nat \ {0}
         /\ \A t \in Present : turns[t].root \in Nat /\ turns[t].root <= t /\ turns[t].root # 0
         /\ \A n \in Present, u \in Nat : u # 0 /\ u <= n => u \in Present
<1>1. Present \subseteq Turns /\ Turns \subseteq Nat \ {0}
  BY SeriesAssumption DEF Present, Turns
<1>2. \A t \in Present : turns[t].root \in Nat /\ turns[t].root <= t /\ turns[t].root # 0
  BY <1>1 DEF TurnsInv
<1>3. ASSUME NEW n \in Present, NEW u \in Nat, u # 0, u <= n PROVE u \in Present
  <2>1. u \in Turns
    BY <1>1, <1>3, SeriesAssumption DEF Turns
  <2>2. u = n \/ u < n
    BY <1>1, <1>3
  <2> QED
    BY <2>1, <2>2 DEF TurnsInv
<1> QED
  BY <1>1, <1>2, <1>3

\* A turn of a session that was over when t was asked is not of the last one's.
LEMMA OlderSession ==
  ASSUME TurnsInv, OrderInv, NEW n \in Present, \A u \in Present : u <= n,
         NEW t \in Present, NEW w \in Present, w <= t, turns[w].root # turns[t].root
  PROVE  turns[w].root # turns[n].root
<1>1. turns[w].root \in Nat /\ turns[w].root <= w /\ w \in Nat /\ t \in Nat /\ n \in Nat /\ t <= n
      /\ turns[n].root \in Nat
  BY Numbers
<1>2. CASE t = n
  BY <1>2
<1>3. CASE t # n
  <2>1. turns[n].root = turns[t].root \/ t < turns[n].root
    BY <1>1, <1>3 DEF OrderInv
  <2> QED
    BY <1>1, <2>1
<1> QED
  BY <1>2, <1>3

\* Turns of a session are added only.
LEMMA PermittedBefore ==
  ASSUME NEW n, Moves(n), NEW w \in Present, SessionPermitted(w)'
  PROVE  SessionPermitted(w)
<1> SUFFICES ASSUME NEW u \in Present, turns[u].root = turns[w].root PROVE turns[u].permitted
  BY DEF SessionPermitted, Session
<1>1. \A v \in Present : /\ v \in Present' /\ turns'[v].root = turns[v].root
                         /\ turns'[v].permitted => turns[v].permitted
  BY DEF Moves, Stays, Alike, Becomes, SameTurn
<1> QED
  BY <1>1 DEF SessionPermitted, Session

\* A session stays permitted unless the last turn's call asked for a permission.
LEMMA PermittedAfter ==
  ASSUME TurnsInv, NEW n, Moves(n), NEW w \in Present, SessionPermitted(w),
         turns[w].root # turns[n].root \/ turns'[n].permitted
  PROVE  SessionPermitted(w)'
<1>1. n \in Nat /\ n + 1 \notin Present
  BY Numbers DEF Moves
<1>2. w \in Present' /\ turns'[w].root = turns[w].root
  BY DEF Moves, Stays, Alike, Becomes, SameTurn
<1> SUFFICES ASSUME NEW u \in Present', turns'[u].root = turns[w].root PROVE turns'[u].permitted
  BY <1>2 DEF SessionPermitted, Session
<1>3. CASE u = n + 1
  BY <1>3 DEF Moves, Fresh
<1>4. CASE u \in Present
  <2>1. turns'[u].root = turns[u].root
    BY <1>4 DEF Moves, Stays, Alike, Becomes, SameTurn
  <2>2. turns[u].permitted
    BY <1>4, <2>1 DEF SessionPermitted, Session
  <2> QED
    BY <1>4, <2>1, <2>2 DEF Moves, Stays, Alike, Becomes
<1> QED
  BY <1>3, <1>4 DEF Moves

\* What counts was there, and counted, before.
LEMMA CountsBefore ==
  ASSUME TurnsInv, NEW n, Moves(n), NEW u \in Present, NEW t \in Nat, t <= n, Counts(u, t)',
         u = n => /\ turns'[n].archive = turns[n].archive
                  /\ turns'[n].disputed = turns[n].disputed
                  /\ turns'[n].continuation = turns[n].continuation
  PROVE  Counts(u, t)
<1>1. n \in Present /\ n \in Nat /\ u \in Nat
  BY Numbers DEF Moves
<1>2. /\ turns'[u].archive = turns[u].archive /\ turns'[u].disputed = turns[u].disputed
      /\ turns'[u].continuation = turns[u].continuation
      /\ turns[u].excluded => turns'[u].excluded
  BY DEF Moves, Stays, Alike, Becomes
<1>3. \A v \in (u + 1) .. t : turns'[v].planned = turns[v].planned
  <2> SUFFICES ASSUME NEW v \in (u + 1) .. t PROVE turns'[v].planned = turns[v].planned
    OBVIOUS
  <2>1. v \in Nat /\ v # 0 /\ v <= n
    BY <1>1
  <2>2. v \in Present
    BY <1>1, <2>1, Numbers
  <2> QED
    BY <2>2 DEF Moves, Stays, Alike, Becomes
<1>4. SessionPermitted(u)
  BY PermittedBefore DEF Counts
<1> QED
  BY <1>2, <1>3, <1>4 DEF Counts, DisputedReady

LEMMA HoldsAfter ==
  ASSUME TurnsInv, NEW n, Moves(n), NEW code, NEW t \in Nat, t <= n, Holds(code, t)
  PROVE  Holds(code, t)'
<1> SUFFICES ASSUME NEW u \in Present', u < t, Counts(u, t)' PROVE u \in code
  BY DEF Holds
<1>1. n \in Nat /\ n + 1 \notin Present
  BY Numbers DEF Moves
<1>2. u \in Present /\ u # n
  BY <1>1, Numbers DEF Moves
<1>3. Counts(u, t)
  BY <1>2, CountsBefore
<1> QED
  BY <1>2, <1>3 DEF Holds

LEMMA TakenAfter ==
  ASSUME TurnsInv, OrderInv, NEW n, Moves(n), NEW code, NEW t \in Present, Taken(code, t)
  PROVE  Taken(code, t)'
<1>1. n \in Present /\ t \in Nat /\ t <= n /\ \A u \in Present : u <= n
  BY Numbers DEF Moves
<1>2. Holds(code, t)'
  BY <1>1, HoldsAfter DEF Taken
<1>3. ASSUME NEW w \in code \ {0}
      PROVE  /\ w \in Present' /\ w <= t
             /\ turns'[w].root = turns'[t].root \/ SessionPermitted(w)'
  <2>1. w \in Present /\ w <= t /\ (turns[w].root = turns[t].root \/ SessionPermitted(w))
    BY DEF Taken
  <2>2. w \in Present' /\ turns'[w].root = turns[w].root /\ turns'[t].root = turns[t].root
    BY <2>1 DEF Moves, Stays, Alike, Becomes, SameTurn
  <2>3. CASE turns[w].root # turns[t].root
    <3>1. turns[w].root # turns[n].root
      BY <1>1, <2>1, <2>3, OlderSession
    <3> QED
      BY <2>1, <2>2, <2>3, <3>1, PermittedAfter
  <2> QED
    BY <2>1, <2>2, <2>3
<1> QED
  BY <1>2, <1>3 DEF Taken

\* The workspace, the copies and the snapshots while turns move.
LEMMA BoxAfter ==
  ASSUME TurnsInv, OrderInv, BoxInv, NEW n, Moves(n), container' = container,
         turns'[n].outcome # "none" /\ turns[n].root = container.root => n \in container.code,
         Drafting' => Holds(container.code, container.root),
         (turns'[n].sent => turns[n].sent) \/ Holds(container.code, container.root)
  PROVE  BoxInv'
<1>0. PICK r, code : r = container.root /\ code = container.code
  OBVIOUS
<1>1. /\ n \in Present /\ (\A u \in Present : u <= n) /\ n \in Nat /\ n + 1 \notin Present
      /\ Present \subseteq Present'
  BY Numbers DEF Moves
<1>2. r \in Nat /\ (r # 0 => r \in Present /\ turns[r].root = r)
  BY <1>0, Numbers DEF BoxInv
<1>3. \A u \in Present : /\ turns'[u].root = turns[u].root
                         /\ u # n => /\ turns'[u].outcome = turns[u].outcome
                                     /\ turns'[u].sent <=> turns[u].sent
  BY DEF Moves, Stays, Alike, Becomes, SameTurn
<1>4. r = 0 \/ (r \in Present' /\ turns'[r].root = r)
  BY <1>1, <1>2, <1>3
<1>5. ASSUME NEW w \in Present, w < r, SessionPermitted(w) PROVE SessionPermitted(w)'
  <2>1. w \in Nat /\ turns[w].root \in Nat /\ turns[w].root <= w /\ r # 0 /\ w <= r
        /\ turns[w].root # r
    BY <1>2, <1>5, Numbers
  <2>2. turns[w].root # turns[n].root
    BY <1>1, <1>2, <2>1, OlderSession
  <2> QED
    BY <1>5, <2>2, PermittedAfter
<1>6. \A w \in code \ {0} :
        w \in Present' /\ (turns'[w].root = r \/ (w < r /\ SessionPermitted(w)'))
  BY <1>0, <1>1, <1>3, <1>5 DEF BoxInv
<1>7. \A w \in container.from \ {0} : w \in Present' /\ w < r /\ SessionPermitted(w)'
  BY <1>0, <1>1, <1>5 DEF BoxInv
<1>8. Holds(code, r) => Holds(code, r)'
  <2>1. r <= n
    BY <1>1, <1>2
  <2> QED
    BY <1>1, <1>2, <2>1, HoldsAfter
<1>9. \/ container.imported \/ \E u \in Present' : turns'[u].root = r /\ turns'[u].sent
      \/ Drafting'
      => Holds(code, r)
  <2>1. \A u \in Present' : turns'[u].sent => u \in Present
    BY DEF Moves, Fresh
  <2>2. Holds(container.code, container.root) => Holds(code, r)
    BY <1>0
  <2>3. CASE turns'[n].sent => turns[n].sent
    <3>1. \A u \in Present' : turns'[u].root = r /\ turns'[u].sent
                              => u \in Present /\ turns[u].root = r /\ turns[u].sent
      BY <1>3, <2>1, <2>3
    <3> QED
      BY <1>0, <2>2, <3>1 DEF BoxInv
  <2> QED
    BY <2>2, <2>3
<1>10. \A u \in Present' : turns'[u].root = r /\ turns'[u].outcome # "none"
                             => u \in code
  <2>1. \A u \in Present' : turns'[u].outcome # "none" => u \in Present
    BY DEF Moves, Fresh
  <2> QED
    BY <1>0, <1>3, <2>1 DEF BoxInv
<1>11. container'.root = r /\ container'.code = code
  BY <1>0
<1>12. container.imported => Whole(code) \/ ~Whole(container.from)
  BY <1>0 DEF BoxInv
<1>13. container = [root |-> container.root, status |-> container.status,
                    code |-> container.code, from |-> container.from,
                    imported |-> container.imported]
  BY DEF BoxInv
<1> QED
  BY <1>4, <1>6, <1>7, <1>8, <1>9, <1>10, <1>11, <1>12, <1>13 DEF BoxInv, Whole

LEMMA CopiesAfter ==
  ASSUME TurnsInv, OrderInv, CopiesInv, NEW n, Moves(n), kept' = kept,
         turns'[n].archive # Empty => Taken(turns'[n].archive, n),
         DisputedReady(n)' => kept.retained[n] # Empty
  PROVE  CopiesInv'
<1>1. n \in Present /\ n \in Nat /\ n + 1 \notin Present /\ Present \subseteq Present'
      /\ Present \subseteq Turns
  BY Numbers DEF Moves
<1>2. \A t \in Turns \ Present' : kept.replan[t] = Empty /\ kept.retained[t] = Empty
  BY <1>1 DEF CopiesInv
<1>3. ASSUME NEW t \in Present
      PROVE  CopiesOf(t)'
  <2>1. kept.retained[t] # Empty => Taken(kept.retained[t], t)
    BY DEF CopiesInv, CopiesOf
  <2>2. turns'[t].archive # Empty => Taken(turns'[t].archive, t)
    BY DEF CopiesInv, CopiesOf, Moves, Stays, Alike, Becomes
  <2>3. DisputedReady(t)' => kept.retained[t] # Empty
    <3>1. t # n => (DisputedReady(t)' => DisputedReady(t))
      BY DEF DisputedReady, Moves, Stays, Alike, Becomes
    <3> QED
      BY <3>1 DEF CopiesInv, CopiesOf
  <2>4. \A code : Taken(code, t) => Taken(code, t)'
    BY TakenAfter
  <2> QED
    BY <2>1, <2>2, <2>3, <2>4 DEF CopiesOf
<1>4. ASSUME NEW t \in Present', t \notin Present
      PROVE  CopiesOf(t)'
  <2>1. t = n + 1 /\ t \in Turns
    BY <1>4 DEF Moves
  <2> QED
    BY <1>4, <2>1 DEF Moves, Fresh, DisputedReady, CopiesInv, CopiesOf
<1>5. \A t \in Present' : CopiesOf(t)'
  BY <1>3, <1>4
<1> QED
  BY <1>2, <1>5 DEF CopiesInv

LEMMA SnapshotsAfter ==
  ASSUME TurnsInv, OrderInv, CopiesInv, SnapshotsInv, NEW n, Moves(n), kept' = kept,
         kept.replan[n] # Empty =>
           /\ turns'[n].permitted = turns[n].permitted /\ turns'[n].archive = turns[n].archive
           /\ n + 1 \notin Present' => ToReplan(turns'[n])
  PROVE  SnapshotsInv'
<1>1. /\ n \in Present /\ (\A u \in Present : u <= n) /\ n \in Nat /\ n + 1 \notin Present
      /\ Present \subseteq Present' /\ Present \subseteq Nat
  BY Numbers DEF Moves
<1>2. ASSUME NEW t \in Present', t \notin Present PROVE kept.replan[t] = Empty
  <2>1. t \in Turns
    BY <1>2 DEF Moves
  <2> QED
    BY <1>2, <2>1 DEF CopiesInv
<1>3. ASSUME NEW t \in Present, kept.replan[t] # Empty,
             t + 1 \in Present' => turns'[t + 1].planned # 0
      PROVE  /\ \A u \in Present' : /\ u <= t /\ ~turns'[u].excluded /\ SessionPermitted(u)'
                                    /\ turns'[u].archive # Empty
                                    => u \in kept.replan[t]
             /\ \A w \in kept.replan[t] \ {0} :
                  w \in Present' /\ w <= t /\ SessionPermitted(w)'
  <2>1. t + 1 \in Present => turns[t + 1].planned # 0
    BY <1>1, <1>3 DEF Moves, Stays, Alike, Becomes
  <2>2. \A u \in Present : /\ u <= t /\ ~turns[u].excluded /\ SessionPermitted(u)
                           /\ turns[u].archive # Empty
                           => u \in kept.replan[t]
    BY <1>3, <2>1 DEF SnapshotsInv
  <2>3. \A w \in kept.replan[t] \ {0} : w \in Present /\ w <= t /\ SessionPermitted(w)
    BY <1>3, <2>1 DEF SnapshotsInv
  <2>4. ASSUME NEW u \in Present', u <= t, ~turns'[u].excluded, SessionPermitted(u)',
               turns'[u].archive # Empty
        PROVE  u \in kept.replan[t]
    <3>1. u \in Present
      BY <1>1, <2>4 DEF Moves, Fresh
    <3>2. ~turns[u].excluded /\ turns'[u].archive = turns[u].archive
      <4>1. u = n => t = n
        BY <1>1, <2>4
      <4> QED
        BY <1>3, <2>4, <3>1, <4>1 DEF Moves, Stays, Alike, Becomes
    <3> QED
      BY <2>2, <2>4, <3>1, <3>2, PermittedBefore
  <2>5. ASSUME NEW w \in kept.replan[t] \ {0}
        PROVE  w \in Present' /\ w <= t /\ SessionPermitted(w)'
    <3>1. w \in Present /\ w <= t /\ SessionPermitted(w) /\ w \in Nat
      BY <1>1, <2>3
    <3>2. CASE turns[w].root = turns[n].root /\ t = n
      <4>1. turns[n].permitted
        BY <1>1, <3>1, <3>2 DEF SessionPermitted, Session
      <4> QED
        BY <1>1, <1>3, <3>1, <3>2, <4>1, PermittedAfter
    <3>3. CASE t # n
      <4>1. t \in Nat /\ t < n
        BY <1>1, <3>3
      <4>2. t + 1 \in Present
        BY <1>1, <4>1, Numbers
      <4>3. turns[t + 1].root = t + 1
        BY <2>1, <4>2 DEF OrderInv
      <4>4. turns[w].root \in Nat /\ turns[w].root <= w
        BY <3>1, Numbers
      <4>5. w <= t + 1 /\ turns[w].root # turns[t + 1].root
        BY <3>1, <4>1, <4>3, <4>4
      <4>6. turns[w].root # turns[n].root
        BY <1>1, <3>1, <4>2, <4>5, OlderSession
      <4> QED
        BY <1>1, <3>1, <4>6, PermittedAfter
    <3> QED
      BY <1>1, <3>1, <3>2, <3>3, PermittedAfter
  <2> QED
    BY <2>4, <2>5
<1>4. ASSUME NEW t \in Present, kept.replan[t] # Empty, t + 1 \notin Present'
      PROVE  ToReplan(turns'[t])
  <2>1. t = n
    <3>1. t \in Nat /\ t <= n /\ t + 1 \notin Present
      BY <1>1, <1>4
    <3>2. ~(t < n)
      BY <1>1, <3>1, Numbers
    <3> QED
      BY <1>1, <3>1, <3>2
  <2> QED
    BY <1>4, <2>1
<1> QED
  BY <1>2, <1>3, <1>4 DEF SnapshotsInv, ToReplan, Active

LEMMA OrderAfter ==
  ASSUME TurnsInv, OrderInv, NEW n, Moves(n), kept' = kept,
         \A t \in Turns : Grounded(turns'[t]),
         n + 1 \in Present' =>
           /\ turns'[n + 1].planned # 0 => turns'[n + 1].planned = n /\ kept.replan[n] # Empty
           /\ Independent(turns'[n + 1]) => turns'[n + 1].root = n + 1
           /\ ~Independent(turns'[n + 1]) =>
                /\ turns'[n].sent /\ turns'[n + 1].root = turns[n].root
                /\ turns'[n + 1].planned = 0
                /\ SessionPermitted(n) /\ turns'[n].permitted
  PROVE  OrderInv'
<1>1. /\ n \in Present /\ (\A u \in Present : u <= n) /\ n \in Nat /\ n + 1 \notin Present
      /\ Present \subseteq Present' /\ Present \subseteq Nat \ {0}
      /\ \A u \in Present' : u \in Present \/ u = n + 1
  BY Numbers DEF Moves
<1>2. \A u \in Present : /\ SameTurn(turns'[u], turns[u]) /\ turns'[u].root = turns[u].root
                         /\ Independent(turns'[u]) <=> Independent(turns[u])
                         /\ turns'[u].planned = turns[u].planned
                         /\ turns[u].sent => turns'[u].sent
  BY DEF Moves, Stays, Alike, Becomes, SameTurn, Independent
<1>3. ASSUME NEW u \in Present', NEW v \in Present', u < v
      PROVE  turns'[v].root = turns'[u].root \/ u < turns'[v].root
  <2>1. u \in Present /\ u \in Nat /\ u <= n
    BY <1>1, <1>3
  <2>2. CASE v \in Present
    BY <1>2, <1>3, <2>1, <2>2 DEF OrderInv
  <2>3. CASE v = n + 1
    <3>1. turns[n].root = turns[u].root \/ u < turns[n].root
      BY <1>1, <2>1 DEF OrderInv
    <3>2. turns'[v].root = n + 1 \/ turns'[v].root = turns[n].root
      BY <1>3, <2>3
    <3> QED
      BY <1>1, <1>2, <2>1, <3>1, <3>2
  <2> QED
    BY <1>1, <2>2, <2>3
<1>4. ASSUME NEW t \in Present
      PROVE  /\ Independent(turns'[t]) => turns'[t].root = t
             /\ ~Independent(turns'[t]) => /\ t - 1 \in Present' /\ turns'[t - 1].sent
                                           /\ turns'[t - 1].root = turns'[t].root
                                           /\ turns'[t].planned = 0
                                           /\ ~turns'[t].sent /\ t + 1 \notin Present'
                                                => SessionPermitted(t)'
             /\ turns'[t].planned # 0 => /\ turns'[t].planned = t - 1 /\ t - 1 \in Present'
                                         /\ kept.replan[t - 1] # Empty
  <2>1. /\ Independent(turns[t]) => turns[t].root = t
        /\ ~Independent(turns[t]) => /\ t - 1 \in Present /\ turns[t - 1].sent
                                     /\ turns[t - 1].root = turns[t].root
                                     /\ turns[t].planned = 0
                                     /\ ~turns[t].sent /\ t + 1 \notin Present
                                          => SessionPermitted(t)
        /\ turns[t].planned # 0 => /\ turns[t].planned = t - 1 /\ t - 1 \in Present
                                   /\ kept.replan[t - 1] # Empty
    BY DEF OrderInv
  <2>2. ASSUME ~turns'[t].sent, t + 1 \notin Present', SessionPermitted(t)
        PROVE  SessionPermitted(t)'
    <3>1. t = n
      <4>1. t \in Nat /\ t <= n /\ t + 1 \notin Present
        BY <1>1, <2>2
      <4>2. ~(t < n)
        BY <1>1, <4>1, Numbers
      <4> QED
        BY <1>1, <4>1, <4>2
    <3>2. turns'[n].permitted
      <4>1. Grounded(turns'[n])
        BY Numbers, <1>1
      <4> QED
        BY <2>2, <3>1, <4>1 DEF Grounded
    <3> QED
      BY <2>2, <3>2, PermittedAfter
  <2> QED
    BY <1>1, <1>2, <2>1, <2>2
<1>5. ASSUME n + 1 \in Present'
      PROVE  /\ Independent(turns'[n + 1]) => turns'[n + 1].root = n + 1
             /\ ~Independent(turns'[n + 1]) =>
                  /\ n \in Present' /\ turns'[n].sent /\ turns'[n].root = turns'[n + 1].root
                  /\ turns'[n + 1].planned = 0 /\ SessionPermitted(n + 1)'
             /\ turns'[n + 1].planned # 0 => /\ turns'[n + 1].planned = n
                                             /\ kept.replan[n] # Empty
  <2>1. ASSUME ~Independent(turns'[n + 1]) PROVE SessionPermitted(n + 1)'
    <3>1. SessionPermitted(n)'
      BY <1>1, <1>5, <2>1, PermittedAfter
    <3>2. turns'[n].root = turns'[n + 1].root
      BY <1>1, <1>2, <1>5, <2>1
    <3> QED
      BY <3>1, <3>2 DEF SessionPermitted, Session
  <2> QED
    BY <1>1, <1>2, <1>5, <2>1
<1>6. n + 1 - 1 = n
  BY <1>1
<1>7. \A t \in Present' :
        /\ Independent(turns'[t]) => turns'[t].root = t
        /\ ~Independent(turns'[t]) => /\ t - 1 \in Present' /\ turns'[t - 1].sent
                                      /\ turns'[t - 1].root = turns'[t].root
                                      /\ turns'[t].planned = 0
                                      /\ ~turns'[t].sent /\ t + 1 \notin Present'
                                           => SessionPermitted(t)'
        /\ turns'[t].planned # 0 => /\ turns'[t].planned = t - 1 /\ t - 1 \in Present'
                                    /\ kept.replan[t - 1] # Empty
  <2> SUFFICES ASSUME NEW t \in Present'
               PROVE  /\ Independent(turns'[t]) => turns'[t].root = t
                      /\ ~Independent(turns'[t]) => /\ t - 1 \in Present' /\ turns'[t - 1].sent
                                                    /\ turns'[t - 1].root = turns'[t].root
                                                    /\ turns'[t].planned = 0
                                                    /\ ~turns'[t].sent /\ t + 1 \notin Present'
                                                         => SessionPermitted(t)'
                      /\ turns'[t].planned # 0 => /\ turns'[t].planned = t - 1
                                                  /\ t - 1 \in Present'
                                                  /\ kept.replan[t - 1] # Empty
    OBVIOUS
  <2>1. CASE t \in Present
    BY <2>1, <1>4
  <2>2. CASE t = n + 1
    BY <1>1, <2>2, <1>5, <1>6
  <2> QED
    BY <1>1, <2>1, <2>2
<1> QED
  BY <1>3, <1>7 DEF OrderInv, Independent

\* Only Send sends.
NoneSent == \A u \in Present : turns'[u].sent => turns[u].sent

\* A step that changes one turn but not what it holds.
LEMMA TurnSettles ==
  ASSUME SInv, CodeInv, NEW t \in Present, NEW r, turns' = [turns EXCEPT ![t] = r],
         Alike(r, turns[t]), Grounded(r), r.status # "absent",
         (\A u \in Present : u <= t) \/ Stays(r, turns[t]),
         t + 1 \notin Present /\ kept.replan[t] # Empty => ToReplan(r),
         kept' = kept, container' = container,
         Drafting' => Holds(container.code, container.root),
         (r.sent => turns[t].sent) \/ Holds(container.code, container.root)
  PROVE  /\ Present' = Present /\ Moves(Last)
         /\ OrderInv' /\ CopiesInv' /\ SnapshotsInv' /\ BoxInv'
         /\ (r.sent => turns[t].sent) => NoneSent
<1>1. TurnsInv /\ OrderInv /\ CopiesInv /\ SnapshotsInv /\ BoxInv
  BY DEF SInv, CodeInv
<1>2. PICK n : n = Last
  OBVIOUS
<1>3. /\ n \in Present /\ (\A u \in Present : u <= n) /\ n \in Nat /\ n + 1 \notin Present
      /\ Present \subseteq Turns /\ t \in Nat
  BY <1>1, <1>2, LastTurn, Numbers
<1>4. turns'[t] = r /\ \A u \in Turns \ {t} : turns'[u] = turns[u]
  BY <1>1, <1>3 DEF TurnsInv
<1>5. Present' = Present
  BY <1>3, <1>4 DEF Present
<1>6. \A u \in Present \ {t} : Stays(turns'[u], turns[u])
  BY <1>3, <1>4 DEF Stays, Alike, Becomes, SameTurn
<1>7. t # n => Stays(r, turns[t])
  BY <1>3
<1>8. Alike(turns'[n], turns[n])
  BY <1>3, <1>4, <1>6 DEF Stays
<1>9. Moves(n)
  BY <1>3, <1>4, <1>5, <1>6, <1>7, <1>8 DEF Moves, Alike
<1>10. /\ turns'[n].outcome = turns[n].outcome /\ turns'[n].permitted = turns[n].permitted
       /\ turns'[n].archive = turns[n].archive
  BY <1>8 DEF Alike
<1>11. BoxInv'
  <2>1. (turns'[n].sent => turns[n].sent) \/ Holds(container.code, container.root)
    BY <1>3, <1>4
  <2>2. turns'[n].outcome # "none" /\ turns[n].root = container.root => n \in container.code
    BY <1>1, <1>3, <1>10 DEF BoxInv
  <2> QED
    BY <1>1, <1>9, <2>1, <2>2, BoxAfter
<1>12. CopiesInv'
  <2>1. turns'[n].archive # Empty => Taken(turns'[n].archive, n)
    BY <1>1, <1>3, <1>10 DEF CopiesInv, CopiesOf
  <2>2. DisputedReady(n)' => kept.retained[n] # Empty
    BY <1>1, <1>3, <1>8 DEF CopiesInv, CopiesOf, DisputedReady, Alike
  <2> QED
    BY <1>1, <1>9, <2>1, <2>2, CopiesAfter
<1>13. SnapshotsInv'
  <2>1. kept.replan[n] # Empty => ToReplan(turns'[n])
    BY <1>1, <1>3, <1>4 DEF SnapshotsInv
  <2> QED
    BY <1>1, <1>9, <1>10, <2>1, SnapshotsAfter
<1>14. OrderInv'
  <2>1. \A u \in Turns : Grounded(turns'[u])
    BY <1>1, <1>4 DEF OrderInv
  <2> QED
    BY <1>1, <1>3, <1>5, <1>9, <2>1, OrderAfter
<1>15. (r.sent => turns[t].sent) => NoneSent
  BY <1>4, <1>6 DEF NoneSent, Stays
<1> QED
  BY <1>2, <1>5, <1>9, <1>11, <1>12, <1>13, <1>14, <1>15

\* A turn that is queued, taken up or given up again.
Shifted(x, q, s, w, b) ==
  /\ Alike(x, q) /\ x.sent = q.sent /\ x.recovery = q.recovery
  /\ x.status = s /\ x.work = w /\ x.back = b

LEMMA RowsShift ==
  ASSUME NEW q, IsRow(q), NEW s \in Statuses, NEW w, NEW b, NEW l
  PROVE  /\ Shifted([q EXCEPT !.status = s], q, s, q.work, q.back)
         /\ Shifted([q EXCEPT !.status = s, !.stage = l], q, s, q.work, q.back)
         /\ Shifted([q EXCEPT !.status = s, !.work = w], q, s, w, q.back)
         /\ Shifted([q EXCEPT !.status = s, !.work = w, !.tries = @ + 1], q, s, w, q.back)
         /\ Shifted([q EXCEPT !.status = s, !.work = w, !.back = b], q, s, w, b)
         /\ Shifted([q EXCEPT !.status = s, !.work = w, !.stage = l, !.back = b], q, s, w, b)
<1>1. Shifted([q EXCEPT !.status = s], q, s, q.work, q.back)
  BY DEF IsRow, Shifted, Alike, Becomes, SameTurn
<1>2. Shifted([q EXCEPT !.status = s, !.stage = l], q, s, q.work, q.back)
  BY DEF IsRow, Shifted, Alike, Becomes, SameTurn
<1>3. Shifted([q EXCEPT !.status = s, !.work = w], q, s, w, q.back)
  BY DEF IsRow, Shifted, Alike, Becomes, SameTurn
<1>4. Shifted([q EXCEPT !.status = s, !.work = w, !.tries = @ + 1], q, s, w, q.back)
  BY DEF IsRow, Shifted, Alike, Becomes, SameTurn
<1>5. Shifted([q EXCEPT !.status = s, !.work = w, !.back = b], q, s, w, b)
  BY DEF IsRow, Shifted, Alike, Becomes, SameTurn
<1>6. Shifted([q EXCEPT !.status = s, !.work = w, !.stage = l, !.back = b], q, s, w, b)
  BY DEF IsRow, Shifted, Alike, Becomes, SameTurn
<1> QED
  BY <1>1, <1>2, <1>3, <1>4, <1>5, <1>6

LEMMA ShiftGrounds ==
  ASSUME NEW x, NEW q, NEW s \in Statuses, NEW w, NEW b, Shifted(x, q, s, w, b), Grounded(q),
         q.archive # Empty => s \in Active,
         s # "review",
         s \in Active => /\ w = "run" => q.outcome = "none" /\ (s = "queued" => ~q.sent)
                         /\ w = "plan" => q.archive # Empty
                         /\ w = "dispute" => q.disputed,
         w = "replan" => (b = "review" <=> q.archive # Empty)
  PROVE  Grounded(x)
BY DEF Grounded, Shifted, Alike, Becomes

\* The last turn, while no job runs.
LEMMA IdleLast ==
  ASSUME SInv, CodeInv, ~Pending
  PROVE  /\ Last \in Present /\ (\A u \in Present : u <= Last) /\ Last + 1 \notin Present
         /\ IsRow(turns[Last]) /\ Grounded(turns[Last]) /\ turns[Last].status \notin Active
         /\ job.turn = 0 /\ turns = [u \in Turns |-> turns[u]]
<1>1. TurnsInv /\ OrderInv
  BY DEF SInv, CodeInv
<1>2. Last \in Present /\ \A u \in Present : u <= Last
  BY <1>1, LastTurn
<1>3. Last \in Turns /\ Last \in Nat
  BY <1>1, <1>2, Numbers
<1> QED
  BY <1>1, <1>2, <1>3, NothingRuns DEF TurnsInv, OrderInv

\* The last turn is queued again: not as a draft if it was planned for.
LEMMA RequeueKeeps ==
  ASSUME SInv, CodeInv, ~Pending, NEW r, NEW w, NEW b, turns' = [turns EXCEPT ![Last] = r],
         Shifted(r, turns[Last], "queued", w, b), w \in {"run", "plan", "dispute", "replan"},
         job' = job, kept' = kept,
         container' = container,
         w = "run" => /\ turns[Last].status = "failed" /\ ~turns[Last].sent
                      /\ ~turns[Last].disputed
                      /\ \/ turns[Last].recovery.state # "blocked" /\ turns[Last].work # "replan"
                         \/ kept.replan[Last] = Empty,
         w = "plan" => turns[Last].archive # Empty,
         w = "dispute" => turns[Last].disputed,
         w = "replan" => (b = "review" <=> turns[Last].archive # Empty)
  PROVE  CodeInv' /\ NoneSent
<1>1. PICK n : n = Last
  OBVIOUS
<1>2. /\ n \in Present /\ (\A u \in Present : u <= n) /\ n + 1 \notin Present
      /\ Grounded(turns[n]) /\ turns[n].status \notin Active /\ job.turn = 0
  BY <1>1, IdleLast
<1>3. Alike(r, turns[n]) /\ r.sent = turns[n].sent /\ r.status # "absent"
  BY <1>1 DEF Shifted
<1>4. Grounded(r)
  <2>1. w = "run" => turns[n].outcome = "none"
    BY <1>1, <1>2 DEF Grounded
  <2> QED
    BY <1>1, <1>2, <2>1, ShiftGrounds DEF Statuses, Active
<1>5. kept.replan[n] # Empty => ToReplan(r)
  <2> SUFFICES ASSUME kept.replan[n] # Empty PROVE ToReplan(r)
    OBVIOUS
  <2>1. ToReplan(turns[n])
    BY <1>2 DEF CodeInv, SnapshotsInv
  <2>2. w \in {"run", "plan", "dispute", "replan"}
    OBVIOUS
  <2>3. turns[n].archive # Empty /\ turns[n].status \notin Active => turns[n].work = "run"
    BY <1>2 DEF Grounded
  <2> QED
    BY <1>1, <1>2, <2>1, <2>2, <2>3 DEF ToReplan, Shifted, Alike, Active
<1>6. OrderInv' /\ CopiesInv' /\ SnapshotsInv' /\ BoxInv' /\ NoneSent
  BY <1>1, <1>2, <1>3, <1>4, <1>5, TurnSettles DEF Drafting
<1> QED
  BY <1>2, <1>6 DEF CodeInv, WorkInv

LEMMA RowRequeued ==
  ASSUME NEW q, IsRow(q), NEW w, NEW b, NEW l
  PROVE  Shifted(Requeued(q, w, l, b), q, "queued", w, b)
BY DEF Requeued, IsRow, Shifted, Alike, Becomes, SameTurn

LEMMA RowPlannedAgain ==
  ASSUME NEW q, IsRow(q)
  PROVE  Shifted(PlannedAgain(q), q, "queued", "plan", q.back)
BY DEF PlannedAgain, IsRow, Shifted, Alike, Becomes, SameTurn

LEMMA RetriesSettle ==
  ASSUME SInv, CodeInv, KeptInv, Retry \/ RetryPlan
  PROVE  CodeInv' /\ NoneSent
<1> DEFINE t == Last
<1>1. ~Pending /\ job' = job /\ kept' = kept /\ container' = container
  BY DEF Retry, RetryPlan, disk
<1>2. /\ t \in Present /\ IsRow(turns[t]) /\ Grounded(turns[t])
      /\ turns = [u \in Turns |-> turns[u]] /\ t \in Turns
  BY <1>1, IdleLast DEF Present
<1>3. CASE Retry
  <2> DEFINE r == turns[t]
             prepares == FrozenPreparation(t) /\ ~ClosedRepairDraft(t, known)
             anew == \/ ClosedRepairDraft(t, known)
                     \/ r.recovery.state = "blocked" /\ ~r.disputed /\ ~prepares
             planning == anew \/ (r.work = "replan" /\ ~prepares)
             w == IF planning THEN "replan" ELSE IF r.disputed THEN "dispute" ELSE "run"
             l == IF anew THEN r.stage ELSE "draft"
             b == IF anew THEN r.status ELSE r.back
             x == Requeued(r, w, l, b)
  <2>1. /\ turns' = [turns EXCEPT ![t] = x]
        /\ \/ r.status = "failed" /\ (~r.sent \/ r.disputed \/ planning)
           \/ r.status = "review" /\ r.recovery.state = "blocked"
        /\ ~closed
    BY <1>3 DEF Retry, Requeued
  <2>2. w = "run" => /\ r.status = "failed" /\ ~r.sent /\ ~r.disputed
                     /\ \/ r.recovery.state # "blocked" /\ r.work # "replan"
                        \/ kept.replan[t] = Empty
    <3>1. prepares => r.stage = "frozen"
      BY DEF FrozenPreparation
    <3>2. (\A u \in Present : u <= t) /\ (r.stage = "frozen" => kept.replan[t] = Empty)
      BY <1>1, <1>2, <2>1, IdleLast DEF KeptInv, FrozenInv
    <3>3. r.status = "review" => ~prepares
      BY DEF FrozenPreparation, UnsentFailure
    <3> HIDE DEF prepares
    <3> QED
      BY <2>1, <3>1, <3>2, <3>3
  <2>3. w = "dispute" => r.disputed
    OBVIOUS
  <2>4. w = "replan" => (b = "review" <=> r.archive # Empty)
    BY <1>2, <2>1 DEF Grounded, Active
  <2>5. turns' = [turns EXCEPT ![t] = x]
    BY <2>1
  <2>6. Shifted(x, r, "queued", w, b)
    <3> HIDE DEF w, l, b, t
    <3> QED
      BY <1>2, RowRequeued
  <2>7. w \in {"run", "dispute", "replan"}
    OBVIOUS
  <2> HIDE DEF w, b, x
  <2> QED
    BY <1>1, <2>2, <2>3, <2>4, <2>5, <2>6, <2>7, RequeueKeeps
<1>4. CASE RetryPlan
  <2> DEFINE x == PlannedAgain(turns[t])
  <2>1. turns[t].status = "review" /\ turns' = [turns EXCEPT ![t] = x]
    BY <1>4 DEF RetryPlan, PlannedAgain
  <2>2. Shifted(x, turns[t], "queued", "plan", turns[t].back)
    <3> HIDE DEF t
    <3> QED
      BY <1>2, RowPlannedAgain
  <2>3. turns[t].archive # Empty
    BY <1>2, <2>1 DEF Grounded
  <2>4. PICK w, b : w = "plan" /\ b = turns[t].back
    OBVIOUS
  <2> HIDE DEF x
  <2>5. Shifted(x, turns[Last], "queued", w, b)
    BY <2>2, <2>4
  <2>6. /\ w \in {"run", "plan", "dispute", "replan"} /\ turns[Last].archive # Empty
        /\ w # "run" /\ w # "dispute" /\ w # "replan" /\ turns' = [turns EXCEPT ![Last] = x]
    BY <2>1, <2>3, <2>4
  <2> QED
    BY <1>1, <2>5, <2>6, RequeueKeeps
<1> QED
  BY <1>3, <1>4

LEMMA ClaimSettles ==
  ASSUME SInv, CodeInv, NEW t \in Present, Claim(t)
  PROVE  CodeInv' /\ NoneSent
<1>1. /\ TurnsInv /\ OrderInv /\ t \in Turns /\ t # 0 /\ t \in Nat
      /\ IsRow(turns[t]) /\ Grounded(turns[t]) /\ turns = [u \in Turns |-> turns[u]]
  <2>1. TurnsInv /\ OrderInv
    BY DEF SInv, CodeInv
  <2>2. t \in Turns /\ t # 0 /\ t \in Nat
    BY <2>1, Numbers
  <2> QED
    BY <2>1, <2>2 DEF TurnsInv, OrderInv
<1> DEFINE queued == [turns[t] EXCEPT !.status = "running"]
           again == [turns[t] EXCEPT !.status = "running", !.work = "dispute", !.tries = @ + 1]
           replan == [turns[t] EXCEPT !.status = "running", !.work = "replan",
                                      !.back = turns[t].status]
           Claims(c) ==
             /\ turns' = [turns EXCEPT ![t] = c]
             /\ job' = [NoJob EXCEPT !.turn = t, !.kind = c.work, !.phase = "begun",
                                     !.row = c, !.inputs = Conditions]
<1>2. \/ turns[t].status = "queued" /\ Claims(queued)
      \/ RetriesItself(t) /\ Claims(again)
      \/ Due(t) /\ Claims(replan)
  <2>1. CASE turns[t].status = "queued"
    BY <2>1 DEF Claim, RetriesItself
  <2>2. CASE turns[t].status # "queued" /\ RetriesItself(t)
    BY <2>2 DEF Claim
  <2>3. CASE turns[t].status # "queued" /\ ~RetriesItself(t)
    BY <2>3 DEF Claim
  <2> QED
    BY <2>1, <2>2, <2>3
<1>3. (\A u \in Present : u <= t) /\ kept' = kept /\ container' = container
  <2>1. CASE turns[t].status = "queued"
    <3> SUFFICES ASSUME NEW u \in Present, t < u PROVE FALSE
      BY SeriesAssumption DEF Present, Turns, Claim, disk
    <3> QED
      BY <1>1, <2>1 DEF TurnsInv, Active
  <2>2. CASE t = Last
    BY <1>1, <2>2, LastTurn DEF Claim, disk
  <2> HIDE DEF Claims
  <2> QED
    BY <1>2, <2>1, <2>2 DEF RetriesItself, Due
<1>4. ASSUME NEW c, NEW w \in {"run", "plan", "dispute", "replan"}, NEW b, Claims(c),
             Shifted(c, turns[t], "running", w, b),
             /\ w = "run" => turns[t].outcome = "none" /\ ~turns[t].sent
             /\ w = "plan" => turns[t].archive # Empty
             /\ w = "dispute" => turns[t].disputed
             /\ w = "replan" => (b = "review" <=> turns[t].archive # Empty),
             kept.replan[t] # Empty => ToReplan(c)
      PROVE  CodeInv' /\ NoneSent
  <2>1. Grounded(c) /\ c.status # "absent" /\ c.work = w
    <3>1. Grounded(c)
      BY <1>1, <1>4, ShiftGrounds DEF Statuses, Active
    <3> QED
      BY <1>4, <3>1 DEF Shifted
  <2>2. Alike(c, turns[t]) /\ c.sent = turns[t].sent
    BY <1>4 DEF Shifted
  <2>3. /\ job'.turn = t /\ job'.row = c /\ job'.kind = w /\ job'.phase = "begun"
        /\ ~job'.ok /\ turns' = [turns EXCEPT ![t] = c]
    BY <1>4, <2>1 DEF NoJob
  <2>4. ~Drafting'
    BY <2>3 DEF Drafting
  <2>5. /\ Present' = Present /\ NoneSent
        /\ OrderInv' /\ CopiesInv' /\ SnapshotsInv' /\ BoxInv'
    BY <1>3, <1>4, <2>1, <2>2, <2>3, <2>4, TurnSettles
  <2>6. turns'[t] = c
    BY <1>1, <2>3
  <2>7. w # "replan" => ResultInv'
    <3> SUFFICES ASSUME w # "replan" PROVE ResultInv'
      OBVIOUS
    <3>1. c.permitted /\ c.archive = turns[t].archive /\ c.disputed = turns[t].disputed
      BY <1>1, <1>4, <2>2 DEF Grounded, Alike
    <3>2. c.outcome # "none" => c.sent /\ (container'.root = c.root => t \in container'.code)
      BY <2>1, <2>5, <2>6 DEF Grounded, BoxInv
    <3>3. CopiesOf(t)'
      BY <2>5 DEF CopiesInv
    <3>4. c.archive # Empty => Taken(c.archive, t)'
      <4>1. (turns[t].archive # Empty => Taken(turns[t].archive, t))'
        BY <3>3 DEF CopiesOf
      <4> QED
        BY <2>6, <4>1
    <3>5. c.disputed /\ c.continuation.state \in {"ready", "planned", "continued"}
            => kept'.retained[t] # Empty
      BY <2>6, <3>3 DEF CopiesOf, DisputedReady
    <3> QED
      BY <2>1, <2>3, <2>6, <3>1, <3>2, <3>4, <3>5 DEF ResultInv, Grounded
  <2>8. PhaseInv'
    BY <1>1, <1>4, <2>1, <2>2, <2>3, <2>6 DEF PhaseInv, Grounded, Alike
  <2>9. WorkInv'
    BY <1>4, <2>1, <2>2, <2>3, <2>6, <2>7, <2>8 DEF WorkInv, Grounded, Alike
  <2> QED
    BY <2>5, <2>9 DEF CodeInv
<1>5. kept.replan[t] # Empty => ToReplan(turns[t])
  <2>1. t + 1 \notin Present
    BY <1>1, <1>3
  <2> QED
    BY <2>1 DEF CodeInv, SnapshotsInv
<1>6. CASE turns[t].status = "queued" /\ Claims(queued)
  <2>1. Shifted(queued, turns[t], "running", turns[t].work, turns[t].back)
    BY <1>1, RowsShift DEF Statuses
  <2>2. turns[t].work \in {"run", "plan", "dispute", "replan"}
    BY <1>1 DEF IsRow
  <2> HIDE DEF queued, Claims
  <2>3. kept.replan[t] # Empty => ToReplan(queued)
    BY <1>5, <1>6, <2>1 DEF ToReplan, Shifted, Alike, Active
  <2>4. /\ turns[t].work = "run" => turns[t].outcome = "none" /\ ~turns[t].sent
        /\ turns[t].work = "plan" => turns[t].archive # Empty
        /\ turns[t].work = "dispute" => turns[t].disputed
        /\ turns[t].work = "replan" => (turns[t].back = "review" <=> turns[t].archive # Empty)
    BY <1>1, <1>6 DEF Grounded, Active
  <2> QED
    BY <1>4, <1>6, <2>1, <2>2, <2>3, <2>4
<1>7. CASE RetriesItself(t) /\ Claims(again)
  <2>1. Shifted(again, turns[t], "running", "dispute", turns[t].back)
    BY <1>1, RowsShift DEF Statuses
  <2>2. turns[t].disputed
    BY <1>7 DEF RetriesItself
  <2> HIDE DEF again, Claims
  <2>3. ToReplan(again)
    BY <2>1, <2>2 DEF ToReplan, Shifted, Alike
  <2> QED
    BY <1>4, <1>7, <2>1, <2>2, <2>3
<1>8. CASE Due(t) /\ Claims(replan)
  <2>1. Shifted(replan, turns[t], "running", "replan", turns[t].status)
    BY <1>1, RowsShift DEF Statuses
  <2>2. turns[t].status = "review" <=> turns[t].archive # Empty
    BY <1>1, <1>8 DEF Due, UnsentFailure, Grounded, Active
  <2> HIDE DEF replan, Claims
  <2>3. ToReplan(replan)
    BY <2>1 DEF ToReplan, Shifted
  <2> QED
    BY <1>4, <1>8, <2>1, <2>2, <2>3
<1> HIDE DEF Claims
<1> QED
  BY <1>2, <1>6, <1>7, <1>8

\* What the job knows stays true while a turn is excluded beside it.
LEMMA ExcludeSettles ==
  ASSUME SInv, CodeInv, NEW t \in Present, Exclude(t)
  PROVE  CodeInv' /\ NoneSent
<1> DEFINE r == [turns[t] EXCEPT !.excluded = TRUE]
<1>1. /\ turns' = [turns EXCEPT ![t] = r] /\ job' = job /\ kept' = kept
      /\ container' = container /\ turns[t].status \in {"review", "failed"}
  BY DEF Exclude, disk
<1>2. /\ TurnsInv /\ OrderInv /\ t \in Turns /\ IsRow(turns[t]) /\ Grounded(turns[t])
      /\ turns = [u \in Turns |-> turns[u]]
  <2>1. TurnsInv /\ OrderInv /\ t \in Turns
    BY DEF SInv, CodeInv, Present
  <2> QED
    BY <2>1 DEF TurnsInv, OrderInv
<1>3. /\ Stays(r, turns[t]) /\ r.work = turns[t].work /\ r.back = turns[t].back
      /\ r.recovery = turns[t].recovery
  <2> DEFINE Out(x, q) == /\ Stays(x, q) /\ x.work = q.work /\ x.back = q.back
                          /\ x.recovery = q.recovery
  <2>1. ASSUME NEW q, IsRow(q) PROVE Out([q EXCEPT !.excluded = TRUE], q)
    BY <2>1 DEF IsRow, Stays, Alike, Becomes, SameTurn
  <2>2. Out(r, turns[t])
    <3> HIDE DEF Out
    <3> QED
      BY <1>2, <2>1
  <2> QED
    BY <2>2
<1> HIDE DEF r
<1>4. Grounded(r) /\ r.status # "absent" /\ Alike(r, turns[t])
  <2>1. Grounded(r)
    BY <1>2, <1>3 DEF Grounded, Stays, Alike, Becomes
  <2> QED
    BY <1>1, <1>3, <2>1 DEF Stays
<1>5. t + 1 \notin Present /\ kept.replan[t] # Empty => ToReplan(r)
  BY <1>3 DEF CodeInv, SnapshotsInv, ToReplan, Stays, Alike
<1>6. Drafting' => Holds(container.code, container.root)
  BY <1>1 DEF Drafting, CodeInv, BoxInv
<1>7. /\ Present' = Present /\ Moves(Last) /\ NoneSent
      /\ OrderInv' /\ CopiesInv' /\ SnapshotsInv' /\ BoxInv'
  BY <1>1, <1>3, <1>4, <1>5, <1>6, TurnSettles DEF Stays
<1>8. turns'[t] = r /\ \A u \in Turns \ {t} : turns'[u] = turns[u]
  BY <1>1, <1>2
<1>9. ASSUME job.turn # 0
      PROVE  WorkInv'
  <2>1. PICK j, root, code, from : /\ j = job.turn /\ root = container.root
                                   /\ code = job.row.archive /\ from = container.from
    OBVIOUS
  <2>2. /\ j \in Present /\ (\A u \in Present : u <= j) /\ turns[j].status = "running"
        /\ turns'[j] = turns[j] /\ j \in Nat /\ root \in Nat /\ root <= j
    <3>1. j \in Present /\ (\A u \in Present : u <= j) /\ turns[j].status = "running"
      BY <1>9, <2>1 DEF SInv, JobInv
    <3>2. root = 0 \/ root \in Present
      BY <2>1 DEF CodeInv, BoxInv
    <3>3. j \in Turns /\ j # t /\ j \in Nat /\ root \in Nat
      BY <1>1, <1>2, <3>1, <3>2, Numbers
    <3> QED
      BY <1>8, <3>1, <3>2, <3>3
  <2>3. j = Last
    BY <1>2, <2>2, LastTurn
  <2>4. SessionPermitted(j) => SessionPermitted(j)'
    <3>1. turns[j].permitted => turns'[j].permitted
      BY <2>2
    <3>2. SessionPermitted(j) => turns[j].permitted
      BY <2>2 DEF SessionPermitted, Session
    <3> QED
      BY <1>2, <1>7, <2>2, <2>3, <3>1, <3>2, PermittedAfter
  <2>5. Taken(code, j) => Taken(code, j)'
    BY <1>2, <1>7, <2>2, <2>3, TakenAfter
  <2>6. Holds(from, root) => Holds(from, root)'
    BY <1>2, <1>7, <2>2, <2>3, HoldsAfter
  <2>7. PriorQuestion(j) = {} => PriorQuestion(j)' = {}
    <3>1. \A u \in Present : u # j => Stays(turns'[u], turns[u])
      BY <1>7, <2>3 DEF Moves
    <3>2. \A u \in Present : u < j => Stays(turns'[u], turns[u])
      <4>1. Present \subseteq Nat
        BY Numbers DEF SInv
      <4> QED
        BY <2>2, <3>1, <4>1
    <3>3. PriorQuestion(j)' \subseteq PriorQuestion(j)
      BY <1>7, <3>2 DEF PriorQuestion, DisputedReady, Stays, Alike, Becomes
    <3> QED
      BY <3>3
  <2>8. /\ job'.turn = j /\ job'.row = job.row /\ job'.kind = job.kind
        /\ job'.phase = job.phase /\ job'.ok = job.ok /\ container'.root = root
        /\ container'.from = from /\ container' = container
    BY <1>1, <2>1
  <2>9. WorkInv
    BY DEF CodeInv
  <2>10. ResultInv => ResultInv'
    BY <1>1, <2>1, <2>2, <2>5, <2>8 DEF ResultInv
  <2>11. PhaseInv => PhaseInv'
    BY <1>1, <2>1, <2>2, <2>4, <2>6, <2>7, <2>8 DEF PhaseInv, Independent
  <2> QED
    BY <1>1, <1>9, <2>1, <2>2, <2>8, <2>9, <2>10, <2>11 DEF WorkInv
<1>10. job.turn = 0 => WorkInv'
  BY <1>1 DEF WorkInv
<1> QED
  BY <1>7, <1>9, <1>10 DEF CodeInv

LEMMA SendSettles == ASSUME SInv, CodeInv, Send PROVE CodeInv'
<1> DEFINE t == job.turn
           r == [turns[t] EXCEPT !.sent = TRUE]
           j == [job.row EXCEPT !.sent = TRUE]
<1>1. /\ job.kind = "run" /\ job.phase = "draft" /\ kept' = kept /\ container' = container
      /\ turns' = [turns EXCEPT ![t].sent = TRUE]
      /\ job' = [job EXCEPT !.phase = "sent", !.row = j]
  BY DEF Send, Runs, disk
<1>2. /\ t # 0 /\ t \in Present /\ turns[t].status = "running" /\ \A u \in Present : u <= t
      /\ IsJob(job) /\ IsRow(job.row)
  BY <1>1 DEF SInv, JobInv
<1>3. /\ t \in Turns /\ IsRow(turns[t]) /\ Grounded(turns[t])
      /\ turns = [u \in Turns |-> turns[u]]
  <2>1. TurnsInv /\ OrderInv /\ t \in Turns
    BY <1>2 DEF SInv, CodeInv, Present
  <2> QED
    BY <2>1 DEF TurnsInv, OrderInv
<1>4. /\ Alike(r, turns[t]) /\ r.sent = TRUE /\ r.status = turns[t].status /\ r.work = turns[t].work
      /\ r.back = turns[t].back /\ r.recovery = turns[t].recovery
      /\ Alike(j, job.row) /\ j.sent = TRUE /\ j.recovery = job.row.recovery
  <2> DEFINE Out(x, q) == /\ Alike(x, q) /\ x.sent = TRUE /\ x.status = q.status /\ x.work = q.work
                          /\ x.back = q.back /\ x.recovery = q.recovery
  <2>1. ASSUME NEW q, IsRow(q) PROVE Out([q EXCEPT !.sent = TRUE], q)
    BY <2>1 DEF IsRow, Alike, Becomes, SameTurn
  <2>2. Out(r, turns[t]) /\ Out(j, job.row)
    <3> HIDE DEF Out
    <3> QED
      BY <1>2, <1>3, <2>1
  <2> QED
    BY <2>2
<1>5. /\ job'.turn = t /\ job'.kind = "run" /\ job'.row = j /\ job'.phase = "sent"
      /\ job'.ok = job.ok
  <2> HIDE DEF j
  <2> QED
    BY <1>1, <1>2 DEF IsJob
<1>6. turns' = [turns EXCEPT ![t] = r]
  BY <1>1, <1>3
<1>7. PICK k : k = t
  OBVIOUS
<1> HIDE DEF r, j
<1>8. Grounded(r) /\ r.status # "absent"
  BY <1>2, <1>3, <1>4 DEF Grounded, Alike, Active
<1>9. Holds(container.code, container.root)
  BY <1>1, <1>2 DEF CodeInv, BoxInv, Drafting
<1>10. k + 1 \notin Present /\ k \in Nat
  BY <1>2, <1>7, Numbers DEF SInv
<1>11. kept.replan[k] # Empty => ToReplan(r)
  BY <1>2, <1>4, <1>7, <1>10 DEF CodeInv, SnapshotsInv, ToReplan, Alike
<1>12. /\ Present' = Present
       /\ OrderInv' /\ CopiesInv' /\ SnapshotsInv' /\ BoxInv'
  BY <1>1, <1>2, <1>4, <1>5, <1>6, <1>7, <1>8, <1>9, <1>11, TurnSettles DEF Drafting
<1>13. turns'[k] = r
  BY <1>3, <1>6, <1>7
<1>14. WorkInv /\ ResultInv /\ PhaseInv
  BY <1>1, <1>2 DEF CodeInv, WorkInv
<1>15. ResultInv'
  <2>1. job.row.archive = Empty
    BY <1>1, <1>14 DEF PhaseInv
  <2> QED
    BY <1>1, <1>2, <1>4, <1>5, <1>7, <1>13, <1>14, <2>1 DEF ResultInv, Alike, Becomes, SameTurn
<1>16. PhaseInv'
  BY <1>1, <1>2, <1>4, <1>5, <1>7, <1>13, <1>14
  DEF PhaseInv, Alike, Becomes, SameTurn
<1>17. WorkInv'
  <2>1. /\ HasState(job.row.recovery) /\ HasState(job.row.continuation)
        /\ job.row.planned = turns[t].planned
    BY <1>2, <1>14 DEF WorkInv
  <2>2. HasState(j.recovery) /\ HasState(j.continuation) /\ j.planned = r.planned /\ j.sent = r.sent
    BY <1>4, <2>1 DEF Alike, Becomes
  <2> QED
    BY <1>2, <1>5, <1>7, <1>13, <1>15, <1>16, <2>2 DEF WorkInv
<1> QED
  BY <1>12, <1>17 DEF CodeInv

LEMMA CrashSettles ==
  ASSUME SInv, CodeInv, NEW late \in BOOLEAN, Crash(late)
  PROVE  CodeInv' /\ NoneSent
<1> DEFINE t == job.turn
           s == IF turns[t].outcome = "complete" THEN "queued" ELSE "failed"
           l == IF late \/ (turns[t].stage = "late" /\ job.kind = "replan")
                THEN "late" ELSE "draft"
           r == [turns[t] EXCEPT !.status = s, !.stage = l]
<1>1. /\ job' = NoJob /\ kept' = kept /\ container' = container
      /\ t \in Present /\ (\A u \in Present : u <= t) /\ turns[t].status = "running"
  BY DEF SInv, JobInv, Crash, JobFree, disk
<1>2. /\ t \in Turns /\ t \in Nat /\ IsRow(turns[t]) /\ Grounded(turns[t])
      /\ turns = [u \in Turns |-> turns[u]]
  <2>1. TurnsInv /\ OrderInv /\ t \in Turns /\ t \in Nat
    BY <1>1, Numbers DEF SInv, CodeInv
  <2> QED
    BY <2>1 DEF TurnsInv, OrderInv
<1>3. turns' = [turns EXCEPT ![t] = r]
  <2>1. turns' = [turns EXCEPT
                         ![t].status = s,
                         ![t].stage = IF late \/ (@ = "late" /\ job.kind = "replan")
                                      THEN "late" ELSE "draft"]
    BY DEF Crash
  <2> QED
    BY <1>2, <2>1 DEF IsRow
<1>4. Shifted(r, turns[t], s, turns[t].work, turns[t].back)
  <2>1. s \in Statuses
    BY DEF Statuses
  <2> HIDE DEF s, l, t
  <2> QED
    BY <1>2, <2>1, RowsShift
<1> HIDE DEF r
<1>5. Grounded(r)
  <2>1. /\ s \in Statuses /\ (turns[t].archive # Empty => s \in Active) /\ s # "review"
        /\ s \in Active => /\ turns[t].outcome = "complete" /\ s = "queued"
                           /\ turns[t].work # "run"
                           /\ turns[t].work = "plan" => turns[t].archive # Empty
                           /\ turns[t].work = "dispute" => turns[t].disputed
        /\ turns[t].work = "replan" => (turns[t].back = "review" <=> turns[t].archive # Empty)
    BY <1>1, <1>2 DEF Statuses, Active, Grounded
  <2> HIDE DEF s, t
  <2> QED
    BY <1>2, <1>4, <2>1, ShiftGrounds
<1>6. /\ Alike(r, turns[t]) /\ r.sent = turns[t].sent /\ r.status # "absent"
      /\ r.work = turns[t].work /\ r.recovery = turns[t].recovery
  BY <1>4 DEF Shifted
<1>7. kept.replan[t] # Empty => ToReplan(r)
  <2>1. t + 1 \notin Present
    BY <1>1, <1>2
  <2> QED
    BY <1>1, <1>6, <2>1 DEF CodeInv, SnapshotsInv, ToReplan, Alike, Active
<1>8. OrderInv' /\ CopiesInv' /\ SnapshotsInv' /\ BoxInv' /\ NoneSent
  <2>1. ~Drafting'
    BY <1>1 DEF NoJob, Drafting
  <2> HIDE DEF t
  <2> QED
    BY <1>1, <1>3, <1>5, <1>6, <1>7, <2>1, TurnSettles
<1>9. WorkInv'
  BY <1>1 DEF NoJob, WorkInv
<1> QED
  BY <1>8, <1>9 DEF CodeInv

------------------------------------------------------------------------------
\* The steps of a job and of a close, which leave the turns alone.

LEMMA SameTurns ==
  ASSUME turns' = turns
  PROVE  /\ Present' = Present
         /\ \A t : /\ SessionPermitted(t)' <=> SessionPermitted(t)
                   /\ DisputedReady(t)' <=> DisputedReady(t)
                   /\ PriorQuestion(t)' = PriorQuestion(t)
         /\ \A code, t : /\ Holds(code, t)' <=> Holds(code, t)
                         /\ Taken(code, t)' <=> Taken(code, t)
<1>1. Present' = Present
  BY DEF Present
<1>2. \A t : SessionPermitted(t)' <=> SessionPermitted(t)
  BY <1>1 DEF SessionPermitted, Session
<1>3. \A t : DisputedReady(t)' <=> DisputedReady(t)
  BY DEF DisputedReady
<1>4. \A t : PriorQuestion(t)' = PriorQuestion(t)
  BY <1>1, <1>3 DEF PriorQuestion
<1>5. \A u, t : Counts(u, t)' <=> Counts(u, t)
  BY <1>2, <1>3 DEF Counts
<1>6. \A code, t : Holds(code, t)' <=> Holds(code, t)
  BY <1>1, <1>5 DEF Holds
<1>7. \A code, t : Taken(code, t)' <=> Taken(code, t)
  BY <1>1, <1>2, <1>6 DEF Taken
<1> QED
  BY <1>1, <1>2, <1>3, <1>4, <1>6, <1>7

LEMMA RowsSame ==
  ASSUME turns' = turns, CodeInv, kept' = kept
  PROVE  OrderInv' /\ CopiesInv' /\ SnapshotsInv'
<1>1. OrderInv'
  BY SameTurns DEF CodeInv, OrderInv
<1>2. CopiesInv'
  <2>1. \A t \in Present : CopiesOf(t)'
    BY SameTurns DEF CodeInv, CopiesInv, CopiesOf
  <2> QED
    BY <2>1, SameTurns DEF CodeInv, CopiesInv
<1>3. SnapshotsInv'
  BY SameTurns DEF CodeInv, SnapshotsInv, ToReplan, Active
<1> QED
  BY <1>1, <1>2, <1>3

\* The workspace with another status.
SameCode == /\ container'.root = container.root /\ container'.code = container.code
            /\ container'.from = container.from /\ container'.imported = container.imported
            /\ container' = [root |-> container'.root, status |-> container'.status,
                             code |-> container'.code, from |-> container'.from,
                             imported |-> container'.imported]

LEMMA BoxSame ==
  ASSUME turns' = turns, BoxInv, SameCode,
         Drafting' => Drafting \/ Holds(container.code, container.root)
  PROVE  BoxInv'
<1>1. PICK r, code, from : r = container.root /\ code = container.code /\ from = container.from
  OBVIOUS
<1>2. container'.root = r /\ container'.code = code /\ container'.from = from
  BY <1>1 DEF SameCode
<1>3. \/ container'.imported \/ \E u \in Present : turns[u].root = r /\ turns[u].sent
      \/ Drafting'
      => Holds(code, r)'
  BY <1>1, SameTurns DEF BoxInv, SameCode
<1>4. /\ r = 0 \/ (r \in Present /\ turns[r].root = r)
      /\ \A w \in code \ {0} :
           w \in Present /\ (turns[w].root = r \/ (w < r /\ SessionPermitted(w)))
      /\ \A w \in from \ {0} : w \in Present /\ w < r /\ SessionPermitted(w)
      /\ \A u \in Present : turns[u].root = r /\ turns[u].outcome # "none" => u \in code
      /\ container.imported => Whole(code) \/ ~Whole(from)
  BY <1>1 DEF BoxInv
<1>5. container'.imported => Whole(code) \/ ~Whole(from)
  BY <1>4 DEF SameCode
<1> QED
  BY <1>2, <1>3, <1>4, <1>5, SameTurns DEF BoxInv, SameCode, Whole

LEMMA BoxesSame ==
  ASSUME BoxInv,
         \/ container' = container
         \/ container' = [container EXCEPT !.status = "removed"]
  PROVE  SameCode
<1>1. container = [root |-> container.root, status |-> container.status,
                   code |-> container.code, from |-> container.from,
                   imported |-> container.imported]
  BY DEF BoxInv
<1> QED
  BY <1>1 DEF SameCode

\* What the job knows of the turn it took.
LEMMA JobKnows ==
  ASSUME SInv, CodeInv, job.turn # 0
  PROVE  /\ job.turn \in Present /\ job.turn \in Nat /\ (\A u \in Present : u <= job.turn)
         /\ job.turn + 1 \notin Present /\ turns[job.turn].status = "running"
         /\ IsJob(job) /\ IsRow(job.row) /\ SameTurn(job.row, turns[job.turn])
         /\ WorkInv /\ PhaseInv /\ (job.kind # "replan" => ResultInv)
         /\ Grounded(turns[job.turn])
<1>1. /\ job.turn \in Present /\ (\A u \in Present : u <= job.turn)
      /\ turns[job.turn].status = "running"
      /\ IsJob(job) /\ IsRow(job.row) /\ SameTurn(job.row, turns[job.turn])
      /\ TurnsInv
  BY DEF SInv, JobInv
<1>2. job.turn \in Nat /\ job.turn \in Turns
  BY <1>1, Numbers
<1> QED
  BY <1>1, <1>2 DEF CodeInv, WorkInv, OrderInv

\* The job fails: nothing was archived by it.
Same(r, q) ==
  /\ r.sent = q.sent /\ r.outcome = q.outcome /\ r.permitted = q.permitted
  /\ r.archive = q.archive /\ r.disputed = q.disputed /\ r.planned = q.planned
  /\ HasState(q.recovery) => HasState(r.recovery)
  /\ HasState(q.continuation) =>
       /\ HasState(r.continuation)
       /\ \/ r.continuation = q.continuation
          \/ r.continuation.state \notin {"ready", "planned", "continued"}

LEMMA WorkFails ==
  ASSUME SInv, CodeInv, turns' = turns, kept' = kept, SameCode, job.turn # 0,
         job'.turn = job.turn, job'.kind = job.kind, job'.phase = "done", job'.ok = FALSE,
         Same(job'.row, job.row), job.kind # "plan",
         job.kind = "run" => job.row.archive = Empty
  PROVE  CodeInv'
<1>1. OrderInv' /\ CopiesInv' /\ SnapshotsInv'
  BY RowsSame
<1>2. BoxInv'
  BY BoxSame DEF CodeInv, Drafting
<1>3. WorkInv'
  <2>1. PICK q, r : q = job.row /\ r = job'.row
    OBVIOUS
  <2>2. /\ WorkInv /\ PhaseInv /\ (job.kind # "replan" => ResultInv)
    BY JobKnows
  <2>3. HasState(r.recovery) /\ HasState(r.continuation)
    BY <2>1, <2>2 DEF WorkInv, Same
  <2>4. job.kind # "replan" => q.archive = Empty
    BY <2>1, <2>2 DEF WorkInv, ResultInv
  <2>5. job.kind # "replan" => ResultInv'
    BY <2>1, <2>2, <2>4, SameTurns DEF WorkInv, ResultInv, Same, SameCode
  <2>6. PhaseInv'
    BY <2>1, <2>2, <2>4, SameTurns DEF PhaseInv, Same, SameCode
  <2> QED
    BY <2>1, <2>2, <2>3, <2>5, <2>6 DEF WorkInv, Same
<1> QED
  BY <1>1, <1>2, <1>3 DEF CodeInv

LEMMA WorkSame ==
  ASSUME SInv, CodeInv, turns' = turns, kept' = kept, SameCode, job' = job
  PROVE  CodeInv'
<1>1. OrderInv' /\ CopiesInv' /\ SnapshotsInv'
  BY RowsSame
<1>2. BoxInv'
  BY BoxSame DEF CodeInv, Drafting
<1>3. WorkInv'
  <2>1. CASE job.turn = 0
    BY <2>1 DEF WorkInv
  <2>2. CASE job.turn # 0
    <3>1. WorkInv /\ PhaseInv /\ (job.kind # "replan" => ResultInv)
      BY <2>2, JobKnows
    <3>2. job.kind # "replan" => ResultInv'
      BY <3>1, SameTurns DEF ResultInv, SameCode
    <3>3. PhaseInv'
      BY <3>1, SameTurns DEF PhaseInv, SameCode, Independent
    <3> QED
      BY <2>2, <3>1, <3>2, <3>3 DEF WorkInv
  <2> QED
    BY <2>1, <2>2
<1> QED
  BY <1>1, <1>2, <1>3 DEF CodeInv

LEMMA RowsFail ==
  ASSUME IsRow(job.row), NEW x
  PROVE  /\ Same(job.row, job.row)
         /\ Same([job.row EXCEPT !.stage = x], job.row)
         /\ Same([job.row EXCEPT !.recovery.waits = x], job.row)
         /\ Same([job.row EXCEPT !.recovery.code = x], job.row)
         /\ Same([job.row EXCEPT !.continuation.state = "blocked"], job.row)
<1>1. Same(job.row, job.row)
  BY DEF Same
<1>2. Same([job.row EXCEPT !.stage = x], job.row)
  BY DEF Same, IsRow
<1>3. Same([job.row EXCEPT !.recovery.waits = x], job.row)
  BY DEF Same, IsRow, HasState
<1>4. Same([job.row EXCEPT !.recovery.code = x], job.row)
  BY DEF Same, IsRow, HasState
<1>5. Same([job.row EXCEPT !.continuation.state = "blocked"], job.row)
  BY DEF Same, IsRow, HasState
<1> QED
  BY <1>1, <1>2, <1>3, <1>4, <1>5

\* A failed job, with its row as it was or with what it waits for.
LEMMA FailsPlainly ==
  ASSUME SInv, CodeInv, turns' = turns, kept' = kept, SameCode, job.turn # 0,
         job.kind # "plan", job.kind = "run" => job.row.archive = Empty,
         \/ job' = Failed
         \/ \E x : \/ job' = [Failed EXCEPT !.row.recovery.waits = x]
                   \/ job' = [Failed EXCEPT !.row.stage = x]
         \/ job' = [Failed EXCEPT !.row.continuation.state = "blocked", !.next = "error"]
  PROVE  CodeInv'
<1>1. IsJob(job) /\ IsRow(job.row)
  BY JobKnows
<1>2. /\ job'.turn = job.turn /\ job'.kind = job.kind /\ job'.phase = "done" /\ job'.ok = FALSE
      /\ Same(job'.row, job.row)
  <2>1. CASE job' = Failed
    BY <1>1, <2>1, RowsFail DEF IsJob, Failed
  <2>2. ASSUME NEW x, job' = [Failed EXCEPT !.row.recovery.waits = x]
        PROVE  /\ job'.turn = job.turn /\ job'.kind = job.kind /\ job'.phase = "done"
               /\ job'.ok = FALSE /\ Same(job'.row, job.row)
    <3> DEFINE r == [job.row EXCEPT !.recovery.waits = x]
    <3>1. Same(r, job.row)
      BY <1>1, RowsFail
    <3>2. job' = [job EXCEPT !.phase = "done", !.ok = FALSE, !.row = r]
      BY <1>1, <2>2 DEF Failed, IsJob
    <3> HIDE DEF r
    <3> QED
      BY <1>1, <3>1, <3>2 DEF IsJob
  <2>3. ASSUME NEW x, job' = [Failed EXCEPT !.row.stage = x]
        PROVE  /\ job'.turn = job.turn /\ job'.kind = job.kind /\ job'.phase = "done"
               /\ job'.ok = FALSE /\ Same(job'.row, job.row)
    <3> DEFINE r == [job.row EXCEPT !.stage = x]
    <3>1. Same(r, job.row)
      BY <1>1, RowsFail
    <3>2. job' = [job EXCEPT !.phase = "done", !.ok = FALSE, !.row = r]
      BY <1>1, <2>3 DEF Failed, IsJob
    <3> HIDE DEF r
    <3> QED
      BY <1>1, <3>1, <3>2 DEF IsJob
  <2>4. CASE job' = [Failed EXCEPT !.row.continuation.state = "blocked", !.next = "error"]
    <3> DEFINE r == [job.row EXCEPT !.continuation.state = "blocked"]
    <3>1. Same(r, job.row)
      BY <1>1, RowsFail
    <3>2. job' = [job EXCEPT !.phase = "done", !.ok = FALSE, !.next = "error", !.row = r]
      BY <1>1, <2>4 DEF Failed, IsJob
    <3> HIDE DEF r
    <3> QED
      BY <1>1, <3>1, <3>2 DEF IsJob
  <2> QED
    BY <2>1, <2>2, <2>3, <2>4
<1> QED
  BY <1>2, WorkFails

LEMMA ClosesSettle ==
  ASSUME SInv, CodeInv,
         StartClosing \/ EndClosing \/ SwitchAuto \/ CloseForNext \/ CloseFailed
  PROVE  CodeInv'
<1>1. turns' = turns /\ kept' = kept
  BY DEF StartClosing, EndClosing, SwitchAuto, CloseForNext, CloseFailed, store, disk
<1>2. SameCode
  <2>1. \/ container' = container
        \/ container' = [container EXCEPT !.status = "removed"]
    BY DEF StartClosing, EndClosing, SwitchAuto, CloseForNext, CloseFailed, disk
  <2> QED
    BY <2>1, BoxesSame DEF CodeInv
<1>3. CASE job' = job
  BY <1>1, <1>2, <1>3, WorkSame
<1>4. CASE CloseForNext /\ job' # job
  <2>1. job' = Failed /\ job.kind = "run" /\ job.phase = "begun"
    BY <1>4 DEF CloseForNext, Runs
  <2>2. job.turn # 0
    BY <2>1 DEF SInv, JobInv
  <2>3. job.row.archive = Empty
    BY <2>1, <2>2, JobKnows DEF PhaseInv
  <2> QED
    BY <1>1, <1>2, <2>1, <2>2, <2>3, FailsPlainly
<1>5. CASE CloseFailed
  <2>1. /\ job.kind = "replan" /\ job.phase = "kept"
        /\ job' = To("closed") \/ job' = BlockedOnInputs
    BY <1>5 DEF CloseFailed, Runs
  <2>2. job.turn # 0
    BY <2>1 DEF SInv, JobInv
  <2>3. CASE job' = BlockedOnInputs
    BY <1>1, <1>2, <2>1, <2>2, <2>3, FailsPlainly DEF BlockedOnInputs
  <2>4. CASE job' = To("closed")
    <3>1. /\ job'.turn = job.turn /\ job'.kind = "replan" /\ job'.phase = "closed"
          /\ job'.row = job.row
      BY <2>1, <2>2, <2>4, JobKnows DEF To, IsJob
    <3>2. OrderInv' /\ CopiesInv' /\ SnapshotsInv' /\ BoxInv'
      BY <1>1, <1>2, <3>1, RowsSame, BoxSame DEF CodeInv, Drafting
    <3>3. WorkInv'
      BY <1>1, <2>1, <2>2, <3>1, JobKnows DEF WorkInv, PhaseInv
    <3> QED
      BY <3>2, <3>3 DEF CodeInv
  <2> QED
    BY <2>1, <2>3, <2>4
<1>6. StartClosing \/ EndClosing \/ SwitchAuto => job' = job
  BY DEF StartClosing, EndClosing, SwitchAuto
<1> QED
  BY <1>3, <1>4, <1>5, <1>6

\* A workspace of its own is empty at first.
LEMMA EnsureSettles == ASSUME SInv, CodeInv, EnsureContainer PROVE CodeInv'
<1>1. turns' = turns /\ kept' = kept /\ job.kind = "run" /\ job.phase = "begun" /\ job.turn # 0
  BY DEF EnsureContainer, store, Runs, SInv, JobInv
<1>2. PICK t : t = job.turn
  OBVIOUS
<1>3. /\ t \in Present /\ t \in Nat /\ (\A u \in Present : u <= t) /\ IsJob(job)
      /\ WorkInv /\ PhaseInv /\ ResultInv /\ Grounded(turns[t]) /\ t # 0
  BY <1>1, <1>2, JobKnows
<1>4. /\ turns[t].work = "run" /\ ~turns[t].sent /\ ~job.row.disputed
      /\ job.row.archive = Empty /\ turns[t].permitted /\ job.row.outcome = "none"
  BY <1>1, <1>2, <1>3 DEF PhaseInv, ResultInv, WorkInv
<1>5. OrderInv' /\ CopiesInv' /\ SnapshotsInv'
  BY <1>1, RowsSame
<1>6. CASE job' = Failed /\ container' = container
  <2>1. SameCode
    BY <1>6, BoxesSame DEF CodeInv
  <2> QED
    BY <1>1, <1>4, <1>6, <2>1, FailsPlainly
<1>7. ASSUME job' = To("ensured"), BoxInv', container'.root = turns[t].root,
             SessionPermitted(t)
      PROVE  CodeInv'
  <2>1. /\ job'.turn = t /\ job'.kind = "run" /\ job'.phase = "ensured"
        /\ job'.row = job.row /\ job'.ok = job.ok
    BY <1>1, <1>2, <1>3, <1>7 DEF To, IsJob
  <2>2. ResultInv'
    BY <1>1, <1>2, <1>3, <1>4, <2>1, SameTurns DEF ResultInv
  <2>3. PhaseInv'
    BY <1>1, <1>2, <1>3, <1>4, <1>7, <2>1, SameTurns DEF PhaseInv
  <2>4. WorkInv'
    BY <1>1, <1>2, <1>3, <2>1, <2>2, <2>3 DEF WorkInv
  <2> QED
    BY <1>5, <1>7, <2>4 DEF CodeInv
<1>8. CASE /\ job' = To("ensured") /\ container' = container
           /\ container.root = turns[t].root /\ SessionPermitted(t)
  <2>1. SameCode
    BY <1>8, BoxesSame DEF CodeInv
  <2>2. ~Drafting'
    BY <1>1, <1>3, <1>8 DEF Drafting, To, IsJob
  <2>3. BoxInv'
    BY <1>1, <2>1, <2>2, BoxSame DEF CodeInv
  <2> QED
    BY <1>7, <1>8, <2>3
<1>9. CASE /\ job' = To("ensured") /\ Independent(turns[t])
           /\ container' = [root |-> turns[t].root, status |-> "running", code |-> Empty,
                            from |-> {}, imported |-> FALSE]
  <2>1. turns[t].root = t
    BY <1>3, <1>9 DEF CodeInv, OrderInv
  <2>2. \A u \in Present : turns[u].root = t => u = t
    <3> SUFFICES ASSUME NEW u \in Present, turns[u].root = t PROVE u = t
      OBVIOUS
    <3>1. t <= u /\ u <= t /\ u \in Nat
      BY <1>3, Numbers DEF SInv
    <3> QED
      BY <1>3, <3>1
  <2>3. SessionPermitted(t)
    BY <1>4, <2>1, <2>2 DEF SessionPermitted, Session
  <2>4. turns[t].outcome = "none"
    BY <1>3, <1>4 DEF Grounded
  <2>5. ~Drafting'
    BY <1>1, <1>3, <1>9 DEF Drafting, To, IsJob
  <2>6. BoxInv'
    BY <1>1, <1>3, <1>4, <1>9, <2>1, <2>2, <2>4, <2>5, SameTurns DEF BoxInv, Empty
  <2> QED
    BY <1>7, <1>9, <2>3, <2>6
<1>10. \/ /\ job' = To("ensured") /\ container' = container
          /\ container.root = turns[t].root /\ SessionPermitted(t)
       \/ /\ job' = To("ensured") /\ Independent(turns[t])
          /\ container' = [root |-> turns[t].root, status |-> "running", code |-> Empty,
                           from |-> {}, imported |-> FALSE]
       \/ job' = Failed /\ container' = container
  BY <1>2 DEF EnsureContainer
<1> QED
  BY <1>6, <1>8, <1>9, <1>10

\* A finite set of turns has a last one.
LEMMA LargestTurn ==
  ASSUME NEW S \in SUBSET Turns, S # {}
  PROVE  \E u \in S : \A v \in S : v <= u
<1>1. Turns \subseteq Nat /\ MaxTurns \in Nat /\ \A u \in Turns : u <= MaxTurns
  BY SeriesAssumption DEF Turns
<1> DEFINE T == {MaxTurns - u : u \in S}
<1>2. T \subseteq Nat /\ T # {}
  <2>1. \A u \in S : u \in Nat /\ u <= MaxTurns
    BY <1>1
  <2>2. \A u \in S : MaxTurns - u \in Nat
    BY <1>1, <2>1
  <2> QED
    BY <2>2
<1>3. \E x \in T : \A y \in T : <<y, x>> \notin OpToRel(<, Nat)
  BY <1>2, NatLessThanWellFounded, WFMin
<1>4. PICK x \in T : \A y \in T : ~(y < x)
  BY <1>2, <1>3 DEF OpToRel
<1>5. PICK u \in S : x = MaxTurns - u
  BY <1>4
<1>6. ASSUME NEW v \in S PROVE v <= u
  <2>1. ~(MaxTurns - v < MaxTurns - u)
    BY <1>4, <1>5
  <2> QED
    BY <1>1, <2>1
<1> QED
  BY <1>6

\* Where nothing was asked before, nothing counts.
LEMMA NothingBefore ==
  ASSUME SInv, CodeInv, NEW t \in Present, PriorQuestion(t) = {}, NEW code
  PROVE  Holds(code, t)
<1> SUFFICES ASSUME NEW u \in Present, u < t, Counts(u, t) PROVE FALSE
  BY DEF Holds
<1>1. u \in Turns /\ turns[u].status \notin Active /\ Grounded(turns[u])
  BY DEF SInv, TurnsInv, CodeInv, OrderInv, Present
<1>2. turns[u].archive # Empty => turns[u].status = "review"
  BY <1>1 DEF Grounded
<1>3. u \in PriorQuestion(t)
  BY <1>2 DEF PriorQuestion, Counts
<1> QED
  BY <1>3

\* The last question that counts has what counted before it.
LEMMA LastQuestion ==
  ASSUME SInv, CodeInv, NEW t \in Present, PriorQuestion(t) # {}
  PROVE  LET u == Latest(PriorQuestion(t)) IN
         /\ u \in Present /\ u < t /\ u \in PriorQuestion(t)
         /\ \A v \in Present : v < t /\ Counts(v, t) => v <= u
<1>1. PriorQuestion(t) \subseteq Present
  BY DEF PriorQuestion
<1>2. PriorQuestion(t) \subseteq Turns /\ Present \subseteq Nat /\ Turns \subseteq Nat
  BY <1>1, Numbers DEF SInv
<1>3. \E u \in PriorQuestion(t) : \A v \in PriorQuestion(t) : v <= u
  BY <1>2, LargestTurn
<1>4. /\ Latest(PriorQuestion(t)) \in PriorQuestion(t)
      /\ \A v \in PriorQuestion(t) : v <= Latest(PriorQuestion(t))
  BY <1>3 DEF Latest
<1>5. ASSUME NEW v \in Present, v < t, Counts(v, t) PROVE v \in PriorQuestion(t)
  <2>1. v \in Turns /\ turns[v].status \notin Active /\ Grounded(turns[v])
    BY <1>5 DEF SInv, TurnsInv, CodeInv, OrderInv, Present
  <2>2. turns[v].archive # Empty => turns[v].status = "review"
    BY <2>1 DEF Grounded
  <2> QED
    BY <1>5, <2>2 DEF PriorQuestion, Counts
<1> QED
  BY <1>4, <1>5 DEF PriorQuestion

\* Code that was taken after a question that counts, for one that is asked later.
LEMMA TakenServes ==
  ASSUME SInv, CodeInv, NEW t \in Present, NEW u \in Present, u < t, NEW code,
         Taken(code, u), SessionPermitted(u),
         \A v \in Present : v < t /\ Counts(v, t) => v <= u
  PROVE  /\ Holds(code, t)
         /\ \A w \in code \ {0} : w \in Present /\ w < t /\ SessionPermitted(w)
<1>1. u \in Nat /\ t \in Nat /\ Present \subseteq Nat
  BY Numbers DEF SInv
<1>2. ASSUME NEW v \in Present, v < t, Counts(v, t) PROVE v \in code
  <2>1. v <= u /\ v \in Nat
    BY <1>1, <1>2
  <2>2. CASE v = u
    BY <2>2 DEF Taken
  <2>3. CASE v < u
    <3>1. (v + 1) .. u \subseteq (v + 1) .. t
      BY <1>1, <2>1
    <3>2. Counts(v, u)
      BY <1>2, <3>1 DEF Counts
    <3> QED
      BY <2>3, <3>2 DEF Taken, Holds
  <2> QED
    BY <1>1, <2>1, <2>2, <2>3
<1>3. ASSUME NEW w \in code \ {0} PROVE w \in Present /\ w < t /\ SessionPermitted(w)
  <2>1. w \in Present /\ w <= u /\ w \in Nat
        /\ (turns[w].root = turns[u].root \/ SessionPermitted(w))
    BY <1>1 DEF Taken
  <2>2. turns[w].root = turns[u].root => SessionPermitted(w)
    BY DEF SessionPermitted, Session
  <2> QED
    BY <1>1, <2>1, <2>2
<1> QED
  BY <1>2, <1>3 DEF Holds

\* The snapshot a question was planned on.
LEMMA SnapshotServes ==
  ASSUME SInv, CodeInv, NEW t \in Present, turns[t].planned # 0
  PROVE  LET code == kept.replan[turns[t].planned] IN
         /\ Holds(code, t)
         /\ \A w \in code \ {0} : w \in Present /\ w < t /\ SessionPermitted(w)
<1>1. PICK p : p = turns[t].planned
  OBVIOUS
<1>2. p = t - 1 /\ p \in Present /\ kept.replan[p] # Empty
  BY <1>1 DEF CodeInv, OrderInv
<1>3. t \in Nat /\ p \in Nat /\ p + 1 = t /\ Present \subseteq Nat
  BY <1>2, Numbers DEF SInv
<1>4. /\ \A u \in Present : /\ u <= p /\ ~turns[u].excluded /\ SessionPermitted(u)
                            /\ turns[u].archive # Empty
                            => u \in kept.replan[p]
      /\ \A w \in kept.replan[p] \ {0} : w \in Present /\ w <= p /\ SessionPermitted(w)
  BY <1>1, <1>2, <1>3 DEF CodeInv, SnapshotsInv
<1>5. ASSUME NEW u \in Present, u < t, Counts(u, t) PROVE u \in kept.replan[p]
  <2>1. u <= p /\ u \in Nat /\ t \in (u + 1) .. t
    BY <1>3, <1>5
  <2>2. turns[u].archive # Empty
    BY <1>5, <2>1 DEF Counts
  <2> QED
    BY <1>4, <1>5, <2>1, <2>2 DEF Counts
<1>6. ASSUME NEW w \in kept.replan[p] \ {0} PROVE w < t
  <2>1. w \in Present /\ w <= p
    BY <1>4
  <2>2. w \in Nat /\ p \in Nat /\ t \in Nat /\ p + 1 = t
    BY <1>3, <2>1
  <2> QED
    BY <2>1, <2>2
<1> QED
  BY <1>1, <1>4, <1>5, <1>6 DEF Holds

LEMMA SourceServes ==
  ASSUME SInv, CodeInv, NEW t \in Present, SourceOf(t).kind # "none", SourceOf(t).good
  PROVE  /\ Holds(SourceOf(t).code, t)
         /\ \A w \in SourceOf(t).code \ {0} : w \in Present /\ w < t /\ SessionPermitted(w)
<1> DEFINE u == Latest(PriorQuestion(t))
<1>1. CASE turns[t].planned # 0
  <2>1. SourceOf(t).code = kept.replan[turns[t].planned]
    BY <1>1 DEF SourceOf
  <2> QED
    BY <1>1, <2>1, SnapshotServes
<1>2. turns[t].planned = 0 => PriorQuestion(t) # {}
  BY DEF SourceOf
<1>3. CASE turns[t].planned = 0 /\ DisputedReady(u)
  <2>1. SourceOf(t).code = kept.retained[u] /\ SessionPermitted(u)
    BY <1>2, <1>3 DEF SourceOf
  <2>2. u \in Present /\ u < t /\ \A v \in Present : v < t /\ Counts(v, t) => v <= u
    BY <1>2, <1>3, LastQuestion
  <2>3. Taken(kept.retained[u], u)
    <3> HIDE DEF u
    <3> QED
      BY <1>3, <2>2 DEF CodeInv, CopiesInv, CopiesOf
  <2> HIDE DEF u
  <2> QED
    BY <2>1, <2>2, <2>3, TakenServes
<1>4. CASE turns[t].planned = 0 /\ ~DisputedReady(u)
  <2>1. SourceOf(t).code = turns[u].archive /\ SessionPermitted(u) /\ turns[u].archive # Empty
    BY <1>2, <1>4 DEF SourceOf
  <2>2. u \in Present /\ u < t /\ \A v \in Present : v < t /\ Counts(v, t) => v <= u
    BY <1>2, <1>4, LastQuestion
  <2>3. Taken(turns[u].archive, u)
    <3> HIDE DEF u
    <3> QED
      BY <2>1, <2>2 DEF CodeInv, CopiesInv, CopiesOf
  <2> HIDE DEF u
  <2> QED
    BY <2>1, <2>2, <2>3, TakenServes
<1> QED
  BY <1>1, <1>3, <1>4

\* The session of a question that was not followed up is that question.
LEMMA OnlyTurn ==
  ASSUME SInv, NEW t \in Present, \A u \in Present : u <= t, turns[t].root = t
  PROVE  \A u \in Present : turns[u].root = t => u = t
<1> SUFFICES ASSUME NEW u \in Present, turns[u].root = t PROVE u = t
  OBVIOUS
<1>1. t <= u /\ u <= t /\ u \in Nat /\ t \in Nat
  BY Numbers DEF SInv
<1> QED
  BY <1>1

\* A draft whose workspace is there: what was imported, what its session did, or
\* nothing, if nothing was asked before.
LEMMA ImportEnds ==
  ASSUME SInv, CodeInv, turns' = turns, kept' = kept, NEW t \in Present, t = job.turn, t # 0,
         job.kind = "run", job.phase \in {"ensured", "importing"}, job' = To("draft"),
         container.root = turns[t].root, BoxInv',
         container'.root = container.root,
         ~Independent(turns[t]) \/ container'.imported \/ PriorQuestion(t) = {}
  PROVE  CodeInv'
<1>1. /\ job'.turn = t /\ job'.kind = "run" /\ job'.phase = "draft"
      /\ job'.row = job.row /\ job'.ok = job.ok
  BY JobKnows DEF To, IsJob
<1>2. OrderInv' /\ CopiesInv' /\ SnapshotsInv'
  BY RowsSame
<1>3. WorkInv /\ PhaseInv /\ ResultInv
  BY JobKnows
<1>4. job.row.archive = Empty /\ ~turns[t].sent /\ SessionPermitted(t)
  BY <1>3 DEF PhaseInv
<1>5. job.row.outcome = "none" /\ ~job.ok
  BY <1>3, <1>4 DEF ResultInv, WorkInv
<1>6. ResultInv'
  BY <1>1, <1>3, <1>4, <1>5, SameTurns DEF ResultInv
<1>7. PhaseInv'
  BY <1>1, <1>3, <1>4, SameTurns DEF PhaseInv, Independent
<1>8. WorkInv'
  BY <1>1, <1>3, <1>6, <1>7 DEF WorkInv
<1> QED
  BY <1>2, <1>8 DEF CodeInv

LEMMA FinishImportSettles == ASSUME SInv, CodeInv, FinishImport PROVE CodeInv'
<1>1. /\ turns' = turns /\ kept' = kept /\ job.kind = "run" /\ job.phase = "importing"
      /\ job' = To("draft") /\ job.turn # 0
      /\ container' = [container EXCEPT !.code = container.from, !.imported = TRUE]
  BY DEF FinishImport, store, Runs, SInv, JobInv
<1>2. PICK t, r, from : t = job.turn /\ r = container.root /\ from = container.from
  OBVIOUS
<1>3. /\ t \in Present /\ t \in Nat /\ (\A u \in Present : u <= t) /\ t # 0
      /\ PhaseInv /\ ResultInv /\ Grounded(turns[t]) /\ BoxInv
  BY <1>1, <1>2, JobKnows DEF CodeInv
<1>4. /\ r = turns[t].root /\ Independent(turns[t]) /\ Holds(from, r) /\ ~turns[t].sent
  BY <1>1, <1>2, <1>3 DEF PhaseInv
<1>5. r = t
  BY <1>3, <1>4 DEF CodeInv, OrderInv
<1>6. \A u \in Present : turns[u].root = r => turns[u].outcome = "none"
  BY <1>3, <1>4, <1>5, OnlyTurn DEF Grounded
<1>7. container = [root |-> r, status |-> container.status, code |-> container.code,
                   from |-> from, imported |-> container.imported]
  BY <1>2, <1>3 DEF BoxInv
<1>8. container' = [root |-> r, status |-> container.status, code |-> from,
                    from |-> from, imported |-> TRUE]
  BY <1>1, <1>2, <1>7
<1>9. /\ r = 0 \/ (r \in Present /\ turns[r].root = r)
      /\ \A w \in from \ {0} : w \in Present /\ w < r /\ SessionPermitted(w)
  BY <1>2, <1>3 DEF BoxInv
<1>10. BoxInv'
  <2>1. /\ container'.root = r /\ container'.status = container.status /\ container'.code = from
        /\ container'.from = from /\ container'.imported = TRUE
    BY <1>8
  <2>2. Whole(from) \/ ~Whole(from)
    OBVIOUS
  <2>3. container'.imported => Whole(container'.code) \/ ~Whole(container'.from)
    BY <2>1, <2>2
  <2>4. container' = [root |-> container'.root, status |-> container'.status,
                      code |-> container'.code, from |-> container'.from,
                      imported |-> container'.imported]
    BY <1>8, <2>1
  <2> QED
    BY <1>1, <1>4, <1>6, <1>9, <2>1, <2>3, <2>4, SameTurns DEF BoxInv, Whole
<1>11. container'.imported /\ container'.root = container.root
  BY <1>2, <1>8
<1> QED
  BY <1>1, <1>2, <1>3, <1>4, <1>10, <1>11, ImportEnds

LEMMA ImportSettles == ASSUME SInv, CodeInv, ImportSource PROVE CodeInv'
<1>1. /\ turns' = turns /\ kept' = kept /\ job.kind = "run" /\ job.phase = "ensured"
      /\ job.turn # 0
  BY DEF ImportSource, store, Runs, SInv, JobInv
<1>2. PICK t, r, code : t = job.turn /\ r = container.root /\ code = container.code
  OBVIOUS
<1>3. /\ t \in Present /\ t \in Nat /\ (\A u \in Present : u <= t) /\ t # 0 /\ IsJob(job)
      /\ PhaseInv /\ WorkInv /\ ResultInv /\ Grounded(turns[t]) /\ BoxInv
  BY <1>1, <1>2, JobKnows DEF CodeInv
<1>4. /\ r = turns[t].root /\ ~turns[t].sent /\ SessionPermitted(t) /\ job.row.archive = Empty
      /\ ~job.ok /\ job.row.outcome = "none"
  BY <1>1, <1>2, <1>3 DEF PhaseInv, ResultInv, WorkInv
<1>5. Independent(turns[t]) => r = t
  BY <1>3, <1>4 DEF CodeInv, OrderInv
<1>6. container = [root |-> r, status |-> container.status, code |-> code,
                   from |-> container.from, imported |-> container.imported]
  BY <1>2, <1>3 DEF BoxInv
<1>7. /\ r = 0 \/ (r \in Present /\ turns[r].root = r)
      /\ \A w \in code \ {0} :
           w \in Present /\ (turns[w].root = r \/ (w < r /\ SessionPermitted(w)))
      /\ \A w \in container.from \ {0} : w \in Present /\ w < r /\ SessionPermitted(w)
      /\ \/ container.imported \/ \E u \in Present : turns[u].root = r /\ turns[u].sent
         => Holds(code, r)
      /\ \A u \in Present : turns[u].root = r /\ turns[u].outcome # "none" => u \in code
      /\ container.imported => Whole(code) \/ ~Whole(container.from)
  BY <1>2, <1>3 DEF BoxInv
<1> DEFINE has == ~Independent(turns[t]) \/ container.imported
           src == SourceOf(t)
           filled == IF code = Empty THEN {} ELSE code
<1>8. CASE /\ has \/ src.kind = "none"
           /\ container' = [container EXCEPT !.code = IF @ = Empty THEN {} ELSE @]
           /\ job' = To("draft")
  <2>1. container' = [root |-> r, status |-> container.status, code |-> filled,
                      from |-> container.from, imported |-> container.imported]
    BY <1>2, <1>6, <1>8
  <2>2. ~has => PriorQuestion(t) = {}
    BY <1>8 DEF SourceOf
  <2>3. Holds(code, r)
    <3>1. CASE container.imported
      BY <1>7, <3>1
    <3>2. CASE ~Independent(turns[t])
      <4>1. t - 1 \in Present /\ turns[t - 1].sent /\ turns[t - 1].root = r
        BY <1>3, <1>4, <3>2 DEF CodeInv, OrderInv
      <4> QED
        BY <1>7, <4>1
    <3>3. CASE ~has
      BY <1>3, <1>5, <2>2, <3>3, NothingBefore
    <3> QED
      BY <3>1, <3>2, <3>3
  <2>4. Present \subseteq Nat \ {0}
    BY Numbers DEF SInv
  <2>5. \A u \in Present : u \in code => u \in filled
    BY <2>4 DEF Empty
  <2>6. filled \subseteq code
    OBVIOUS
  <2>7. Whole(code) => Whole(filled)
    BY DEF Whole
  <2>8. Holds(filled, r)
    BY <2>3, <2>5 DEF Holds
  <2> HIDE DEF filled
  <2>9. BoxInv'
    <3>1. /\ container'.root = r /\ container'.status = container.status
          /\ container'.code = filled
          /\ container'.from = container.from /\ container'.imported = container.imported
      BY <2>1
    <3>2. container' = [root |-> container'.root, status |-> container'.status,
                        code |-> container'.code, from |-> container'.from,
                        imported |-> container'.imported]
      BY <2>1, <3>1
    <3>3. container'.imported => Whole(container'.code) \/ ~Whole(container'.from)
      BY <1>7, <2>7, <3>1
    <3>4. \A u \in Present : turns[u].root = r /\ turns[u].outcome # "none" => u \in filled
      BY <1>7, <2>5
    <3>5. \A w \in filled \ {0} :
            w \in Present /\ (turns[w].root = r \/ (w < r /\ SessionPermitted(w)))
      BY <1>7, <2>6
    <3> QED
      BY <1>1, <1>7, <2>8, <3>1, <3>2, <3>3, <3>4, <3>5, SameTurns DEF BoxInv, Whole
  <2>10. /\ container'.root = container.root
         /\ ~Independent(turns[t]) \/ container'.imported \/ PriorQuestion(t) = {}
    BY <1>2, <2>1, <2>2
  <2> QED
    BY <1>1, <1>2, <1>3, <1>4, <1>8, <2>9, <2>10, ImportEnds
<1>9. CASE job' = Failed /\ container' = container
  <2>1. SameCode
    BY <1>9, BoxesSame DEF CodeInv
  <2> QED
    BY <1>1, <1>4, <1>9, <2>1, FailsPlainly
<1>10. CASE /\ ~has /\ src.kind # "none" /\ src.good
            /\ container' = [container EXCEPT !.code = src.code \cup {0}, !.from = src.code]
            /\ job' = To("importing")
  <2>1. PICK c : c = src.code
    OBVIOUS
  <2>2. /\ Holds(c, t) /\ \A w \in c \ {0} : w \in Present /\ w < t /\ SessionPermitted(w)
    BY <1>3, <1>10, <2>1, SourceServes
  <2>3. r = t /\ Independent(turns[t])
    BY <1>5, <1>10
  <2>4. /\ job'.turn = t /\ job'.kind = "run" /\ job'.phase = "importing"
        /\ job'.row = job.row /\ job'.ok = job.ok
    BY <1>1, <1>2, <1>3, <1>10 DEF To, IsJob
  <2>5. container' = [root |-> r, status |-> container.status, code |-> c \cup {0},
                      from |-> c, imported |-> container.imported]
    <3>1. PICK d : d = c \cup {0}
      OBVIOUS
    <3>2. container' = [container EXCEPT !.code = d, !.from = c]
      BY <1>10, <2>1, <3>1
    <3>3. container' = [root |-> r, status |-> container.status, code |-> d,
                        from |-> c, imported |-> container.imported]
      <4>1. PICK s, g, i : s = container.status /\ g = container.from /\ i = container.imported
        OBVIOUS
      <4>2. container = [root |-> r, status |-> s, code |-> code, from |-> g, imported |-> i]
        BY <1>6, <4>1
      <4>3. container' = [root |-> r, status |-> s, code |-> d, from |-> c, imported |-> i]
        BY <3>2, <4>2
      <4> QED
        BY <4>1, <4>3
    <3> QED
      BY <3>1, <3>3
  <2>6. \A u \in Present : turns[u].root = r => ~turns[u].sent /\ turns[u].outcome = "none"
    BY <1>3, <1>4, <2>3, OnlyTurn DEF Grounded
  <2>7. /\ container'.root = r /\ container'.status = container.status
        /\ container'.code = c \cup {0} /\ container'.from = c /\ ~container'.imported
    <3>1. ~container.imported
      BY <1>10
    <3> QED
      BY <2>5, <3>1
  <2>8. BoxInv'
    <3>1. container' = [root |-> container'.root, status |-> container'.status,
                        code |-> container'.code, from |-> container'.from,
                        imported |-> container'.imported]
      BY <2>5, <2>7
    <3>2. ~Drafting'
      BY <2>4 DEF Drafting
    <3>3. \A w \in (c \cup {0}) \ {0} :
            w \in Present /\ (turns[w].root = r \/ (w < r /\ SessionPermitted(w)))
      BY <2>2, <2>3
    <3>4. \A w \in c \ {0} : w \in Present /\ w < r /\ SessionPermitted(w)
      BY <2>2, <2>3
    <3> QED
      BY <1>1, <1>7, <2>6, <2>7, <3>1, <3>2, <3>3, <3>4, SameTurns DEF BoxInv
  <2>9. OrderInv' /\ CopiesInv' /\ SnapshotsInv'
    BY <1>1, RowsSame
  <2>10. ResultInv'
    BY <1>1, <1>2, <1>3, <1>4, <2>4, SameTurns DEF ResultInv
  <2>12. PhaseInv'
    BY <1>1, <1>2, <1>3, <1>4, <2>2, <2>3, <2>4, <2>7, SameTurns DEF PhaseInv, Independent
  <2>13. WorkInv'
    BY <1>1, <1>2, <1>3, <2>4, <2>10, <2>12 DEF WorkInv
  <2> QED
    BY <2>8, <2>9, <2>13 DEF CodeInv
<1>11. \/ /\ has \/ src.kind = "none"
          /\ container' = [container EXCEPT !.code = IF @ = Empty THEN {} ELSE @]
          /\ job' = To("draft")
       \/ job' = Failed /\ container' = container
       \/ /\ ~has /\ src.kind # "none" /\ src.good
          /\ container' = [container EXCEPT !.code = src.code \cup {0}, !.from = src.code]
          /\ job' = To("importing")
  BY <1>2 DEF ImportSource
<1> QED
  BY <1>8, <1>9, <1>10, <1>11

\* What counts for the first question of a session and its own calls are all
\* that counts for a later one.
LEMMA BoxHolds ==
  ASSUME SInv, CodeInv, NEW t \in Present, container.root = turns[t].root,
         Holds(container.code, container.root)
  PROVE  Holds(container.code, t)
<1>1. PICK r, code : r = container.root /\ code = container.code
  OBVIOUS
<1>2. /\ r = 0 \/ (r \in Present /\ turns[r].root = r)
      /\ Holds(code, r)
      /\ \A u \in Present : turns[u].root = r /\ turns[u].outcome # "none" => u \in code
  BY <1>1 DEF CodeInv, BoxInv
<1>3. /\ turns[t].root = r /\ r \in Nat /\ r <= t /\ t \in Nat /\ Present \subseteq Nat
  BY <1>1, <1>2, Numbers DEF SInv
<1>4. ASSUME NEW u \in Present, u < t, Counts(u, t) PROVE u \in code
  <2>1. u \in Nat /\ Grounded(turns[u])
    BY <1>3, Numbers DEF SInv, CodeInv, OrderInv
  <2>2. CASE u < r
    <3>1. (u + 1) .. r \subseteq (u + 1) .. t
      BY <1>3, <2>1
    <3>2. Counts(u, r)
      BY <1>4, <3>1 DEF Counts
    <3> QED
      BY <1>2, <2>2, <3>2 DEF Holds
  <2>3. CASE ~(u < r)
    <3>1. turns[u].root \in Nat /\ turns[u].root <= u
      BY Numbers DEF SInv
    <3>2. turns[u].root = r
      <4>1. turns[t].root = turns[u].root \/ u < turns[t].root
        BY <1>4 DEF CodeInv, OrderInv
      <4> QED
        BY <1>3, <2>1, <2>3, <4>1
    <3>3. turns[u].outcome # "none"
      BY <1>4, <2>1 DEF Counts, Grounded, DisputedReady
    <3> QED
      BY <1>2, <3>2, <3>3
  <2> QED
    BY <2>2, <2>3
<1> QED
  BY <1>1, <1>4 DEF Holds

\* What is copied of the workspace after a call of the last turn.
LEMMA BoxServes ==
  ASSUME SInv, CodeInv, NEW t \in Present, \A u \in Present : u <= t,
         container.root = turns[t].root, turns[t].sent, t \in container.code
  PROVE  Taken(container.code, t) /\ container.code # Empty
<1>1. PICK r, code : r = container.root /\ code = container.code
  OBVIOUS
<1>2. /\ \A w \in code \ {0} :
           w \in Present /\ (turns[w].root = r \/ (w < r /\ SessionPermitted(w)))
      /\ Holds(container.code, container.root)
  BY <1>1 DEF CodeInv, BoxInv
<1>3. Holds(code, t)
  BY <1>1, <1>2, BoxHolds
<1>4. Taken(code, t)
  BY <1>1, <1>2, <1>3 DEF Taken
<1>5. t # 0
  BY Numbers DEF SInv
<1> QED
  BY <1>1, <1>4, <1>5 DEF Empty

LEMMA RefusedSettles ==
  ASSUME SInv, CodeInv, NEW cause, DraftRefused(cause)
  PROVE  CodeInv'
<1>1. /\ turns' = turns /\ kept' = kept /\ container' = container /\ job.kind = "run"
      /\ job.phase = "draft" /\ job.turn # 0 /\ job' = [Failed EXCEPT !.row.stage = cause]
  BY DEF DraftRefused, store, disk, Runs, SInv, JobInv
<1>2. SameCode
  BY <1>1, BoxesSame DEF CodeInv
<1>3. job.row.archive = Empty
  BY <1>1, JobKnows DEF PhaseInv
<1> QED
  BY <1>1, <1>2, <1>3, FailsPlainly

LEMMA CallSettles ==
  ASSUME SInv, CodeInv, NEW outcome, NEW permitted \in BOOLEAN, CallEnds(outcome, permitted)
  PROVE  CodeInv'
<1> DEFINE completed == outcome = "complete" /\ permitted
           result == IF completed THEN "complete" ELSE "error"
           row == [job.row EXCEPT !.outcome = result,
                                  !.gateway = outcome = "gateway" /\ permitted,
                                  !.permitted = permitted]
<1>1. /\ turns' = turns /\ kept' = kept /\ job.kind = "run" /\ job.phase = "sent"
      /\ job.turn # 0 /\ container' = [container EXCEPT !.code = @ \cup {job.turn}]
      /\ job' = IF completed THEN [job EXCEPT !.phase = "answered", !.row = row]
                ELSE Done(row, FALSE, "none")
  BY DEF CallEnds, store, Runs, SInv, JobInv
<1>2. PICK t, r, code, from : /\ t = job.turn /\ r = container.root /\ code = container.code
                              /\ from = container.from
  OBVIOUS
<1>3. /\ t \in Present /\ t \in Nat /\ t # 0 /\ IsJob(job) /\ IsRow(job.row)
      /\ PhaseInv /\ ResultInv /\ WorkInv /\ BoxInv
  BY <1>1, <1>2, JobKnows DEF CodeInv
<1>4. /\ turns[t].work = "run" /\ ~job.row.disputed /\ job.row.archive = Empty
      /\ r = turns[t].root /\ turns[t].sent /\ ~job.ok /\ turns[t].permitted
  BY <1>1, <1>2, <1>3 DEF PhaseInv, ResultInv
<1>5. /\ row.outcome = result /\ row.permitted = permitted
      /\ row.sent = job.row.sent /\ row.archive = job.row.archive
      /\ row.disputed = job.row.disputed /\ row.planned = job.row.planned
      /\ row.continuation = job.row.continuation /\ row.recovery = job.row.recovery
  <2> DEFINE Out(x, q) == /\ x.outcome = result /\ x.permitted = permitted
                          /\ x.sent = q.sent /\ x.archive = q.archive
                          /\ x.disputed = q.disputed /\ x.planned = q.planned
                          /\ x.continuation = q.continuation /\ x.recovery = q.recovery
  <2>1. ASSUME NEW q, IsRow(q), NEW g
        PROVE  Out([q EXCEPT !.outcome = result, !.gateway = g, !.permitted = permitted], q)
    <3> HIDE DEF result
    <3> QED
      BY <2>1 DEF IsRow
  <2>2. Out(row, job.row)
    <3> HIDE DEF Out
    <3> QED
      BY <1>3, <2>1
  <2> QED
    BY <2>2
<1> HIDE DEF row
<1>6. /\ job'.turn = t /\ job'.kind = "run" /\ job'.row = row /\ ~job'.ok
      /\ completed => job'.phase = "answered"
      /\ ~completed => job'.phase = "done"
  BY <1>1, <1>2, <1>3, <1>4 DEF IsJob, Done
<1>7. OrderInv' /\ CopiesInv' /\ SnapshotsInv'
  BY <1>1, RowsSame
<1>8. PICK c : c = code \cup {t}
  OBVIOUS
<1>9. /\ container'.root = r /\ container'.code = c /\ container'.from = from
      /\ container'.imported = container.imported
      /\ container' = [root |-> container'.root, status |-> container'.status,
                       code |-> container'.code, from |-> container'.from,
                       imported |-> container'.imported]
  <2>1. container = [root |-> container.root, status |-> container.status,
                     code |-> container.code, from |-> container.from,
                     imported |-> container.imported]
    BY <1>3 DEF BoxInv
  <2>2. container' = [container EXCEPT !.code = c]
    BY <1>1, <1>2, <1>8
  <2> QED
    BY <1>2, <2>1, <2>2
<1>10. BoxInv'
  <2>1. /\ r = 0 \/ (r \in Present /\ turns[r].root = r)
        /\ \A w \in code \ {0} :
             w \in Present /\ (turns[w].root = r \/ (w < r /\ SessionPermitted(w)))
        /\ \A w \in from \ {0} : w \in Present /\ w < r /\ SessionPermitted(w)
        /\ \A u \in Present : turns[u].root = r /\ turns[u].outcome # "none" => u \in code
        /\ container.imported => Whole(code) \/ ~Whole(from)
        /\ Holds(code, r)
    BY <1>2, <1>3, <1>4 DEF BoxInv
  <2>2. Holds(c, r)
    BY <1>8, <2>1 DEF Holds
  <2>3. Whole(code) => Whole(c)
    BY <1>3, <1>8 DEF Whole
  <2>4. /\ \A w \in c \ {0} :
             w \in Present /\ (turns[w].root = r \/ (w < r /\ SessionPermitted(w)))
        /\ \A u \in Present : turns[u].root = r /\ turns[u].outcome # "none" => u \in c
    BY <1>3, <1>4, <1>8, <2>1
  <2>5. container'.imported => Whole(c) \/ ~Whole(from)
    BY <1>9, <2>1, <2>3
  <2> QED
    BY <1>1, <1>9, <2>1, <2>2, <2>4, <2>5, SameTurns DEF BoxInv, Whole
<1>11. job.row.sent
  BY <1>1, <1>2, <1>3, <1>4 DEF WorkInv
<1>12. ResultInv'
  <2>1. t \in container'.code
    BY <1>8, <1>9
  <2>2. job.row.continuation.state \notin {"ready", "planned", "continued"}
    BY <1>3, <1>4 DEF ResultInv
  <2>3. result # "none" /\ row.archive = Empty /\ ~row.disputed /\ row.sent /\ ~job'.ok
    BY <1>4, <1>5, <1>6, <1>11
  <2> QED
    BY <1>1, <1>4, <1>5, <1>6, <2>1, <2>2, <2>3 DEF ResultInv
<1>13. PhaseInv'
  <2>1. completed => row.outcome = "complete" /\ row.permitted
    BY <1>5
  <2>2. turns'[t].work = "run" /\ turns'[t].sent /\ container'.root = turns'[t].root
    BY <1>1, <1>4, <1>9
  <2>3. row.archive = Empty /\ ~row.disputed
    BY <1>4, <1>5
  <2> HIDE DEF completed
  <2>4. \/ job'.phase = "answered" /\ row.outcome = "complete" /\ row.permitted
        \/ job'.phase = "done"
    BY <1>6, <2>1
  <2> QED
    BY <1>6, <2>2, <2>3, <2>4 DEF PhaseInv
<1>14. WorkInv'
  <2>1. /\ HasState(job.row.recovery) /\ HasState(job.row.continuation)
        /\ job.row.planned = turns[t].planned /\ job.row.sent = turns[t].sent
    BY <1>2, <1>3 DEF WorkInv
  <2> QED
    BY <1>1, <1>5, <1>6, <1>12, <1>13, <2>1 DEF WorkInv
<1> QED
  BY <1>7, <1>10, <1>14 DEF CodeInv

LEMMA EvaluateSettles ==
  ASSUME SInv, CodeInv, NEW bugs, NEW next, Evaluate(bugs, next)
  PROVE  CodeInv'
<1> DEFINE row == [job.row EXCEPT !.bugs = bugs, !.archive = container.code]
<1>1. /\ turns' = turns /\ kept' = kept /\ container' = container /\ job.kind = "run"
      /\ job.phase = "answered" /\ job.turn # 0 /\ job' = Done(row, TRUE, next)
  BY DEF Evaluate, store, disk, Runs, SInv, JobInv
<1>2. PICK t, code : t = job.turn /\ code = container.code
  OBVIOUS
<1>3. /\ t \in Present /\ t # 0 /\ (\A u \in Present : u <= t) /\ IsJob(job) /\ IsRow(job.row)
      /\ PhaseInv /\ ResultInv /\ WorkInv
  BY <1>1, <1>2, JobKnows
<1>4. /\ container.root = turns[t].root /\ turns[t].sent /\ job.row.outcome = "complete"
      /\ job.row.permitted /\ ~job.row.disputed /\ turns[t].work = "run" /\ turns[t].permitted
      /\ t \in code
  BY <1>1, <1>2, <1>3 DEF PhaseInv, ResultInv
<1>5. Taken(code, t) /\ code # Empty
  BY <1>2, <1>3, <1>4, BoxServes
<1>6. /\ row.archive = code
      /\ row.sent = job.row.sent /\ row.outcome = job.row.outcome
      /\ row.permitted = job.row.permitted
      /\ row.disputed = job.row.disputed /\ row.planned = job.row.planned
      /\ row.continuation = job.row.continuation /\ row.recovery = job.row.recovery
  <2> DEFINE Out(x, q) == /\ x.archive = code
                          /\ x.sent = q.sent /\ x.outcome = q.outcome
                          /\ x.permitted = q.permitted
                          /\ x.disputed = q.disputed /\ x.planned = q.planned
                          /\ x.continuation = q.continuation /\ x.recovery = q.recovery
  <2>1. ASSUME NEW q, IsRow(q) PROVE Out([q EXCEPT !.bugs = bugs, !.archive = code], q)
    BY <2>1 DEF IsRow
  <2>2. Out(row, job.row)
    <3> HIDE DEF Out
    <3> QED
      BY <1>2, <1>3, <2>1
  <2> QED
    BY <2>2
<1> HIDE DEF row
<1>7. /\ job'.turn = t /\ job'.kind = "run" /\ job'.row = row /\ job'.ok /\ job'.phase = "done"
  BY <1>1, <1>2, <1>3 DEF IsJob, Done
<1>8. OrderInv' /\ CopiesInv' /\ SnapshotsInv' /\ BoxInv'
  <2>1. SameCode /\ ~Drafting'
    BY <1>1, <1>7, BoxesSame DEF CodeInv, Drafting
  <2> QED
    BY <1>1, <2>1, RowsSame, BoxSame DEF CodeInv
<1>9. job.row.sent
  BY <1>1, <1>2, <1>3, <1>4 DEF WorkInv
<1>10. job.row.continuation.state \notin {"ready", "planned", "continued"}
  BY <1>3, <1>4 DEF ResultInv
<1>11. Taken(code, t)'
  BY <1>1, <1>5, SameTurns
<1>12. ResultInv'
  BY <1>1, <1>2, <1>4, <1>5, <1>6, <1>7, <1>9, <1>10, <1>11 DEF ResultInv
<1>13. PhaseInv'
  BY <1>1, <1>4, <1>6, <1>7 DEF PhaseInv
<1>14. WorkInv'
  <2>1. /\ HasState(job.row.recovery) /\ HasState(job.row.continuation)
        /\ job.row.planned = turns[t].planned /\ job.row.sent = turns[t].sent
    BY <1>2, <1>3 DEF WorkInv
  <2> QED
    BY <1>1, <1>6, <1>7, <1>12, <1>13, <2>1 DEF WorkInv
<1> QED
  BY <1>8, <1>14 DEF CodeInv

LEMMA DisputeSettles ==
  ASSUME SInv, CodeInv, NEW bugs, EvaluateDisputed(bugs)
  PROVE  CodeInv'
<1> DEFINE row == [job.row EXCEPT !.bugs = bugs, !.disputed = TRUE]
<1>1. /\ turns' = turns /\ kept' = kept /\ container' = container /\ job.kind = "run"
      /\ job.phase = "answered" /\ job.turn # 0
      /\ job' = [job EXCEPT !.kind = "dispute", !.phase = "begun",
                            !.row.bugs = bugs, !.row.disputed = TRUE]
  BY DEF EvaluateDisputed, store, disk, Runs, SInv, JobInv
<1>2. PICK t : t = job.turn
  OBVIOUS
<1>3. /\ t \in Present /\ t # 0 /\ IsJob(job) /\ IsRow(job.row)
      /\ PhaseInv /\ ResultInv /\ WorkInv
  BY <1>1, <1>2, JobKnows
<1>4. /\ job.row.outcome = "complete" /\ job.row.permitted /\ ~job.row.disputed
      /\ turns[t].permitted /\ job.row.archive = Empty /\ ~job.ok
  BY <1>1, <1>2, <1>3 DEF PhaseInv, ResultInv
<1>5. /\ row.disputed = TRUE /\ row.archive = job.row.archive
      /\ row.sent = job.row.sent /\ row.outcome = job.row.outcome
      /\ row.permitted = job.row.permitted /\ row.planned = job.row.planned
      /\ row.continuation = job.row.continuation /\ row.recovery = job.row.recovery
  <2> DEFINE Out(x, q) == /\ x.disputed = TRUE /\ x.archive = q.archive
                          /\ x.sent = q.sent /\ x.outcome = q.outcome
                          /\ x.permitted = q.permitted /\ x.planned = q.planned
                          /\ x.continuation = q.continuation /\ x.recovery = q.recovery
  <2>1. ASSUME NEW q, IsRow(q) PROVE Out([q EXCEPT !.bugs = bugs, !.disputed = TRUE], q)
    BY <2>1 DEF IsRow
  <2>2. Out(row, job.row)
    <3> HIDE DEF Out
    <3> QED
      BY <1>3, <2>1
  <2> QED
    BY <2>2
<1>6. job' = [job EXCEPT !.kind = "dispute", !.phase = "begun", !.row = row]
  BY <1>1, <1>3 DEF IsJob
<1> HIDE DEF row
<1>7. /\ job'.turn = t /\ job'.kind = "dispute" /\ job'.row = row /\ job'.ok = job.ok
      /\ job'.phase = "begun"
  BY <1>2, <1>3, <1>6 DEF IsJob
<1>8. OrderInv' /\ CopiesInv' /\ SnapshotsInv' /\ BoxInv'
  <2>1. BoxInv /\ SameCode /\ ~Drafting'
    BY <1>1, <1>7, BoxesSame DEF CodeInv, Drafting
  <2>2. BoxInv'
    BY <1>1, <2>1, BoxSame
  <2> QED
    BY <1>1, <2>2, RowsSame
<1>9. job.row.continuation.state \notin {"ready", "planned", "continued"}
  BY <1>3, <1>4 DEF ResultInv
<1>10. ResultInv'
  <2>1. /\ row.outcome = "complete" /\ row.permitted /\ row.archive = Empty
        /\ row.continuation.state \notin {"ready", "planned", "continued"}
    BY <1>4, <1>5, <1>9
  <2>2. row.sent /\ (container.root = turns[t].root => t \in container.code)
    BY <1>2, <1>3, <1>4, <1>5 DEF ResultInv
  <2> QED
    BY <1>1, <1>4, <1>7, <2>1, <2>2 DEF ResultInv
<1>11. PhaseInv'
  BY <1>7 DEF PhaseInv
<1>12. WorkInv'
  <2>1. /\ HasState(job.row.recovery) /\ HasState(job.row.continuation)
        /\ job.row.planned = turns[t].planned /\ job.row.sent = turns[t].sent
    BY <1>2, <1>3 DEF WorkInv
  <2>2. turns[t].archive = Empty
    <3>1. turns[t].work = "run" /\ turns[t].status = "running" /\ Grounded(turns[t])
      BY <1>1, <1>2, <1>3, JobKnows DEF PhaseInv
    <3> QED
      BY <3>1 DEF Grounded, Active
  <2> QED
    BY <1>1, <1>5, <1>7, <1>10, <1>11, <2>1, <2>2 DEF WorkInv
<1> QED
  BY <1>8, <1>12 DEF CodeInv

\* A plan goes on: the job's row is as it was, save for what is planned.
LEMMA PlanGoesOn ==
  ASSUME SInv, CodeInv, turns' = turns, kept' = kept, container' = container,
         job.turn # 0, job.kind # "run", job'.turn = job.turn, job'.kind = job.kind,
         job'.row.sent = job.row.sent, job'.row.outcome = job.row.outcome,
         job'.row.permitted = job.row.permitted, job'.row.archive = job.row.archive,
         job'.row.disputed = job.row.disputed, job'.row.planned = job.row.planned,
         HasState(job'.row.recovery), HasState(job'.row.continuation),
         job.kind = "plan" => job'.row.recovery = job.row.recovery /\ job'.ok,
         job.kind # "replan" =>
           \/ job'.row.continuation = job.row.continuation
           \/ job.row.disputed /\ kept.retained[job.turn] # Empty,
         job.kind = "dispute" => ~job'.ok /\ job'.phase # "retained",
         job.kind = "replan" => kept.replan[job.turn] # Empty
  PROVE  CodeInv'
<1>1. PICK t, q, r : t = job.turn /\ q = job.row /\ r = job'.row
  OBVIOUS
<1>2. WorkInv /\ (job.kind # "replan" => ResultInv)
  BY JobKnows
<1>3. OrderInv' /\ CopiesInv' /\ SnapshotsInv' /\ BoxInv'
  <2>1. SameCode /\ ~Drafting'
    BY BoxesSame DEF CodeInv, Drafting
  <2> QED
    BY <2>1, RowsSame, BoxSame DEF CodeInv
<1>4. \A code : Taken(code, t) => Taken(code, t)'
  BY SameTurns
<1>5. ASSUME job.kind # "replan" PROVE ResultInv'
  <2>1. /\ q.outcome # "none" => q.sent /\ (container.root = turns[t].root => t \in container.code)
        /\ q.outcome = "none" => q.permitted
        /\ q.archive # Empty => /\ Taken(q.archive, t) /\ q.outcome = "complete" /\ q.permitted
                                /\ ~q.disputed
        /\ q.disputed => q.outcome # "none" /\ q.permitted
        /\ turns[t].permitted
    BY <1>1, <1>2, <1>5 DEF ResultInv
  <2>2. r.continuation.state \in {"ready", "planned", "continued"} => r.disputed
    BY <1>1, <1>2, <1>5 DEF ResultInv
  <2>3. r.disputed /\ r.continuation.state \in {"ready", "planned", "continued"}
          => kept.retained[t] # Empty
    BY <1>1, <1>2, <1>5 DEF ResultInv
  <2>4. job.kind \in {"plan", "dispute"}
    BY <1>2, <1>5 DEF WorkInv
  <2>5. job.kind = "plan" => q.archive # Empty
    BY <1>1, <1>2 DEF WorkInv
  <2>6. job.kind = "dispute" => q.disputed
    BY <1>1, <1>2 DEF WorkInv
  <2>7. /\ job'.ok => r.archive # Empty
        /\ r.archive # Empty /\ job'.phase = "done" => job'.ok
    BY <1>1, <2>1, <2>4, <2>5, <2>6
  <2>8. r.archive # Empty => Taken(r.archive, t)'
    BY <1>1, <1>4, <2>1
  <2>9. /\ r.outcome = q.outcome /\ r.sent = q.sent /\ r.permitted = q.permitted
        /\ r.archive = q.archive /\ r.disputed = q.disputed /\ job'.row = r /\ job'.turn = t
    BY <1>1
  <2> QED
    BY <2>1, <2>2, <2>3, <2>7, <2>8, <2>9 DEF ResultInv
<1>6. PhaseInv'
  BY DEF PhaseInv
<1>7. WorkInv'
  BY <1>1, <1>2, <1>5, <1>6 DEF WorkInv
<1> QED
  BY <1>3, <1>7 DEF CodeInv

LEMMA PlanAgainSettles ==
  ASSUME SInv, CodeInv, NEW next, PlanAgain(next)
  PROVE  CodeInv'
<1>1. /\ turns' = turns /\ kept' = kept /\ container' = container /\ job.kind = "plan"
      /\ job.turn # 0 /\ job' = Done(job.row, TRUE, next)
  BY DEF PlanAgain, store, disk, Runs, SInv, JobInv
<1>2. IsJob(job) /\ WorkInv
  BY <1>1, JobKnows
<1>3. job'.turn = job.turn /\ job'.kind = "plan" /\ job'.row = job.row /\ job'.ok
  BY <1>1, <1>2 DEF IsJob, Done
<1>4. HasState(job.row.recovery) /\ HasState(job.row.continuation)
  BY <1>1, <1>2 DEF WorkInv
<1> QED
  BY <1>1, <1>3, <1>4, PlanGoesOn

LEMMA PlanDisputedSettles ==
  ASSUME SInv, CodeInv, NEW next, PlanDisputed(next)
  PROVE  CodeInv'
<1>1. /\ turns' = turns /\ kept' = kept /\ container' = container /\ job.kind = "dispute"
      /\ job.phase = "retained" /\ job.turn # 0
      /\ \/ job' = [Failed EXCEPT !.row.continuation.state = "blocked", !.next = "error"]
         \/ job' = [Done(job.row, FALSE, next) EXCEPT !.row.continuation.state = "planned"]
  BY DEF PlanDisputed, store, disk, Runs, SInv, JobInv
<1>2. IsJob(job) /\ IsRow(job.row) /\ WorkInv
  BY <1>1, JobKnows
<1>3. CASE job' = [Failed EXCEPT !.row.continuation.state = "blocked", !.next = "error"]
  <2>1. SameCode
    BY <1>1, BoxesSame DEF CodeInv
  <2> QED
    BY <1>1, <1>3, <2>1, FailsPlainly
<1>4. CASE job' = [Done(job.row, FALSE, next) EXCEPT !.row.continuation.state = "planned"]
  <2> DEFINE row == [job.row EXCEPT !.continuation.state = "planned"]
  <2>1. HasState(job.row.recovery) /\ HasState(job.row.continuation)
        /\ job.row.disputed /\ kept.retained[job.turn] # Empty
    BY <1>1, <1>2 DEF WorkInv
  <2>2. /\ row.sent = job.row.sent /\ row.outcome = job.row.outcome
        /\ row.permitted = job.row.permitted /\ row.archive = job.row.archive
        /\ row.disputed = job.row.disputed /\ row.planned = job.row.planned
        /\ row.recovery = job.row.recovery /\ HasState(row.continuation)
    BY <1>2, <2>1 DEF IsRow, HasState
  <2>3. job' = [job EXCEPT !.phase = "done", !.row = row, !.ok = FALSE, !.next = next]
    BY <1>2, <1>4 DEF IsJob, Done
  <2> HIDE DEF row
  <2>4. /\ job'.turn = job.turn /\ job'.kind = "dispute" /\ job'.row = row /\ ~job'.ok
        /\ job'.phase = "done"
    BY <1>1, <1>2, <2>3 DEF IsJob
  <2> QED
    BY <1>1, <2>1, <2>2, <2>4, PlanGoesOn
<1> QED
  BY <1>1, <1>3, <1>4

LEMMA SuccessorSettles ==
  ASSUME SInv, CodeInv, NEW c, NEW accepted, PlanSuccessor(c, accepted)
  PROVE  CodeInv'
<1>1. /\ turns' = turns /\ kept' = kept /\ container' = container /\ job.kind = "replan"
      /\ job.phase = "closed" /\ job.turn # 0
      /\ \/ job' = [Done(job.row, TRUE, "planned") EXCEPT !.category = c]
         \/ job' = [Failed EXCEPT !.row.recovery.waits = <<>>]
         \/ job' = BlockedOnInputs
  BY DEF PlanSuccessor, store, disk, Runs, SInv, JobInv
<1>2. IsJob(job) /\ WorkInv
  BY <1>1, JobKnows
<1>3. CASE job' = [Done(job.row, TRUE, "planned") EXCEPT !.category = c]
  <2>1. /\ HasState(job.row.recovery) /\ HasState(job.row.continuation)
        /\ kept.replan[job.turn] # Empty
    BY <1>1, <1>2 DEF WorkInv
  <2>2. job'.turn = job.turn /\ job'.kind = "replan" /\ job'.row = job.row
    BY <1>1, <1>2, <1>3 DEF IsJob, Done
  <2> QED
    BY <1>1, <2>1, <2>2, PlanGoesOn
<1>4. CASE \/ job' = [Failed EXCEPT !.row.recovery.waits = <<>>]
           \/ job' = BlockedOnInputs
  <2>1. SameCode
    BY <1>1, BoxesSame DEF CodeInv
  <2> QED
    BY <1>1, <1>4, <2>1, FailsPlainly DEF BlockedOnInputs
<1> QED
  BY <1>1, <1>3, <1>4

LEMMA RetainDisputedSettles == ASSUME SInv, CodeInv, RetainDisputed PROVE CodeInv'
<1>1. /\ turns' = turns /\ container' = container /\ job.kind = "dispute" /\ job.turn # 0
      /\ \/ /\ container.root = turns[job.turn].root
            /\ kept' = [kept EXCEPT !.retained[job.turn] = container.code]
            /\ job' = [job EXCEPT !.phase = "retained",
                 !.row.continuation = [state |-> "ready", code |-> container.code]]
         \/ /\ job' = [Failed EXCEPT !.row.continuation.state = "blocked", !.next = "error"]
            /\ kept' = kept
  BY DEF RetainDisputed, store, Runs, SInv, JobInv
<1>2. PICK t, code : t = job.turn /\ code = container.code
  OBVIOUS
<1>3. /\ t \in Present /\ t # 0 /\ (\A u \in Present : u <= t) /\ IsJob(job) /\ IsRow(job.row)
      /\ WorkInv /\ ResultInv
  BY <1>1, <1>2, JobKnows
<1>4. SameCode
  BY <1>1, BoxesSame DEF CodeInv
<1>5. CASE /\ job' = [Failed EXCEPT !.row.continuation.state = "blocked", !.next = "error"]
           /\ kept' = kept
  BY <1>1, <1>4, <1>5, FailsPlainly
<1>6. CASE /\ container.root = turns[t].root
           /\ kept' = [kept EXCEPT !.retained[t] = code]
           /\ job' = [job EXCEPT !.phase = "retained",
                !.row.continuation = [state |-> "ready", code |-> code]]
  <2> DEFINE row == [job.row EXCEPT !.continuation = [state |-> "ready", code |-> code]]
  <2>1. /\ job.row.disputed /\ job.row.outcome # "none" /\ job.row.archive = Empty
        /\ t \in code /\ turns[t].sent /\ turns[t].permitted /\ job.row.permitted
        /\ ~job.ok
    BY <1>1, <1>2, <1>3, <1>6 DEF WorkInv, ResultInv
  <2>2. Taken(code, t) /\ code # Empty
    BY <1>2, <1>3, <1>6, <2>1, BoxServes
  <2>3. /\ row.sent = job.row.sent /\ row.outcome = job.row.outcome
        /\ row.permitted = job.row.permitted /\ row.archive = job.row.archive
        /\ row.disputed = job.row.disputed /\ row.planned = job.row.planned
        /\ row.recovery = job.row.recovery /\ HasState(row.continuation)
        /\ row.continuation.state = "ready"
    BY <1>3 DEF IsRow, HasState
  <2>4. job' = [job EXCEPT !.phase = "retained", !.row = row]
    BY <1>3, <1>6 DEF IsJob
  <2> HIDE DEF row
  <2>5. /\ job'.turn = t /\ job'.kind = "dispute" /\ job'.row = row /\ job'.ok = job.ok
        /\ job'.phase = "retained"
    BY <1>1, <1>2, <1>3, <2>4 DEF IsJob
  <2>6. /\ kept = [kind \in {"replan", "retained"} |-> kept[kind]]
        /\ kept.replan = [u \in Turns |-> kept.replan[u]]
        /\ kept.retained = [u \in Turns |-> kept.retained[u]]
    BY DEF CodeInv, CopiesInv
  <2>7. /\ kept'.replan = kept.replan
        /\ kept'.retained = [kept.retained EXCEPT ![t] = code]
        /\ kept' = [kind \in {"replan", "retained"} |-> kept'[kind]]
    BY <1>6, <2>6
  <2>8. /\ t \in Turns /\ kept'.retained = [u \in Turns |-> kept'.retained[u]]
        /\ kept'.retained[t] = code
        /\ \A u \in Turns : u # t => kept'.retained[u] = kept.retained[u]
    <3>1. t \in Turns
      BY <1>3 DEF Present
    <3>2. PICK f, g : f = kept.retained /\ g = kept'.retained
      OBVIOUS
    <3>3. f = [u \in Turns |-> f[u]] /\ g = [f EXCEPT ![t] = code]
      BY <2>6, <2>7, <3>2
    <3>4. g = [u \in Turns |-> g[u]] /\ g[t] = code /\ \A u \in Turns : u # t => g[u] = f[u]
      BY <3>1, <3>3
    <3> QED
      BY <3>1, <3>2, <3>4
  <2>9. Present' = Present /\ (\A c, u : Taken(c, u)' <=> Taken(c, u))
        /\ (\A u : DisputedReady(u)' <=> DisputedReady(u))
    BY <1>1, SameTurns
  <2>10. OrderInv'
    BY <1>1, <2>7, SameTurns DEF CodeInv, OrderInv
  <2>11. CopiesInv'
    <3>1. ASSUME NEW u \in Present PROVE CopiesOf(u)'
      <4>1. CopiesOf(u) /\ u \in Turns
        BY DEF CodeInv, CopiesInv, Present
      <4>2. turns[u].archive # Empty => Taken(turns[u].archive, u)'
        BY <1>1, <2>9, <4>1 DEF CopiesOf
      <4>3. kept'.retained[u] # Empty => \E c : kept'.retained[u] = c /\ Taken(c, u)
        BY <2>2, <2>8, <4>1 DEF CopiesOf
      <4>4. kept'.retained[u] # Empty => Taken(kept.retained[u], u)'
        BY <2>9, <4>3
      <4>5. DisputedReady(u)' => kept'.retained[u] # Empty
        BY <2>2, <2>8, <2>9, <4>1 DEF CopiesOf
      <4> QED
        BY <1>1, <4>2, <4>4, <4>5 DEF CopiesOf
    <3>2. \A u \in Turns \ Present : kept'.replan[u] = Empty /\ kept'.retained[u] = Empty
      BY <1>3, <2>7, <2>8 DEF CodeInv, CopiesInv
    <3>3. kept'.replan = [u \in Turns |-> kept'.replan[u]]
      BY <2>6, <2>7
    <3> QED
      BY <2>7, <2>8, <2>9, <3>1, <3>2, <3>3 DEF CopiesInv
  <2>12. SnapshotsInv'
    BY <1>1, <2>7, SameTurns DEF CodeInv, SnapshotsInv, ToReplan, Active
  <2>13. BoxInv'
    BY <1>1, <1>4, <2>5, BoxSame DEF CodeInv, Drafting
  <2>14. ResultInv'
    <3>1. kept'.retained[t] # Empty
      BY <2>2, <2>8
    <3> QED
      BY <1>1, <1>2, <1>3, <2>1, <2>3, <2>5, <3>1 DEF ResultInv
  <2>15. PhaseInv'
    BY <2>5 DEF PhaseInv
  <2>16. WorkInv'
    <3>1. /\ HasState(job.row.recovery)
          /\ job.row.planned = turns[t].planned /\ job.row.sent = turns[t].sent
          /\ turns[t].archive = Empty
      BY <1>1, <1>2, <1>3 DEF WorkInv
    <3>2. kept'.retained[t] # Empty
      BY <2>2, <2>8
    <3> QED
      BY <1>1, <2>1, <2>3, <2>5, <2>14, <2>15, <3>1, <3>2 DEF WorkInv
  <2> QED
    BY <2>10, <2>11, <2>12, <2>13, <2>16 DEF CodeInv
<1> QED
  BY <1>1, <1>2, <1>5, <1>6

\* The last archive that a successor may start from: there is none beyond it.
LEMMA LastArchive ==
  ASSUME SInv, CodeInv, NEW t \in Present, \A u \in Present : u <= t,
         turns[t].work = "replan"
  PROVE  /\ \A u \in Present : turns[u].archive # Empty /\ ~turns[u].excluded /\ SessionPermitted(u)
                               <=> u \in LastVerified(t)
         /\ LastVerified(t) # {} =>
              LET n == Latest(LastVerified(t)) IN
              /\ n \in Present /\ turns[n].archive # Empty /\ SessionPermitted(n)
              /\ Taken(turns[n].archive, n) /\ \A u \in LastVerified(t) : u <= n
<1>1. Present \subseteq Turns /\ t \in Nat /\ Present \subseteq Nat
  BY Numbers DEF SInv
<1>2. ASSUME NEW u \in Present, turns[u].archive # Empty, ~turns[u].excluded, SessionPermitted(u)
      PROVE  u \in LastVerified(t)
  <2>1. u \in Turns /\ Grounded(turns[u]) /\ Grounded(turns[t])
    BY <1>1 DEF CodeInv, OrderInv
  <2>2. CASE u = t
    <3>1. turns[u].back = "review"
      BY <1>2, <2>1, <2>2 DEF Grounded
    <3> QED
      BY <1>2, <2>2, <3>1 DEF LastVerified
  <2>3. CASE u # t
    <3>1. u < t
      BY <1>1, <2>3
    <3>2. turns[u].status \notin Active
      BY <2>1, <3>1 DEF SInv, TurnsInv
    <3>3. turns[u].status = "review"
      BY <1>2, <2>1, <3>2 DEF Grounded
    <3> QED
      BY <1>2, <3>3 DEF LastVerified, Archived
  <2> QED
    BY <2>2, <2>3
<1>3. ASSUME LastVerified(t) # {}
      PROVE  LET n == Latest(LastVerified(t)) IN
             /\ n \in Present /\ turns[n].archive # Empty /\ SessionPermitted(n)
             /\ Taken(turns[n].archive, n) /\ \A u \in LastVerified(t) : u <= n
  <2>1. LastVerified(t) \subseteq Turns
    BY <1>1 DEF LastVerified
  <2>2. \E n \in LastVerified(t) : \A u \in LastVerified(t) : u <= n
    BY <1>3, <2>1, LargestTurn
  <2>3. PICK n : n = Latest(LastVerified(t))
    OBVIOUS
  <2>4. n \in LastVerified(t) /\ \A u \in LastVerified(t) : u <= n
    BY <2>2, <2>3 DEF Latest
  <2>5. n \in Present /\ turns[n].archive # Empty /\ SessionPermitted(n)
    BY <2>4 DEF LastVerified
  <2>6. Taken(turns[n].archive, n)
    BY <2>5 DEF CodeInv, CopiesInv, CopiesOf
  <2> QED
    BY <2>3, <2>4, <2>5, <2>6
<1> QED
  BY <1>2, <1>3 DEF LastVerified

\* What a plan may start from the idle workspace: nothing of a session that asked
\* for a permission.
LEMMA IdleServes ==
  ASSUME SInv, CodeInv, NEW t \in Present, \A u \in Present : u <= t,
         Identity(t), turns[t].sent => SessionPermitted(t)
  PROVE  \A w \in container.code \ {0} : w \in Present /\ w <= t /\ SessionPermitted(w)
<1>1. PICK r : r = container.root
  OBVIOUS
<1>2. ASSUME NEW w \in container.code \ {0}
      PROVE  w \in Present /\ w <= t /\ (turns[w].root = r \/ SessionPermitted(w))
  BY <1>1 DEF CodeInv, BoxInv
<1>3. \A w \in Present : /\ turns[w].root \in Nat /\ turns[w].root <= w /\ w \in Nat
  BY Numbers DEF SInv
<1>4. Grounded(turns[t])
  BY Numbers DEF SInv, CodeInv, OrderInv
<1>5. CASE r = turns[t].root /\ (turns[t].continues = 0 \/ turns[t].sent)
  <2>1. SessionPermitted(t)
    <3>1. CASE turns[t].sent
      BY <3>1
    <3>2. CASE ~turns[t].sent /\ Independent(turns[t])
      <4>1. turns[t].root = t
        BY <3>2 DEF CodeInv, OrderInv
      <4>2. turns[t].permitted
        BY <1>4, <3>2 DEF Grounded
      <4> QED
        BY <4>1, <4>2, OnlyTurn DEF SessionPermitted, Session
    <3>3. CASE ~turns[t].sent /\ ~Independent(turns[t])
      <4>1. t + 1 \notin Present
        BY <1>3
      <4> QED
        BY <3>3, <4>1 DEF CodeInv, OrderInv
    <3> QED
      BY <3>1, <3>2, <3>3
  <2>2. \A w \in Present : turns[w].root = r => SessionPermitted(w)
    BY <1>5, <2>1 DEF SessionPermitted, Session
  <2> QED
    BY <1>2, <2>2
<1>6. CASE ArchivedPredecessor(t, ~turns[t].sent /\ job.row.back = "failed")
  <2>1. /\ Independent(turns[t]) /\ \E u \in Present : u < t /\ turns[u].root = r
        /\ \A u \in Present : u < t /\ turns[u].root = r => turns[u].permitted
    BY <1>1, <1>6 DEF ArchivedPredecessor
  <2>2. turns[t].root = t /\ r # t
    <3>1. turns[t].root = t
      BY <2>1 DEF CodeInv, OrderInv
    <3>2. PICK u \in Present : u < t /\ turns[u].root = r
      BY <2>1
    <3>3. r <= u /\ u \in Nat /\ r \in Nat /\ t \in Nat
      BY <1>3, <3>2
    <3> QED
      BY <3>1, <3>2, <3>3
  <2>3. \A u \in Present : turns[u].root = r => turns[u].permitted
    <3> SUFFICES ASSUME NEW u \in Present, turns[u].root = r PROVE turns[u].permitted
      OBVIOUS
    <3>1. u # t /\ u <= t /\ u \in Nat /\ t \in Nat
      BY <1>3, <2>2
    <3> QED
      BY <2>1, <3>1
  <2>4. \A w \in Present : turns[w].root = r => SessionPermitted(w)
    BY <2>3 DEF SessionPermitted, Session
  <2> QED
    BY <1>2, <2>4
<1> QED
  BY <1>1, <1>5, <1>6 DEF Identity

\* A snapshot for a plan holds what counts.
LEMMA PlanServes ==
  ASSUME SInv, CodeInv, NEW t \in Present, \A u \in Present : u <= t,
         turns[t].work = "replan", Identity(t), NEW code,
         \/ LastVerified(t) # {} /\ code = turns[Latest(LastVerified(t))].archive
         \/ /\ LastVerified(t) = {} /\ code = container.code /\ code # Empty
            /\ turns[t].sent => SessionPermitted(t)
  PROVE  /\ code # Empty
         /\ \A u \in Present : /\ u <= t /\ ~turns[u].excluded /\ SessionPermitted(u)
                               /\ turns[u].archive # Empty
                               => u \in code
         /\ \A w \in code \ {0} : w \in Present /\ w <= t /\ SessionPermitted(w)
<1>1. \A u \in Present : u \in Nat
  BY Numbers DEF SInv
<1>2. CASE LastVerified(t) # {} /\ code = turns[Latest(LastVerified(t))].archive
  <2>1. PICK n : n = Latest(LastVerified(t))
    OBVIOUS
  <2>2. /\ n \in Present /\ code = turns[n].archive /\ code # Empty /\ SessionPermitted(n)
        /\ Taken(code, n) /\ \A u \in LastVerified(t) : u <= n
    BY <1>2, <2>1, LastArchive
  <2>3. ASSUME NEW u \in Present, ~turns[u].excluded, SessionPermitted(u), turns[u].archive # Empty
        PROVE  u \in code
    <3>1. u <= n
      BY <2>2, <2>3, LastArchive
    <3>2. CASE u = n
      BY <2>2, <3>2 DEF Taken
    <3>3. CASE u < n
      BY <2>2, <2>3, <3>3 DEF Taken, Holds, Counts
    <3> QED
      BY <1>1, <2>2, <3>1, <3>2, <3>3
  <2>4. ASSUME NEW w \in code \ {0} PROVE w \in Present /\ w <= t /\ SessionPermitted(w)
    <3>1. w \in Present /\ (turns[w].root = turns[n].root \/ SessionPermitted(w))
      BY <2>2 DEF Taken
    <3> QED
      BY <2>2, <3>1 DEF SessionPermitted, Session
  <2> QED
    BY <2>2, <2>3, <2>4
<1>3. CASE /\ LastVerified(t) = {} /\ code = container.code /\ code # Empty
           /\ turns[t].sent => SessionPermitted(t)
  BY <1>3, LastArchive, IdleServes
<1> QED
  BY <1>2, <1>3

LEMMA RetainSettles == ASSUME SInv, CodeInv, RetainSource PROVE CodeInv'
<1> DEFINE prior == LastVerified(job.turn)
           origin == IF prior # {} THEN turns[Latest(prior)].archive ELSE container.code
<1>1. /\ turns' = turns /\ container' = container /\ job.kind = "replan" /\ job.phase = "begun"
      /\ job.turn # 0
      /\ \/ /\ kept.replan[job.turn] # Empty /\ kept' = kept
            /\ job' = [job EXCEPT !.phase = "kept", !.row.recovery.code = kept.replan[job.turn]]
         \/ /\ Identity(job.turn)
            /\ prior # {} \/ (/\ container.code # Empty
                              /\ turns[job.turn].sent => SessionPermitted(job.turn))
            /\ kept' = [kept EXCEPT !.replan[job.turn] = origin]
            /\ job' = [job EXCEPT !.phase = "kept", !.row.recovery.code = origin]
         \/ job' = BlockedOnInputs /\ kept' = kept
  BY DEF RetainSource, store, Runs, SInv, JobInv
<1>2. PICK t : t = job.turn
  OBVIOUS
<1>3. /\ t \in Present /\ t # 0 /\ (\A u \in Present : u <= t) /\ IsJob(job) /\ IsRow(job.row)
      /\ WorkInv /\ t + 1 \notin Present /\ Grounded(turns[t])
      /\ turns[t].work = "replan" /\ turns[t].status = "running"
  <2>1. turns[t].work = "replan"
    BY <1>1, <1>2 DEF SInv, JobInv
  <2> QED
    BY <1>1, <1>2, <2>1, JobKnows
<1>4. SameCode
  BY <1>1, BoxesSame DEF CodeInv
<1>5. CASE job' = BlockedOnInputs /\ kept' = kept
  BY <1>1, <1>4, <1>5, FailsPlainly DEF BlockedOnInputs
<1>6. ASSUME NEW code, kept'.replan[t] # Empty,
             job' = [job EXCEPT !.phase = "kept", !.row.recovery.code = code]
      PROVE  WorkInv'
  <2> DEFINE row == [job.row EXCEPT !.recovery.code = code]
  <2>1. Same(row, job.row)
    BY <1>3, RowsFail
  <2>2. job' = [job EXCEPT !.phase = "kept", !.row = row]
    BY <1>3, <1>6 DEF IsJob
  <2> HIDE DEF row
  <2>3. /\ job'.turn = t /\ job'.kind = "replan" /\ job'.row = row /\ job'.phase = "kept"
    BY <1>1, <1>2, <1>3, <2>2 DEF IsJob
  <2>4. /\ HasState(job.row.recovery) /\ HasState(job.row.continuation)
        /\ job.row.planned = turns[t].planned /\ job.row.sent = turns[t].sent
    BY <1>2, <1>3 DEF WorkInv
  <2>5. PhaseInv'
    BY <2>3 DEF PhaseInv
  <2> QED
    BY <1>1, <1>6, <2>1, <2>3, <2>4, <2>5 DEF WorkInv, Same
<1>7. job'.kind = "replan" => BoxInv'
  BY <1>1, <1>4, BoxSame DEF CodeInv, Drafting
<1>8. CASE /\ kept.replan[t] # Empty /\ kept' = kept
           /\ job' = [job EXCEPT !.phase = "kept", !.row.recovery.code = kept.replan[t]]
  <2>1. job'.kind = "replan"
    BY <1>1, <1>3, <1>8 DEF IsJob
  <2> QED
    BY <1>1, <1>6, <1>7, <1>8, <2>1, RowsSame DEF CodeInv
<1>9. CASE /\ Identity(t)
           /\ prior # {} \/ (/\ container.code # Empty
                             /\ turns[t].sent => SessionPermitted(t))
           /\ kept' = [kept EXCEPT !.replan[t] = origin]
           /\ job' = [job EXCEPT !.phase = "kept", !.row.recovery.code = origin]
  <2>1. PICK code : code = origin
    OBVIOUS
  <2>2. \/ LastVerified(t) # {} /\ code = turns[Latest(LastVerified(t))].archive
        \/ /\ LastVerified(t) = {} /\ code = container.code /\ code # Empty
           /\ turns[t].sent => SessionPermitted(t)
    BY <1>2, <1>9, <2>1
  <2>3. kept' = [kept EXCEPT !.replan[t] = code] /\ Identity(t)
        /\ job' = [job EXCEPT !.phase = "kept", !.row.recovery.code = code]
    BY <1>9, <2>1
  <2> HIDE DEF origin, prior
  <2>4. /\ code # Empty
        /\ \A u \in Present : /\ u <= t /\ ~turns[u].excluded /\ SessionPermitted(u)
                              /\ turns[u].archive # Empty
                              => u \in code
        /\ \A w \in code \ {0} : w \in Present /\ w <= t /\ SessionPermitted(w)
    BY <1>3, <2>2, <2>3, PlanServes
  <2>5. /\ kept = [kind \in {"replan", "retained"} |-> kept[kind]]
        /\ kept.replan = [u \in Turns |-> kept.replan[u]]
        /\ kept.retained = [u \in Turns |-> kept.retained[u]]
    BY DEF CodeInv, CopiesInv
  <2>6. /\ kept'.retained = kept.retained
        /\ kept'.replan = [kept.replan EXCEPT ![t] = code]
        /\ kept' = [kind \in {"replan", "retained"} |-> kept'[kind]]
    BY <2>3, <2>5
  <2>7. /\ t \in Turns /\ kept'.replan = [u \in Turns |-> kept'.replan[u]]
        /\ kept'.replan[t] = code
        /\ \A u \in Turns : u # t => kept'.replan[u] = kept.replan[u]
    <3>1. t \in Turns
      BY <1>3 DEF Present
    <3>2. PICK f, g : f = kept.replan /\ g = kept'.replan
      OBVIOUS
    <3>3. f = [u \in Turns |-> f[u]] /\ g = [f EXCEPT ![t] = code]
      BY <2>5, <2>6, <3>2
    <3>4. g = [u \in Turns |-> g[u]] /\ g[t] = code /\ \A u \in Turns : u # t => g[u] = f[u]
      BY <3>1, <3>3
    <3> QED
      BY <3>1, <3>2, <3>4
  <2>8. Present' = Present /\ \A u : SessionPermitted(u)' <=> SessionPermitted(u)
    BY <1>1, SameTurns
  <2>9. OrderInv'
    <3>1. \A u \in Turns : kept.replan[u] # Empty => kept'.replan[u] # Empty
      BY <2>4, <2>7
    <3>2. \A u \in Present : turns[u].planned # 0
                             => /\ turns[u].planned = u - 1 /\ u - 1 \in Present
                                /\ kept'.replan[u - 1] # Empty
      BY <3>1 DEF CodeInv, OrderInv, Present
    <3>3. OrderInv
      BY DEF CodeInv
    <3> QED
      BY <1>1, <2>8, <3>2, <3>3 DEF OrderInv
  <2>10. CopiesInv'
    <3>1. \A u \in Present : CopiesOf(u)'
      BY <1>1, <2>6, SameTurns DEF CodeInv, CopiesInv, CopiesOf
    <3>2. \A u \in Turns \ Present : kept'.replan[u] = Empty /\ kept'.retained[u] = Empty
      BY <1>3, <2>6, <2>7 DEF CodeInv, CopiesInv
    <3> QED
      BY <2>5, <2>6, <2>7, <2>8, <3>1, <3>2 DEF CopiesInv
  <2>11. SnapshotsInv'
    <3>1. ToReplan(turns[t])
      BY <1>3 DEF ToReplan
    <3>2. \A u \in Present : u # t => kept'.replan[u] = kept.replan[u]
      BY <2>7 DEF Present
    <3>3. SnapshotsInv
      BY DEF CodeInv
    <3>4. ASSUME NEW u \in Present, kept'.replan[u] # Empty
          PROVE  /\ (u + 1 \in Present => turns[u + 1].planned # 0) =>
                      /\ \A v \in Present : /\ v <= u /\ ~turns[v].excluded /\ SessionPermitted(v)
                                            /\ turns[v].archive # Empty
                                            => v \in kept'.replan[u]
                      /\ \A w \in kept'.replan[u] \ {0} :
                           w \in Present /\ w <= u /\ SessionPermitted(w)
                 /\ u + 1 \notin Present => ToReplan(turns[u])
      <4>1. CASE u = t
        BY <2>4, <2>7, <3>1, <4>1
      <4>2. CASE u # t
        BY <3>2, <3>3, <3>4, <4>2 DEF SnapshotsInv
      <4> QED
        BY <4>1, <4>2
    <3> QED
      BY <1>1, <2>8, <3>4 DEF SnapshotsInv, ToReplan, Active
  <2>12. job'.kind = "replan"
    BY <1>1, <1>3, <2>3 DEF IsJob
  <2>13. kept'.replan[t] # Empty
    BY <2>4, <2>7
  <2> QED
    BY <1>6, <1>7, <2>3, <2>9, <2>10, <2>11, <2>12, <2>13 DEF CodeInv
<1> QED
  BY <1>1, <1>2, <1>5, <1>8, <1>9

------------------------------------------------------------------------------
\* The steps that end a job or add a turn.

\* One more turn than before: a new question, or a follow-up of what was sent.
Adds(n, r, q) ==
  /\ Fresh(q) /\ Grounded(q)
  /\ q.planned # 0 => q.planned = n /\ kept.replan[n] # Empty
  /\ Independent(q) => q.root = n + 1
  /\ ~Independent(q) => /\ r.sent /\ q.root = turns[n].root /\ q.planned = 0
                        /\ SessionPermitted(n) /\ r.permitted

\* A step that makes the last turn r, and may add one.
Follows(n, r) ==
  /\ \A u \in Present : u <= n
  /\ Becomes(r, turns[n]) /\ Grounded(r) /\ r.status # "absent" /\ (r.sent => turns[n].sent)
  /\ turns'[n] = r /\ \A u \in Turns : u # n /\ u # n + 1 => turns'[u] = turns[u]
  /\ n + 1 \in Turns => turns'[n + 1] = turns[n + 1] \/ Adds(n, r, turns'[n + 1])
  /\ kept' = kept /\ container' = container /\ ~Drafting'
  /\ r.outcome # "none" /\ turns[n].root = container.root => n \in container.code
  /\ r.archive # Empty => Taken(r.archive, n)
  /\ r.disputed /\ r.continuation.state \in {"ready", "planned", "continued"}
       => kept.retained[n] # Empty
  /\ kept.replan[n] # Empty =>
       /\ r.permitted = turns[n].permitted /\ r.archive = turns[n].archive
       /\ n + 1 \notin Present' => ToReplan(r)

LEMMA FollowsSettles ==
  ASSUME SInv, CodeInv, NEW n \in Present, NEW r, Follows(n, r)
  PROVE  OrderInv' /\ CopiesInv' /\ SnapshotsInv' /\ BoxInv' /\ NoneSent
<1>1. TurnsInv /\ OrderInv /\ CopiesInv /\ SnapshotsInv /\ BoxInv
  BY DEF SInv, CodeInv
<1>2. n \in Nat /\ n \in Turns /\ n + 1 \notin Present /\ Present \subseteq Turns /\ Turns \subseteq Nat
  BY <1>1, Numbers DEF Follows
<1>3. \A u \in Present \ {n} : turns'[u] = turns[u] /\ Stays(turns'[u], turns[u])
  BY <1>2 DEF Follows, Stays, Alike, Becomes, SameTurn
<1>4. n + 1 \in Turns => turns[n + 1].status = "absent"
  BY <1>2 DEF Present
<1>5. \A u \in Turns : u # n /\ u # n + 1 => (u \in Present' <=> u \in Present)
  BY DEF Follows, Present
<1>6. n \in Present'
  BY <1>2 DEF Follows, Present
<1>7. NoneSent
  BY <1>2, <1>3 DEF Follows, NoneSent, Stays
<1>8. CASE n + 1 \in Turns /\ Adds(n, r, turns'[n + 1])
  <2>1. n + 1 \in Present'
    BY <1>8 DEF Present, Adds, Fresh
  <2>2. Present' = Present \cup {n + 1}
    <3>1. Present' \subseteq Turns
      BY DEF Present
    <3> QED
      BY <1>2, <1>5, <1>6, <1>8, <2>1, <3>1
  <2>3. Moves(n)
    BY <1>3, <1>8, <2>2 DEF Follows, Moves, Adds
  <2>4. BoxInv'
    BY <1>1, <2>3, BoxAfter DEF Follows
  <2>5. CopiesInv'
    BY <1>1, <2>3, CopiesAfter DEF Follows, DisputedReady
  <2>6. SnapshotsInv'
    BY <1>1, <2>1, <2>3, SnapshotsAfter DEF Follows
  <2>7. \A t \in Turns : Grounded(turns'[t])
    BY <1>1, <1>8 DEF Follows, OrderInv, Adds
  <2>8. OrderInv'
    BY <1>1, <1>8, <2>3, <2>7, OrderAfter DEF Follows, Adds
  <2> QED
    BY <1>7, <2>4, <2>5, <2>6, <2>8
<1>9. CASE n + 1 \notin Turns \/ turns'[n + 1] = turns[n + 1]
  <2>1. n + 1 \notin Present'
    BY <1>4, <1>9 DEF Present
  <2>2. Present' = Present
    <3>1. Present' \subseteq Turns
      BY DEF Present
    <3>2. \A u \in Turns : u \in Present' <=> u \in Present
      BY <1>2, <1>5, <1>6, <2>1
    <3> QED
      BY <1>2, <3>1, <3>2
  <2>3. Moves(n)
    BY <1>3, <2>1, <2>2 DEF Follows, Moves
  <2>4. BoxInv'
    BY <1>1, <2>3, BoxAfter DEF Follows
  <2>5. CopiesInv'
    BY <1>1, <2>3, CopiesAfter DEF Follows, DisputedReady
  <2>6. SnapshotsInv'
    BY <1>1, <2>1, <2>3, SnapshotsAfter DEF Follows
  <2>7. \A t \in Turns : Grounded(turns'[t])
    BY <1>1, <1>9 DEF Follows, OrderInv
  <2>8. OrderInv'
    BY <1>1, <2>1, <2>3, <2>7, OrderAfter DEF Follows
  <2> QED
    BY <1>7, <2>4, <2>5, <2>6, <2>8
<1>10. \/ n + 1 \in Turns /\ Adds(n, r, turns'[n + 1])
       \/ n + 1 \notin Turns \/ turns'[n + 1] = turns[n + 1]
  BY DEF Follows
<1> QED
  BY <1>8, <1>9, <1>10

\* What is new holds nothing yet.
LEMMA NewTurns ==
  ASSUME NEW n, NEW c, NEW p
  PROVE  /\ LET q == NewQuestion(n + 1, c, p) IN
            /\ Fresh(q) /\ Grounded(q) /\ q.planned = p /\ Independent(q) /\ q.root = n + 1
         /\ LET q == NewRepair(n, c) IN
            /\ Fresh(q) /\ Grounded(q) /\ q.planned = 0 /\ q.repairOf = n
            /\ q.root = turns[n].root
         /\ LET q == NewContinuation(n) IN
            /\ Fresh(q) /\ Grounded(q) /\ q.planned = 0 /\ q.continues = n
            /\ q.root = turns[n].root
<1>1. HasState(NoRecovery) /\ HasState([state |-> "none", code |-> Empty])
  BY DEF HasState, NoRecovery
<1>2. LET q == NewQuestion(n + 1, c, p) IN
      /\ Fresh(q) /\ Grounded(q) /\ q.planned = p /\ Independent(q) /\ q.root = n + 1
  BY <1>1 DEF NewQuestion, Absent, Fresh, Grounded, Independent, Active
<1>3. LET q == NewRepair(n, c) IN
      /\ Fresh(q) /\ Grounded(q) /\ q.planned = 0 /\ q.repairOf = n /\ q.root = turns[n].root
  BY <1>1 DEF NewRepair, Absent, Fresh, Grounded, Active
<1>4. LET q == NewContinuation(n) IN
      /\ Fresh(q) /\ Grounded(q) /\ q.planned = 0 /\ q.continues = n /\ q.root = turns[n].root
  BY <1>1 DEF NewContinuation, Absent, Fresh, Grounded, Active
<1> QED
  BY <1>2, <1>3, <1>4

LEMMA EnqueueSettles ==
  ASSUME SInv, CodeInv, (\E c \in Categories : EnqueueQuestion(c)) \/ EnqueueRepair
  PROVE  CodeInv' /\ NoneSent
<1>1. PICK n : n = Last
  OBVIOUS
<1>2. /\ n \in Present /\ (\A u \in Present : u <= n) /\ n \in Nat /\ n # 0 /\ n + 1 \notin Present
      /\ Present \subseteq Turns /\ TurnsInv /\ Grounded(turns[n])
  <2>1. TurnsInv /\ n \in Present /\ \A u \in Present : u <= n
    BY <1>1, LastTurn DEF SInv
  <2> QED
    BY <2>1, Numbers DEF CodeInv, OrderInv
<1>3. /\ kept' = kept /\ container' = container /\ job' = job /\ ~Pending
      /\ \/ \E c \in Categories : turns' = [turns EXCEPT ![n + 1] = NewQuestion(n + 1, c, 0)]
         \/ /\ turns' = [turns EXCEPT ![n + 1] = NewRepair(n, First)]
            /\ CanRepair(n, turns[n].status)
  BY <1>1 DEF EnqueueQuestion, EnqueueRepair, disk
<1>4. job.turn = 0
  BY <1>3 DEF SInv, JobInv, Pending, Active
<1>5. PICK q : turns' = [turns EXCEPT ![n + 1] = q] /\ Adds(n, turns[n], q)
  <2>1. CASE \E c \in Categories : turns' = [turns EXCEPT ![n + 1] = NewQuestion(n + 1, c, 0)]
    <3>1. PICK c \in Categories : turns' = [turns EXCEPT ![n + 1] = NewQuestion(n + 1, c, 0)]
      BY <2>1
    <3>2. Adds(n, turns[n], NewQuestion(n + 1, c, 0))
      BY NewTurns DEF Adds
    <3> QED
      BY <3>1, <3>2
  <2>2. CASE /\ turns' = [turns EXCEPT ![n + 1] = NewRepair(n, First)]
             /\ CanRepair(n, turns[n].status)
    <3>1. turns[n].sent /\ turns[n].permitted
      BY <1>2, <2>2 DEF CanRepair, DisputedReady, Grounded
    <3>2. SessionPermitted(n)
      BY <2>2 DEF CanRepair, SessionPermitted
    <3>3. PICK q : q = NewRepair(n, First)
      OBVIOUS
    <3>4. Fresh(q) /\ Grounded(q) /\ q.planned = 0 /\ q.repairOf = n /\ q.root = turns[n].root
      BY <3>3, NewTurns
    <3>5. Adds(n, turns[n], q)
      BY <1>2, <3>1, <3>2, <3>4 DEF Adds, Independent
    <3> QED
      BY <2>2, <3>3, <3>5
  <2> QED
    BY <1>3, <2>1, <2>2
<1>6. PICK r : r = turns[n]
  OBVIOUS
<1>7. /\ turns'[n] = r /\ \A u \in Turns : u # n /\ u # n + 1 => turns'[u] = turns[u]
      /\ n + 1 \in Turns => Adds(n, r, turns'[n + 1])
  <2>1. n + 1 \in Turns => turns'[n + 1] = q
    BY <1>2, <1>5 DEF TurnsInv
  <2>2. n + 1 \in Turns => Adds(n, r, turns'[n + 1])
    BY <1>5, <1>6, <2>1
  <2> QED
    BY <1>2, <1>5, <1>6, <2>2 DEF TurnsInv
<1>8. Becomes(r, turns[n]) /\ r.status # "absent" /\ Grounded(r) /\ (r.sent => turns[n].sent)
  BY <1>2, <1>6 DEF Becomes, SameTurn, Present
<1>9. r.outcome # "none" /\ turns[n].root = container.root => n \in container.code
  BY <1>2, <1>6 DEF CodeInv, BoxInv
<1>10. /\ r.archive # Empty => Taken(r.archive, n)
       /\ r.disputed /\ r.continuation.state \in {"ready", "planned", "continued"}
            => kept.retained[n] # Empty
  BY <1>2, <1>6 DEF CodeInv, CopiesInv, CopiesOf, DisputedReady
<1>11. kept.replan[n] # Empty =>
         /\ r.permitted = turns[n].permitted /\ r.archive = turns[n].archive
         /\ n + 1 \notin Present' => ToReplan(r)
  BY <1>2, <1>6 DEF CodeInv, SnapshotsInv
<1>12. kept' = kept /\ container' = container /\ ~Drafting'
  BY <1>3, <1>4 DEF Drafting
<1>13. OrderInv' /\ CopiesInv' /\ SnapshotsInv' /\ BoxInv' /\ NoneSent
  <2>1. Follows(n, r)
    BY <1>2, <1>7, <1>8, <1>9, <1>10, <1>11, <1>12 DEF Follows
  <2> QED
    BY <1>2, <2>1, FollowsSettles
<1>14. WorkInv'
  BY <1>3, <1>4 DEF WorkInv
<1> QED
  BY <1>13, <1>14 DEF CodeInv

\* The row a turn ends with.
Result(r) ==
  LET t == job.turn IN
  /\ IsRow(r) /\ Becomes(r, turns[t]) /\ Grounded(r) /\ r.status \in {"review", "failed"}
  /\ r.sent => turns[t].sent
  /\ r.outcome # "none" /\ turns[t].root = container.root => t \in container.code
  /\ r.archive # Empty => Taken(r.archive, t)
  /\ r.disputed /\ r.continuation.state \in {"ready", "planned", "continued"}
       => kept.retained[t] # Empty
  /\ kept.replan[t] # Empty =>
       r.permitted = turns[t].permitted /\ r.archive = turns[t].archive /\ ToReplan(r)

LEMMA ResultSettles ==
  ASSUME SInv, CodeInv, job.turn # 0, job' = NoJob, kept' = kept, container' = container,
         NEW r, Result(r),
         \/ turns' = [turns EXCEPT ![job.turn] = r]
         \/ \E q : /\ turns' = [turns EXCEPT ![job.turn] = r, ![job.turn + 1] = q]
                   /\ Adds(job.turn, r, q)
  PROVE  CodeInv' /\ NoneSent
<1>1. PICK t : t = job.turn
  OBVIOUS
<1>2. /\ t \in Present /\ t \in Turns /\ t \in Nat /\ (\A u \in Present : u <= t)
      /\ turns = [u \in Turns |-> turns[u]]
  <2>1. t \in Present /\ t \in Nat /\ \A u \in Present : u <= t
    BY <1>1, JobKnows
  <2> QED
    BY <2>1 DEF SInv, TurnsInv, Present
<1>3. /\ turns'[t] = r /\ \A u \in Turns : u # t /\ u # t + 1 => turns'[u] = turns[u]
      /\ t + 1 \in Turns => turns'[t + 1] = turns[t + 1] \/ Adds(t, r, turns'[t + 1])
  <2>1. CASE turns' = [turns EXCEPT ![t] = r]
    BY <1>2, <2>1
  <2>2. ASSUME NEW q, turns' = [turns EXCEPT ![t] = r, ![t + 1] = q], Adds(t, r, q)
        PROVE  /\ turns'[t] = r /\ \A u \in Turns : u # t /\ u # t + 1 => turns'[u] = turns[u]
               /\ t + 1 \in Turns => Adds(t, r, turns'[t + 1])
    <3>1. turns'[t] = r /\ \A u \in Turns : u # t /\ u # t + 1 => turns'[u] = turns[u]
      BY <1>2, <2>2
    <3>2. t + 1 \in Turns => turns'[t + 1] = q
      BY <1>2, <2>2
    <3> QED
      BY <2>2, <3>1, <3>2
  <2> QED
    BY <1>1, <2>1, <2>2
<1>4. ~Drafting'
  BY DEF NoJob, Drafting
<1>5. Follows(t, r)
  BY <1>1, <1>2, <1>3, <1>4 DEF Follows, Result
<1>6. OrderInv' /\ CopiesInv' /\ SnapshotsInv' /\ BoxInv' /\ NoneSent
  BY <1>2, <1>5, FollowsSettles
<1>7. WorkInv'
  BY DEF NoJob, WorkInv
<1> QED
  BY <1>6, <1>7 DEF CodeInv

\* What is decided, and that it was, changes nothing of what a row has.
Kin(x, q) ==
  /\ IsRow(x) /\ SameTurn(x, q) /\ x.planned = q.planned /\ x.sent = q.sent
  /\ x.permitted = q.permitted /\ x.excluded = q.excluded /\ x.outcome = q.outcome
  /\ x.archive = q.archive /\ x.disputed = q.disputed /\ x.work = q.work /\ x.back = q.back
  /\ x.status = q.status /\ x.recovery = q.recovery
  /\ HasState(q.continuation) => HasState(x.continuation)
  /\ x.continuation.state \in {"ready", "planned", "continued"}
       => q.continuation.state \in {"ready", "planned", "continued"}

LEMMA KinRows ==
  ASSUME NEW q, IsRow(q), HasState(q.continuation), NEW x
  PROVE  /\ Kin([q EXCEPT !.next = x], q)
         /\ Kin([q EXCEPT !.finished = x], q)
         /\ Kin([q EXCEPT !.resumed = x], q)
         /\ q.continuation.state = "planned" => Kin([q EXCEPT !.continuation.state = "continued"], q)
<1>1. Kin([q EXCEPT !.next = x], q)
  BY DEF Kin, IsRow, SameTurn
<1>2. Kin([q EXCEPT !.finished = x], q)
  BY DEF Kin, IsRow, SameTurn
<1>3. Kin([q EXCEPT !.resumed = x], q)
  BY DEF Kin, IsRow, SameTurn
<1>4. q.continuation.state = "planned" => Kin([q EXCEPT !.continuation.state = "continued"], q)
  BY DEF Kin, IsRow, SameTurn, HasState
<1> QED
  BY <1>1, <1>2, <1>3, <1>4

LEMMA ResultStays ==
  ASSUME NEW r, Result(r), NEW x
  PROVE  /\ Result([r EXCEPT !.next = x])
         /\ Result([r EXCEPT !.finished = x])
         /\ Result([r EXCEPT !.resumed = x])
         /\ r.continuation.state = "planned"
              => Result([r EXCEPT !.continuation.state = "continued"])
<1>1. IsRow(r) /\ HasState(r.continuation)
  BY DEF Result, Grounded
<1>2. ASSUME NEW y, Kin(y, r) PROVE Result(y)
  <2>1. Grounded(y)
    BY <1>2 DEF Result, Grounded, Kin
  <2>2. Becomes(y, turns[job.turn])
    BY <1>2 DEF Result, Becomes, SameTurn, Kin
  <2>3. ToReplan(r) => ToReplan(y)
    BY <1>2 DEF Kin, ToReplan
  <2> QED
    BY <1>2, <2>1, <2>2, <2>3 DEF Result, Kin
<1> QED
  BY <1>1, <1>2, KinRows

\* What the job made of its turn is such a row.
LEMMA JobResults ==
  ASSUME SInv, CodeInv, job.turn # 0, job.kind # "replan", job.phase = "done",
         NEW r, NEW s \in {"review", "failed"}, s = "review" <=> job.ok,
         r = [[job.row EXCEPT !.work = "run", !.excluded = turns[job.turn].excluded]
                EXCEPT !.status = s]
  PROVE  Result(r) /\ r.status = s /\ r.bugs = job.row.bugs
<1>1. PICK t, q, e : t = job.turn /\ q = job.row /\ e = turns[t].excluded
  OBVIOUS
<1>2. /\ t \in Present /\ t + 1 \notin Present /\ turns[t].status = "running" /\ IsRow(q)
      /\ SameTurn(q, turns[t]) /\ WorkInv /\ ResultInv /\ Grounded(turns[t])
  BY <1>1, JobKnows
<1>3. r = [[q EXCEPT !.work = "run", !.excluded = e] EXCEPT !.status = s]
  BY <1>1
<1>4. /\ IsRow(r) /\ r.status = s /\ r.work = "run" /\ r.excluded = e /\ r.planned = q.planned
      /\ r.sent = q.sent /\ r.permitted = q.permitted /\ r.outcome = q.outcome
      /\ r.archive = q.archive /\ r.disputed = q.disputed /\ r.recovery = q.recovery
      /\ r.continuation = q.continuation /\ SameTurn(r, q) /\ r.bugs = q.bugs
  <2> DEFINE Out(x, y) == /\ IsRow(x) /\ x.status = s /\ x.work = "run" /\ x.excluded = e
                          /\ x.planned = y.planned
                          /\ x.sent = y.sent /\ x.permitted = y.permitted /\ x.outcome = y.outcome
                          /\ x.archive = y.archive /\ x.disputed = y.disputed
                          /\ x.recovery = y.recovery
                          /\ x.continuation = y.continuation /\ SameTurn(x, y) /\ x.bugs = y.bugs
  <2>1. ASSUME NEW y, IsRow(y)
        PROVE  Out([[y EXCEPT !.work = "run", !.excluded = e] EXCEPT !.status = s], y)
    BY <2>1 DEF IsRow, SameTurn, Statuses
  <2> HIDE DEF Out
  <2>2. Out(r, q)
    BY <1>2, <1>3, <2>1
  <2> QED
    BY <2>2 DEF Out
<1>5. /\ HasState(q.recovery) /\ HasState(q.continuation) /\ q.planned = turns[t].planned
      /\ q.sent = turns[t].sent
      /\ job.kind \in {"run", "plan", "dispute"}
      /\ job.kind = "plan" => /\ q.archive # Empty /\ q.recovery = turns[t].recovery
                              /\ q.archive = turns[t].archive
      /\ job.kind = "dispute" => q.disputed /\ turns[t].archive = Empty
      /\ job.kind = "run" => turns[t].work = "run"
  BY <1>1, <1>2 DEF WorkInv, PhaseInv
<1>6. /\ q.outcome # "none" => q.sent /\ (container.root = turns[t].root => t \in container.code)
      /\ q.outcome = "none" => q.permitted
      /\ q.archive # Empty => /\ Taken(q.archive, t) /\ q.outcome = "complete" /\ q.permitted
                              /\ ~q.disputed
      /\ q.disputed => q.outcome # "none" /\ q.permitted
      /\ q.continuation.state \in {"ready", "planned", "continued"} => q.disputed
      /\ q.disputed /\ q.continuation.state \in {"ready", "planned", "continued"}
           => kept.retained[t] # Empty
      /\ turns[t].permitted
      /\ s = "review" <=> q.archive # Empty
  BY <1>1, <1>2 DEF ResultInv
<1>7. Grounded(r)
  BY <1>4, <1>5, <1>6 DEF Grounded, Active
<1>8. Becomes(r, turns[t])
  BY <1>1, <1>2, <1>4, <1>5, <1>6 DEF Becomes, SameTurn
<1>9. ASSUME kept.replan[t] # Empty
      PROVE  r.permitted = turns[t].permitted /\ r.archive = turns[t].archive /\ ToReplan(r)
  <2>1. ToReplan(turns[t])
    BY <1>2, <1>9 DEF CodeInv, SnapshotsInv
  <2>2. job.kind # "run"
    BY <1>2, <1>5, <2>1 DEF ToReplan, Active
  <2>3. r.status \notin Active
    BY <1>4 DEF Active
  <2>4. CASE job.kind = "plan"
    <3>1. turns[t].work # "replan"
      BY <1>1 DEF SInv, JobInv
    <3>2. ~turns[t].disputed
      BY <1>2, <1>5, <2>4 DEF Grounded
    <3>3. r.recovery.state = "blocked"
      BY <1>4, <1>5, <2>1, <2>4, <3>1, <3>2 DEF ToReplan
    <3>4. r.permitted = TRUE /\ turns[t].permitted = TRUE
      <4>1. r.permitted = q.permitted /\ q.permitted
        BY <1>4, <1>5, <1>6, <2>4
      <4> QED
        BY <1>4, <1>6, <4>1
    <3> QED
      BY <1>4, <1>5, <2>3, <2>4, <3>3, <3>4 DEF ToReplan
  <2>5. CASE job.kind = "dispute"
    <3>1. q.archive = Empty
      BY <1>5, <1>6, <2>5
    <3> QED
      BY <1>4, <1>5, <1>6, <2>3, <2>5, <3>1 DEF ToReplan
  <2> QED
    BY <1>5, <2>2, <2>4, <2>5
<1>10. r.outcome # "none" /\ turns[t].root = container.root => t \in container.code
  BY <1>4, <1>6
<1>11. /\ r.archive # Empty => Taken(r.archive, t)
       /\ r.disputed /\ r.continuation.state \in {"ready", "planned", "continued"}
            => kept.retained[t] # Empty
  BY <1>4, <1>6
<1> QED
  BY <1>1, <1>4, <1>5, <1>7, <1>8, <1>9, <1>10, <1>11 DEF Result

\* A repair, or what takes an answer up again, stands behind a call.
LEMMA FollowUps ==
  ASSUME SInv, CodeInv, NEW t \in Present, NEW r, r.sent, r.permitted, SessionPermitted(t)
  PROVE  /\ \A c : Adds(t, r, NewRepair(t, c))
         /\ Adds(t, r, NewContinuation(t))
<1>1. t \in Nat /\ t # 0
  BY Numbers DEF SInv
<1>2. ASSUME NEW q, Fresh(q) /\ Grounded(q) /\ q.planned = 0 /\ q.root = turns[t].root,
             q.repairOf = t \/ q.continues = t
      PROVE  Adds(t, r, q)
  BY <1>1, <1>2 DEF Adds, Independent
<1>3. ASSUME NEW c PROVE Adds(t, r, NewRepair(t, c))
  <2>1. PICK q : q = NewRepair(t, c)
    OBVIOUS
  <2>2. /\ Fresh(q) /\ Grounded(q) /\ q.planned = 0 /\ q.root = turns[t].root
        /\ q.repairOf = t
    BY <2>1, NewTurns
  <2> QED
    BY <1>2, <2>1, <2>2
<1>4. Adds(t, r, NewContinuation(t))
  <2>1. PICK q : q = NewContinuation(t)
    OBVIOUS
  <2>2. /\ Fresh(q) /\ Grounded(q) /\ q.planned = 0 /\ q.root = turns[t].root
        /\ q.continues = t
    BY <2>1, NewTurns
  <2> QED
    BY <1>2, <2>1, <2>2
<1> QED
  BY <1>3, <1>4

LEMMA FollowSettles ==
  ASSUME SInv, CodeInv, job.turn # 0, job' = NoJob, kept' = kept, container' = container,
         NEW c \in Categories, NEW r, Result(r), r.status = "review" \/ r.disputed,
         turns' = Follow(r, c)
  PROVE  CodeInv' /\ NoneSent
<1> DEFINE t == job.turn
           k == IF r.continuation.state = "planned" THEN "continued" ELSE r.continuation.state
           n == [r EXCEPT !.next = "goes"]
           goes == [n EXCEPT !.continuation.state = k]
           rest == [r EXCEPT !.next = job.next]
           fails == [rest EXCEPT !.next = "error"]
           ends == [rest EXCEPT !.finished = rest.finished
                                  \/ (auto /\ job.next \notin {"none", "error"})]
           Ended(q) == turns' = [turns EXCEPT ![t] = q]
           Mends(q) == /\ turns' = [turns EXCEPT ![t] = q, ![t + 1] = NewRepair(t, First)]
                       /\ CanRepair(t, "review")
           Asks(q) == turns' = [turns EXCEPT ![t] = q, ![t + 1] = NewQuestion(t + 1, c, 0)]
<1>1. t \in Present
  BY JobKnows
<1>2. IsRow(r) /\ HasState(r.continuation) /\ Grounded(r)
  BY DEF Result, Grounded
<1>3. r.sent /\ r.permitted
  BY <1>2 DEF Grounded
<1>4. Result(n) /\ Result(rest) /\ n.continuation = r.continuation /\ IsRow(n) /\ IsRow(rest)
  <2>1. Result(n) /\ Result(rest)
    BY ResultStays
  <2>2. ASSUME NEW y, IsRow(y)
        PROVE  [y EXCEPT !.next = "goes"].continuation = y.continuation
    BY <2>2 DEF IsRow
  <2>3. n.continuation = r.continuation
    BY <1>2, <2>2
  <2> HIDE DEF n, rest
  <2> QED
    BY <2>1, <2>3 DEF Result
<1>5. Result(goes)
  <2>1. CASE r.continuation.state = "planned"
    <3>1. goes = [n EXCEPT !.continuation.state = "continued"]
      BY <2>1
    <3> HIDE DEF n, goes
    <3> QED
      BY <1>4, <2>1, <3>1, ResultStays
  <2>2. CASE r.continuation.state # "planned"
    <3>1. goes = [n EXCEPT !.continuation.state = n.continuation.state]
      BY <1>4, <2>2
    <3>2. ASSUME NEW y, IsRow(y), HasState(y.continuation)
          PROVE  [y EXCEPT !.continuation.state = y.continuation.state] = y
      <4>1. [y.continuation EXCEPT !.state = y.continuation.state] = y.continuation
        BY <3>2 DEF HasState
      <4> QED
        BY <3>2, <4>1 DEF IsRow
    <3> HIDE DEF n, goes
    <3> QED
      BY <1>2, <1>4, <3>1, <3>2
  <2> QED
    BY <2>1, <2>2
<1>6. Result(fails) /\ Result(ends)
  <2> HIDE DEF rest
  <2> QED
    BY <1>4, ResultStays
<1>7. goes = [r EXCEPT !.next = "goes",
                !.continuation.state = IF @ = "planned" THEN "continued" ELSE @]
  BY <1>2 DEF IsRow
<1>8. \/ Mends(goes) \/ Asks(goes) \/ Ended(fails) \/ Ended(ends)
  <2> DEFINE gone == [r EXCEPT !.next = "goes",
                        !.continuation.state = IF @ = "planned" THEN "continued" ELSE @]
  <2>1. \/ Mends(gone) \/ Asks(gone) \/ Ended(fails) \/ Ended(ends)
    BY DEF Follow
  <2> HIDE DEF goes, fails, ends, Mends, Asks, Ended
  <2> QED
    BY <1>7, <2>1
<1>9. goes.sent /\ goes.permitted
  <2> DEFINE Out(x, y) == x.sent = y.sent /\ x.permitted = y.permitted
  <2>1. ASSUME NEW y, IsRow(y), NEW z
        PROVE  Out([[y EXCEPT !.next = "goes"] EXCEPT !.continuation.state = z], y)
    BY <2>1 DEF IsRow
  <2>2. Out(goes, r)
    <3> HIDE DEF Out, k
    <3> QED
      BY <1>2, <2>1
  <2> HIDE DEF goes
  <2> QED
    BY <1>3, <2>2
<1> HIDE DEF goes, fails, ends
<1>10. CASE Mends(goes)
  <2>1. SessionPermitted(t)
    BY <1>10 DEF CanRepair, SessionPermitted
  <2>2. Adds(t, goes, NewRepair(t, First))
    BY <1>1, <1>9, <2>1, FollowUps
  <2> QED
    BY <1>5, <1>10, <2>2, ResultSettles
<1>11. CASE Asks(goes)
  <2>1. PICK q : q = NewQuestion(t + 1, c, 0)
    OBVIOUS
  <2>2. Fresh(q) /\ Grounded(q) /\ q.planned = 0 /\ Independent(q) /\ q.root = t + 1
    BY <2>1, NewTurns
  <2>3. Adds(t, goes, q)
    BY <2>2 DEF Adds
  <2> QED
    BY <1>5, <1>11, <2>1, <2>3, ResultSettles
<1>12. CASE Ended(fails) \/ Ended(ends)
  BY <1>6, <1>12, ResultSettles
<1> QED
  BY <1>8, <1>10, <1>11, <1>12

LEMMA FinishTurnSettles ==
  ASSUME SInv, CodeInv, NEW c \in Categories, FinishTurn(c)
  PROVE  CodeInv' /\ NoneSent
<1> DEFINE t == job.turn
           row == [job.row EXCEPT !.work = "run", !.excluded = turns[t].excluded]
           review == [row EXCEPT !.status = "review"]
           failed == [row EXCEPT !.status = "failed"]
           resumed == [failed EXCEPT !.resumed = t + 1]
           rest == [failed EXCEPT !.next = job.next]
           Ended(q) == turns' = [turns EXCEPT ![t] = q]
           Continued(q) == turns' = [turns EXCEPT ![t] = q, ![t + 1] = NewContinuation(t)]
<1>1. /\ t # 0 /\ job' = NoJob /\ job.kind # "replan" /\ job.phase = "done"
      /\ kept' = kept /\ container' = container
  BY DEF SInv, JobInv, FinishTurn, disk
<1>2. t \in Present /\ IsRow(job.row)
  BY <1>1, JobKnows
<1>3. job.ok \in BOOLEAN
  BY DEF SInv, JobInv, IsJob
<1>4. job.ok => Result(review) /\ review.status = "review"
  BY <1>1, <1>3, JobResults
<1>5. ~job.ok => Result(failed) /\ failed.status = "failed"
  BY <1>1, <1>3, JobResults
<1>6. /\ failed.disputed = row.disputed /\ failed.outcome = row.outcome
      /\ failed.permitted = row.permitted
  <2> DEFINE Out(x, y) == /\ x.disputed = y.disputed /\ x.outcome = y.outcome
                          /\ x.permitted = y.permitted
  <2>1. ASSUME NEW y, IsRow(y), NEW e
        PROVE  Out([[y EXCEPT !.work = "run", !.excluded = e] EXCEPT !.status = "failed"],
                   [y EXCEPT !.work = "run", !.excluded = e])
    BY <2>1 DEF IsRow
  <2>2. Out(failed, row)
    <3> HIDE DEF Out
    <3> QED
      BY <1>2, <2>1
  <2> HIDE DEF failed, row
  <2> QED
    BY <2>2
<1>7. \/ job.ok /\ turns' = Follow(review, c)
      \/ ~job.ok /\ row.disputed /\ turns' = Follow(failed, c)
      \/ ~job.ok /\ MayContinue(row) /\ Continued(resumed)
      \/ ~job.ok /\ Ended(rest)
  BY DEF FinishTurn
<1> HIDE DEF review, failed, row
<1>8. CASE job.ok /\ turns' = Follow(review, c)
  BY <1>1, <1>4, <1>8, FollowSettles
<1>9. CASE ~job.ok /\ row.disputed /\ turns' = Follow(failed, c)
  BY <1>1, <1>5, <1>6, <1>9, FollowSettles
<1>10. CASE ~job.ok /\ MayContinue(row) /\ Continued(resumed)
  <2>1. Result(resumed)
    BY <1>5, <1>10, ResultStays
  <2>2. resumed.sent /\ resumed.permitted
    <3>1. failed.outcome = "error" /\ failed.permitted /\ IsRow(failed) /\ Grounded(failed)
      BY <1>5, <1>6, <1>10 DEF MayContinue, GatewayFailed, Result
    <3>2. failed.sent
      BY <3>1 DEF Grounded
    <3> QED
      BY <3>1, <3>2 DEF IsRow
  <2>3. SessionPermitted(t)
    BY <1>10 DEF MayContinue, SessionPermitted
  <2> HIDE DEF resumed
  <2>4. Adds(t, resumed, NewContinuation(t))
    BY <1>2, <2>2, <2>3, FollowUps
  <2> QED
    BY <1>1, <1>10, <2>1, <2>4, ResultSettles
<1>11. CASE ~job.ok /\ Ended(rest)
  <2>1. Result(rest)
    BY <1>5, <1>11, ResultStays
  <2> HIDE DEF rest
  <2> QED
    BY <1>1, <1>11, <2>1, ResultSettles
<1> QED
  BY <1>7, <1>8, <1>9, <1>10, <1>11

\* A turn that a plan was made for is again what it was.
Again(x, q, s, v) ==
  /\ IsRow(x) /\ SameTurn(x, q) /\ x.planned = q.planned /\ x.sent = q.sent
  /\ x.permitted = q.permitted /\ x.excluded = q.excluded /\ x.outcome = q.outcome
  /\ x.archive = q.archive /\ x.disputed = q.disputed /\ x.continuation = q.continuation
  /\ x.status = s /\ x.work = "run" /\ HasState(x.recovery) /\ x.recovery.state = v

LEMMA RowsAgain ==
  ASSUME NEW q, IsRow(q), NEW s \in {"review", "failed"}, NEW x, HasState(x), NEW k,
         NEW done, done = [q EXCEPT !.status = s, !.work = "run", !.back = "none",
                                    !.recovery = x, !.recovery.attempts = @ + 1]
  PROVE  /\ Again([done EXCEPT !.recovery.state = "blocked"], q, s, "blocked")
         /\ Again([done EXCEPT !.recovery.state = "continued", !.recovery.child = k],
                  q, s, "continued")
<1>1. Again(done, q, s, x.state)
  <2>1. ASSUME NEW y, HasState(y)
        PROVE  Again([q EXCEPT !.status = s, !.work = "run", !.back = "none", !.recovery = y],
                     q, s, y.state)
    BY <2>1 DEF Again, IsRow, SameTurn, Statuses
  <2>2. ASSUME NEW z
        PROVE  [q EXCEPT !.status = s, !.work = "run", !.back = "none", !.recovery = x,
                         !.recovery.attempts = z]
                 = [q EXCEPT !.status = s, !.work = "run", !.back = "none",
                             !.recovery = [x EXCEPT !.attempts = z]]
    BY DEF IsRow
  <2>3. ASSUME NEW z
        PROVE  /\ HasState([x EXCEPT !.attempts = z])
               /\ [x EXCEPT !.attempts = z].state = x.state
    BY DEF HasState
  <2>4. ASSUME NEW z
        PROVE  Again([q EXCEPT !.status = s, !.work = "run", !.back = "none", !.recovery = x,
                               !.recovery.attempts = z], q, s, x.state)
    <3>1. PICK y : y = [x EXCEPT !.attempts = z]
      OBVIOUS
    <3>2. HasState(y) /\ y.state = x.state
      BY <2>3, <3>1
    <3>3. PICK e : e = [q EXCEPT !.status = s, !.work = "run", !.back = "none", !.recovery = y]
      OBVIOUS
    <3>4. Again(e, q, s, x.state)
      BY <2>1, <3>2, <3>3
    <3>5. [q EXCEPT !.status = s, !.work = "run", !.back = "none", !.recovery = x,
                    !.recovery.attempts = z] = e
      BY <2>2, <3>1, <3>3
    <3> QED
      BY <3>4, <3>5
  <2> QED
    BY <2>4
<1>2. ASSUME NEW y, NEW v, Again(y, q, s, v)
      PROVE  /\ Again([y EXCEPT !.recovery.state = "blocked"], q, s, "blocked")
             /\ Again([y EXCEPT !.recovery.state = "continued"], q, s, "continued")
             /\ Again([y EXCEPT !.recovery.child = k], q, s, v)
  <2>1. Again([y EXCEPT !.recovery.state = "blocked"], q, s, "blocked")
    BY <1>2 DEF Again, IsRow, SameTurn, HasState
  <2>2. Again([y EXCEPT !.recovery.state = "continued"], q, s, "continued")
    BY <1>2 DEF Again, IsRow, SameTurn, HasState
  <2>3. Again([y EXCEPT !.recovery.child = k], q, s, v)
    BY <1>2 DEF Again, IsRow, SameTurn, HasState
  <2> QED
    BY <2>1, <2>2, <2>3
<1>3. PICK d : d = [done EXCEPT !.recovery.state = "continued"]
  OBVIOUS
<1>4. Again(d, q, s, "continued")
  BY <1>1, <1>2, <1>3
<1>5. [done EXCEPT !.recovery.state = "continued", !.recovery.child = k]
        = [d EXCEPT !.recovery.child = k]
  BY <1>1, <1>3 DEF Again, IsRow
<1>6. Again([d EXCEPT !.recovery.child = k], q, s, "continued")
  BY <1>2, <1>4
<1> QED
  BY <1>1, <1>2, <1>5, <1>6

LEMMA FinishReplanSettles == ASSUME SInv, CodeInv, FinishReplan PROVE CodeInv' /\ NoneSent
<1>1. PICK t, s, x : t = job.turn /\ s = job.row.back /\ x = job.row.recovery
  OBVIOUS
<1>2. /\ t # 0 /\ job.kind = "replan" /\ job' = NoJob /\ kept' = kept /\ container' = container
  BY <1>1 DEF SInv, JobInv, FinishReplan, Runs, disk
<1>3. /\ t \in Present /\ t \in Nat /\ (\A u \in Present : u <= t) /\ t + 1 \notin Present
      /\ turns[t].status = "running" /\ WorkInv /\ Grounded(turns[t]) /\ t \in Turns
      /\ turns[t].work = "replan" /\ s = turns[t].back /\ IsRow(turns[t]) /\ Plans(turns[t])
      /\ turns = [u \in Turns |-> turns[u]]
      /\ job.ok => t < MaxTurns
  <2>1. t \in Present /\ t \in Nat /\ (\A u \in Present : u <= t) /\ t + 1 \notin Present
        /\ turns[t].status = "running" /\ WorkInv /\ Grounded(turns[t])
    BY <1>1, <1>2, JobKnows
  <2>2. turns[t].work = "replan" /\ s = turns[t].back /\ (job.ok => t < MaxTurns)
    BY <1>1, <1>2 DEF SInv, JobInv
  <2>3. t \in Turns
    BY <2>1 DEF Present
  <2> QED
    BY <2>1, <2>2, <2>3 DEF SInv, TurnsInv
<1>4. HasState(x) /\ s \in {"review", "failed"} /\ (job.ok => kept.replan[t] # Empty)
  BY <1>1, <1>2, <1>3 DEF WorkInv, Plans
<1>5. PICK done : done = [turns[t] EXCEPT !.status = s, !.work = "run", !.back = "none",
                                          !.recovery = x, !.recovery.attempts = @ + 1]
  OBVIOUS
<1>6. PICK b, g, q : /\ b = [done EXCEPT !.recovery.state = "blocked"]
                     /\ g = [done EXCEPT !.recovery.state = "continued",
                                         !.recovery.child = t + 1]
                     /\ q = NewQuestion(t + 1, job.category, t)
  OBVIOUS
<1>7. Again(b, turns[t], s, "blocked") /\ Again(g, turns[t], s, "continued")
  BY <1>3, <1>4, <1>5, <1>6, RowsAgain
<1>8. \/ ~job.ok /\ turns' = [turns EXCEPT ![t] = b]
      \/ job.ok /\ turns' = [turns EXCEPT ![t] = g, ![t + 1] = q]
  BY <1>1, <1>5, <1>6 DEF FinishReplan
<1>9. ~Drafting'
  BY <1>2 DEF NoJob, Drafting
<1>10. ASSUME NEW r, NEW v, Again(r, turns[t], s, v)
       PROVE  /\ Becomes(r, turns[t]) /\ Grounded(r) /\ r.status \notin Active
              /\ r.status # "absent" /\ (r.sent => turns[t].sent)
              /\ r.outcome # "none" /\ turns[t].root = container.root => t \in container.code
              /\ r.archive # Empty => Taken(r.archive, t)
              /\ r.disputed /\ r.continuation.state \in {"ready", "planned", "continued"}
                   => kept.retained[t] # Empty
              /\ r.permitted = turns[t].permitted /\ r.archive = turns[t].archive
  <2>1. Becomes(r, turns[t])
    BY <1>10 DEF Again, Becomes
  <2>2. r.status \notin Active /\ r.status # "absent" /\ r.sent = turns[t].sent
    BY <1>4, <1>10 DEF Again, Active
  <2>3. s = "review" <=> turns[t].archive # Empty
    BY <1>3 DEF Grounded
  <2>4. Grounded(r)
    BY <1>3, <1>4, <1>10, <2>2, <2>3 DEF Grounded, Again
  <2>5. r.outcome # "none" /\ turns[t].root = container.root => t \in container.code
    BY <1>3, <1>10 DEF CodeInv, BoxInv, Again
  <2>6. /\ r.archive # Empty => Taken(r.archive, t)
        /\ r.disputed /\ r.continuation.state \in {"ready", "planned", "continued"}
             => kept.retained[t] # Empty
    BY <1>3, <1>10 DEF CodeInv, CopiesInv, CopiesOf, DisputedReady, Again
  <2> QED
    BY <1>10, <2>1, <2>2, <2>4, <2>5, <2>6 DEF Again
<1>11. CASE ~job.ok /\ turns' = [turns EXCEPT ![t] = b]
  <2>1. /\ turns'[t] = b /\ \A u \in Turns : u # t => turns'[u] = turns[u]
    BY <1>3, <1>11
  <2>2. t + 1 # t
    BY <1>3
  <2>3. ToReplan(b)
    BY <1>7, <1>10 DEF ToReplan, Again
  <2>4. Follows(t, b)
    BY <1>2, <1>3, <1>7, <1>9, <1>10, <2>1, <2>2, <2>3 DEF Follows
  <2>5. OrderInv' /\ CopiesInv' /\ SnapshotsInv' /\ BoxInv' /\ NoneSent
    BY <1>3, <2>4, FollowsSettles
  <2> QED
    BY <1>2, <2>5 DEF CodeInv, WorkInv, NoJob
<1>12. CASE job.ok /\ turns' = [turns EXCEPT ![t] = g, ![t + 1] = q]
  <2>1. t + 1 \in Turns /\ t + 1 # t
    BY <1>3, <1>12, SeriesAssumption DEF Turns
  <2>2. /\ turns'[t] = g /\ turns'[t + 1] = q
        /\ \A u \in Turns : u # t /\ u # t + 1 => turns'[u] = turns[u]
    BY <1>3, <1>12, <2>1
  <2>3. Fresh(q) /\ Grounded(q) /\ q.planned = t /\ Independent(q) /\ q.root = t + 1
    BY <1>6, NewTurns
  <2>4. Adds(t, g, q)
    BY <1>4, <1>12, <2>3 DEF Adds
  <2>5. t + 1 \in Present'
    BY <2>1, <2>2, <2>3 DEF Present, Fresh
  <2>6. Follows(t, g)
    BY <1>2, <1>3, <1>7, <1>9, <1>10, <2>2, <2>4, <2>5 DEF Follows
  <2>7. OrderInv' /\ CopiesInv' /\ SnapshotsInv' /\ BoxInv' /\ NoneSent
    BY <1>3, <2>6, FollowsSettles
  <2> QED
    BY <1>2, <2>7 DEF CodeInv, WorkInv, NoJob
<1> QED
  BY <1>8, <1>11, <1>12

------------------------------------------------------------------------------
\* The invariant of the code, and what a question is sent over.

LEMMA FirstCode == SeriesInit => CodeInv
<1> SUFFICES ASSUME SeriesInit PROVE CodeInv
  OBVIOUS
<1>1. PICK q : q = NewQuestion(1, First, 0)
  OBVIOUS
<1>2. /\ q.status = "queued" /\ ~q.sent /\ q.outcome = "none" /\ q.archive = Empty
      /\ ~q.disputed /\ q.planned = 0 /\ Independent(q) /\ q.root = 1 /\ Grounded(q)
  BY <1>1 DEF NewQuestion, Absent, Grounded, HasState, NoRecovery, Independent, Active
<1>3. Absent.status = "absent" /\ Grounded(Absent)
  BY DEF Absent, Grounded, HasState, NoRecovery, Active
<1>4. /\ turns = [t \in Turns |-> IF t = 1 THEN q ELSE Absent] /\ job = NoJob /\ 1 \in Turns
      /\ container = [root |-> 0, status |-> "none", code |-> Empty, from |-> {},
                      imported |-> FALSE]
      /\ kept = [kind \in {"replan", "retained"} |-> [t \in Turns |-> Empty]]
  BY <1>1, SeriesAssumption DEF SeriesInit, Turns
<1>5. turns[1] = q /\ \A t \in Turns \ {1} : turns[t] = Absent
  BY <1>4
<1>6. Present = {1}
  BY <1>2, <1>3, <1>4, <1>5 DEF Present
<1>7. OrderInv
  BY <1>2, <1>3, <1>5, <1>6 DEF OrderInv
<1>8. \A t \in Turns : kept.replan[t] = Empty /\ kept.retained[t] = Empty
  BY <1>4
<1>9. CopiesInv
  <2>1. /\ kept = [kind \in {"replan", "retained"} |-> kept[kind]]
        /\ kept.replan = [t \in Turns |-> kept.replan[t]]
        /\ kept.retained = [t \in Turns |-> kept.retained[t]]
    BY <1>4
  <2> QED
    BY <1>2, <1>4, <1>5, <1>6, <1>8, <2>1 DEF CopiesInv, CopiesOf, DisputedReady
<1>10. SnapshotsInv
  BY <1>4, <1>6, <1>8 DEF SnapshotsInv
<1>11. BoxInv
  BY <1>2, <1>4, <1>5, <1>6 DEF BoxInv, Drafting, NoJob, Empty
<1>12. WorkInv
  BY <1>4 DEF WorkInv, NoJob
<1> QED
  BY <1>7, <1>9, <1>10, <1>11, <1>12 DEF CodeInv

\* A step either sends or none is sent, and what the code has stays so.
LEMMA CodeStep ==
  ASSUME SInv, CodeInv, KeptInv, [SeriesNext]_seriesVars
  PROVE  CodeInv' /\ (Send \/ NoneSent)
<1>1. turns' = turns => NoneSent
  BY DEF NoneSent
<1>2. CASE JobStep
  <2>1. ASSUME NEW t \in Present, Claim(t) PROVE CodeInv' /\ NoneSent
    BY <2>1, ClaimSettles
  <2>2. CASE CloseForNext \/ CloseFailed
    BY <1>1, <2>2, ClosesSettle DEF CloseForNext, CloseFailed, store
  <2>3. CASE EnsureContainer
    BY <1>1, <2>3, EnsureSettles DEF EnsureContainer, store
  <2>4. CASE ImportSource
    BY <1>1, <2>4, ImportSettles DEF ImportSource, store
  <2>5. CASE FinishImport
    BY <1>1, <2>5, FinishImportSettles DEF FinishImport, store
  <2>6. CASE Send
    BY <2>6, SendSettles
  <2>7. ASSUME NEW cause \in Stages, DraftRefused(cause) PROVE CodeInv' /\ NoneSent
    BY <1>1, <2>7, RefusedSettles DEF DraftRefused, store
  <2>8. ASSUME NEW outcome \in {"complete", "error", "gateway"}, NEW permitted \in BOOLEAN,
               CallEnds(outcome, permitted)
        PROVE  CodeInv' /\ NoneSent
    BY <1>1, <2>8, CallSettles DEF CallEnds, store
  <2>9. ASSUME NEW bugs \in BOOLEAN, NEW next \in Answers, Evaluate(bugs, next)
        PROVE  CodeInv' /\ NoneSent
    BY <1>1, <2>9, EvaluateSettles DEF Evaluate, store
  <2>10. ASSUME NEW bugs \in BOOLEAN, EvaluateDisputed(bugs) PROVE CodeInv' /\ NoneSent
    BY <1>1, <2>10, DisputeSettles DEF EvaluateDisputed, store
  <2>11. ASSUME NEW next \in Answers, PlanAgain(next) PROVE CodeInv' /\ NoneSent
    BY <1>1, <2>11, PlanAgainSettles DEF PlanAgain, store
  <2>12. ASSUME NEW next \in Answers, PlanDisputed(next) PROVE CodeInv' /\ NoneSent
    BY <1>1, <2>12, PlanDisputedSettles DEF PlanDisputed, store
  <2>13. CASE RetainDisputed
    BY <1>1, <2>13, RetainDisputedSettles DEF RetainDisputed, store
  <2>14. CASE RetainSource
    BY <1>1, <2>14, RetainSettles DEF RetainSource, store
  <2>15. ASSUME NEW c \in Categories, NEW accepted \in BOOLEAN, PlanSuccessor(c, accepted)
         PROVE  CodeInv' /\ NoneSent
    BY <1>1, <2>15, SuccessorSettles DEF PlanSuccessor, store
  <2>16. ASSUME NEW c \in Categories, FinishTurn(c) PROVE CodeInv' /\ NoneSent
    BY <2>16, FinishTurnSettles
  <2>17. CASE FinishReplan
    BY <2>17, FinishReplanSettles
  <2> QED
    BY <1>2, <2>1, <2>2, <2>3, <2>4, <2>5, <2>6, <2>7, <2>8, <2>9, <2>10, <2>11, <2>12, <2>13,
       <2>14, <2>15, <2>16, <2>17 DEF JobStep
<1>3. CASE Person
  <2>1. CASE (\E c \in Categories : EnqueueQuestion(c)) \/ EnqueueRepair
    BY <2>1, EnqueueSettles
  <2>2. CASE Retry \/ RetryPlan
    BY <2>2, RetriesSettle
  <2>3. CASE SwitchAuto
    BY <1>1, <2>3, ClosesSettle DEF SwitchAuto
  <2>4. ASSUME NEW t \in Present, Exclude(t) PROVE CodeInv' /\ NoneSent
    BY <2>4, ExcludeSettles
  <2> QED
    BY <1>3, <2>1, <2>2, <2>3, <2>4 DEF Person
<1>4. CASE StartClosing \/ EndClosing
  BY <1>1, <1>4, ClosesSettle DEF StartClosing, EndClosing, store
<1>5. ASSUME NEW late \in BOOLEAN, Crash(late) PROVE CodeInv' /\ NoneSent
  BY <1>5, CrashSettles
<1>6. CASE UNCHANGED seriesVars
  <2>1. turns' = turns /\ kept' = kept /\ container' = container /\ job' = job
    BY <1>6 DEF seriesVars
  <2>2. SameCode
    BY <2>1, BoxesSame DEF CodeInv
  <2> QED
    BY <1>1, <2>1, <2>2, WorkSame
<1> QED
  BY <1>2, <1>3, <1>4, <1>5, <1>6 DEF SeriesNext

LEMMA SendServes ==
  ASSUME SInv, CodeInv, Send, NEW t \in Present, ~turns[t].sent, turns'[t].sent
  PROVE  /\ \/ Whole(container.code) \/ ~Whole(container.from)
            \/ PriorQuestion(t) = {} \/ ~Independent(turns[t])
         /\ Holds(container.code, t)
         /\ \A u \in container.code \ {0} : SessionPermitted(u)
<1>1. /\ job.kind = "run" /\ job.phase = "draft" /\ job.turn # 0
      /\ turns' = [turns EXCEPT ![job.turn].sent = TRUE]
  BY DEF Send, Runs, SInv, JobInv
<1>2. t = job.turn
  BY <1>1 DEF SInv, TurnsInv, Present
<1>3. PhaseInv /\ Drafting
  BY <1>1, JobKnows DEF Drafting
<1>4. /\ SessionPermitted(t) /\ container.root = turns[t].root
      /\ ~Independent(turns[t]) \/ container.imported \/ PriorQuestion(t) = {}
  BY <1>1, <1>2, <1>3 DEF PhaseInv
<1>5. Holds(container.code, container.root)
  BY <1>3 DEF CodeInv, BoxInv
<1>6. Holds(container.code, t)
  BY <1>4, <1>5, BoxHolds
<1>7. \A w \in Present : turns[w].root = turns[t].root => SessionPermitted(w)
  BY <1>4 DEF SessionPermitted, Session
<1>8. \A u \in container.code \ {0} : SessionPermitted(u)
  BY <1>4, <1>7 DEF CodeInv, BoxInv
<1>9. container.imported => Whole(container.code) \/ ~Whole(container.from)
  BY DEF CodeInv, BoxInv
<1> QED
  BY <1>4, <1>6, <1>8, <1>9

------------------------------------------------------------------------------
\* The container of a draft that is to be prepared again.

\* While such a draft is the last turn no job runs.
LEMMA FrozenIdle ==
  ASSUME SInv, KeptInv, NEW t \in Present, turns[t].stage = "frozen",
         \A u \in Present : u <= t
  PROVE  job.turn = 0
<1> SUFFICES ASSUME job.turn # 0 PROVE FALSE
  OBVIOUS
<1>1. /\ job.turn \in Present /\ turns[job.turn].status = "running"
      /\ \A u \in Present : u <= job.turn
  BY DEF SInv, JobInv
<1>2. t \in Nat /\ job.turn \in Nat /\ t <= job.turn /\ job.turn <= t
  BY <1>1, Numbers DEF SInv
<1>3. t = job.turn
  BY <1>2
<1> QED
  BY <1>1, <1>3 DEF KeptInv, FrozenInv

\* A step that refuses no draft that way, and leaves alone what the last one needs.
LEMMA FrozenStays ==
  ASSUME KeptInv, Present \subseteq Present', closed => closed',
         \A t \in Present' : turns'[t].stage = "frozen" =>
           /\ t \in Present /\ turns[t].stage = "frozen" /\ turns'[t].root = turns[t].root
           /\ turns'[t].status = "failed" /\ ~turns'[t].sent,
         (\E t \in Present : /\ turns[t].stage = "frozen" /\ (\A u \in Present : u <= t)
                             /\ ~closed)
           => container' = container /\ known' = known /\ kept' = kept
  PROVE  /\ FrozenInv'
         /\ closing' = closing /\ (job.turn = 0 => job'.turn = 0) => ClosingInv'
<1>1. ASSUME NEW t \in Present', turns'[t].stage = "frozen", \A u \in Present' : u <= t
      PROVE  /\ t \in Present /\ turns[t].stage = "frozen"
             /\ turns'[t].root = turns[t].root /\ \A u \in Present : u <= t
  BY <1>1
<1>2. ASSUME NEW t \in Present', turns'[t].stage = "frozen", \A u \in Present' : u <= t,
             ~closed'
      PROVE  kept'.replan[t] = Empty /\ OwnBox(t)'
  <2>1. /\ t \in Present /\ turns[t].stage = "frozen" /\ turns'[t].root = turns[t].root
        /\ (\A u \in Present : u <= t) /\ ~closed
    BY <1>1, <1>2
  <2>2. container' = container /\ known' = known /\ kept' = kept
    BY <2>1
  <2>3. kept.replan[t] = Empty /\ OwnBox(t)
    BY <2>1 DEF KeptInv, FrozenInv
  <2> QED
    BY <2>1, <2>2, <2>3 DEF OwnBox
<1>3. FrozenInv'
  BY <1>2 DEF FrozenInv
<1>4. ASSUME closing' = closing, job.turn = 0 => job'.turn = 0 PROVE ClosingInv'
  BY <1>1, <1>4 DEF KeptInv, ClosingInv
<1> QED
  BY <1>3, <1>4

\* The steps of a job leave such drafts alone.
LEMMA FrozenInJob ==
  ASSUME SInv, KeptInv, job.turn # 0, turns' = turns, closed' = closed, closing' = closing
  PROVE  FrozenInv' /\ ClosingInv'
<1>1. Present' = Present
  BY DEF Present
<1>2. ~\E t \in Present : /\ turns[t].stage = "frozen" /\ (\A u \in Present : u <= t)
                          /\ ~closed
  BY FrozenIdle
<1>3. \A t \in Present' : turns'[t].stage = "frozen" =>
        /\ t \in Present /\ turns[t].stage = "frozen" /\ turns'[t].root = turns[t].root
        /\ turns'[t].status = "failed" /\ ~turns'[t].sent
  BY <1>1 DEF KeptInv, FrozenInv
<1>4. closing' = closing /\ (job.turn = 0 => job'.turn = 0)
  OBVIOUS
<1> QED
  BY <1>1, <1>2, <1>3, <1>4, FrozenStays

\* A job's row that was not refused that way is not by a step that keeps its stage.
LEMMA OwnGoesOn ==
  ASSUME KeptInv, job.turn # 0, job.phase # "done" \/ job.kind # "run",
         job'.turn = job.turn, job'.row.stage = job.row.stage,
         job'.kind # "run" \/ job'.phase \notin {"ensured", "importing", "draft"}
  PROVE  OwnInv'
BY DEF KeptInv, OwnInv

LEMMA StagesKept ==
  ASSUME NEW q, IsRow(q), NEW x, NEW y, NEW z
  PROVE  /\ [q EXCEPT !.outcome = x, !.gateway = y, !.permitted = z].stage = q.stage
         /\ [q EXCEPT !.bugs = x, !.archive = y].stage = q.stage
         /\ [q EXCEPT !.bugs = x, !.disputed = y].stage = q.stage
         /\ [q EXCEPT !.continuation = x].stage = q.stage
         /\ [q EXCEPT !.continuation.state = x].stage = q.stage
         /\ [q EXCEPT !.recovery.code = x].stage = q.stage
         /\ [q EXCEPT !.recovery.waits = x].stage = q.stage
         /\ [q EXCEPT !.sent = x].stage = q.stage
         /\ [q EXCEPT !.status = x].stage = q.stage
         /\ [q EXCEPT !.status = x, !.work = y].stage = q.stage
         /\ [q EXCEPT !.status = x, !.work = y, !.tries = @ + 1].stage = q.stage
         /\ [q EXCEPT !.status = x, !.work = y, !.back = z].stage = q.stage
BY DEF IsRow

\* A question's container and its draft.
LEMMA DraftOwns ==
  ASSUME SInv, CodeInv, KeptInv,
         \/ EnsureContainer \/ ImportSource \/ FinishImport
         \/ \E cause \in Stages : DraftRefused(cause)
  PROVE  KeptInv'
<1>1. job.turn # 0 /\ job.kind = "run" /\ job.phase \in {"begun", "ensured", "importing", "draft"}
  BY DEF EnsureContainer, ImportSource, FinishImport, DraftRefused, Runs, SInv, JobInv
<1>2. turns' = turns /\ closed' = closed /\ closing' = closing
  BY DEF EnsureContainer, ImportSource, FinishImport, DraftRefused, store, disk
<1>3. FrozenInv' /\ ClosingInv'
  BY <1>1, <1>2, FrozenInJob
<1>4. /\ IsJob(job) /\ IsRow(job.row) /\ PhaseInv
      /\ job.row.sent = turns[job.turn].sent
      /\ container = [root |-> container.root, status |-> container.status,
                      code |-> container.code, from |-> container.from,
                      imported |-> container.imported]
  BY <1>1, JobKnows DEF WorkInv, CodeInv, BoxInv
<1>5. job.row.stage # "frozen"
  BY <1>1 DEF KeptInv, OwnInv
<1>6. \A p : /\ To(p).turn = job.turn /\ To(p).kind = job.kind /\ To(p).row = job.row
             /\ To(p).phase = p
  BY <1>4 DEF To, IsJob
<1>7. /\ Failed.turn = job.turn /\ Failed.kind = job.kind /\ Failed.row = job.row
      /\ Failed.phase = "done"
  BY <1>4 DEF Failed, IsJob
<1>8. job' = Failed => OwnInv'
  BY <1>1, <1>5, <1>7 DEF OwnInv
<1>9. CASE EnsureContainer
  <2>1. CASE job' = To("ensured")
    <3>1. container'.root = turns[job.turn].root /\ container'.status = "running"
      BY <1>9, <1>7, <1>6, <2>1 DEF EnsureContainer
    <3> QED
      BY <1>2, <1>3, <1>5, <1>6, <2>1, <3>1 DEF OwnInv, KeptInv
  <2> QED
    BY <1>3, <1>8, <1>9, <2>1 DEF EnsureContainer, KeptInv
<1>10. CASE ImportSource
  <2>1. job.phase = "ensured"
    BY <1>10 DEF ImportSource, Runs
  <2>2. container.root = turns[job.turn].root /\ container.status = "running"
    BY <1>1, <2>1 DEF KeptInv, OwnInv
  <2>3. container'.root = container.root /\ container'.status = container.status
    BY <1>4, <1>10 DEF ImportSource
  <2>4. \/ job' = To("draft") /\ known' = [root |-> container.root, status |-> "running"]
        \/ job' = Failed
        \/ job' = To("importing")
    BY <1>10 DEF ImportSource
  <2> QED
    BY <1>2, <1>3, <1>5, <1>6, <1>8, <2>2, <2>3, <2>4 DEF OwnInv, OwnBox, KeptInv
<1>11. CASE FinishImport
  <2>1. job.phase = "importing"
    BY <1>11 DEF FinishImport, Runs
  <2>2. container.root = turns[job.turn].root /\ container.status = "running"
    BY <1>1, <2>1 DEF KeptInv, OwnInv
  <2>3. container'.root = container.root /\ container'.status = container.status
    BY <1>4, <1>11 DEF FinishImport
  <2>4. job' = To("draft") /\ known' = [root |-> container.root, status |-> "running"]
    BY <1>11 DEF FinishImport
  <2> QED
    BY <1>2, <1>3, <1>5, <1>6, <2>2, <2>3, <2>4 DEF OwnInv, OwnBox, KeptInv
<1>12. ASSUME NEW cause \in Stages, DraftRefused(cause) PROVE KeptInv'
  <2>1. job.phase = "draft" /\ container' = container /\ known' = known
    BY <1>12 DEF DraftRefused, Runs, disk
  <2>2. OwnBox(job.turn) /\ ~job.row.sent
    BY <1>1, <1>4, <2>1 DEF KeptInv, OwnInv, PhaseInv
  <2>3. /\ job'.turn = job.turn /\ job'.kind = "run" /\ job'.phase = "done"
        /\ job'.row = [job.row EXCEPT !.stage = cause]
    BY <1>1, <1>4, <1>12 DEF DraftRefused, Failed, IsJob
  <2>4. job'.row.sent = job.row.sent
    BY <1>4, <2>3 DEF IsRow
  <2> QED
    BY <1>2, <1>3, <2>1, <2>2, <2>3, <2>4 DEF OwnInv, OwnBox, KeptInv
<1> QED
  BY <1>9, <1>10, <1>11, <1>12

\* The other steps of a job: what it has of its turn keeps its stage.
LEMMA JobOwns ==
  ASSUME SInv, CodeInv, KeptInv,
         \/ CloseForNext \/ CloseFailed \/ RetainDisputed \/ RetainSource
         \/ \E outcome \in {"complete", "error", "gateway"}, permitted \in BOOLEAN :
              CallEnds(outcome, permitted)
         \/ \E bugs \in BOOLEAN, next \in Answers : Evaluate(bugs, next)
         \/ \E bugs \in BOOLEAN : EvaluateDisputed(bugs)
         \/ \E next \in Answers : PlanAgain(next) \/ PlanDisputed(next)
         \/ \E c \in Categories, accepted \in BOOLEAN : PlanSuccessor(c, accepted)
  PROVE  KeptInv'
<1>1. /\ job.turn # 0 /\ (job.kind = "run" => job.phase \in {"begun", "sent", "answered"})
      /\ turns' = turns /\ closed' = closed /\ closing' = closing
  BY DEF CloseForNext, CloseFailed, RetainDisputed, RetainSource, CallEnds, Evaluate,
         EvaluateDisputed, PlanAgain, PlanDisputed, PlanSuccessor, Runs, store, disk, SInv, JobInv
<1>2. FrozenInv' /\ ClosingInv'
  BY <1>1, FrozenInJob
<1>3. IsJob(job) /\ IsRow(job.row)
  BY <1>1, JobKnows
<1> DEFINE Goes(j) == /\ j.turn = job.turn /\ j.row.stage = job.row.stage
                      /\ j.kind # "run" \/ j.phase \notin {"ensured", "importing", "draft"}
<1>4. ASSUME Goes(job') PROVE KeptInv'
  <2>1. job.phase # "done" \/ job.kind # "run"
    BY <1>1
  <2>2. OwnInv'
    BY <1>1, <1>4, <2>1, OwnGoesOn
  <2> QED
    BY <1>2, <2>2 DEF KeptInv
<1>5. ASSUME NEW r, r.stage = job.row.stage, NEW o, NEW x, NEW c
      PROVE  Goes(Done(r, o, x)) /\ Goes([Done(r, o, x) EXCEPT !.category = c])
  BY <1>3, <1>5 DEF Done, IsJob
<1>6. ASSUME NEW r, r.stage = job.row.stage, NEW p \in {"begun", "retained", "kept", "closed"},
             NEW k, k # "run"
      PROVE  Goes([job EXCEPT !.phase = p, !.kind = k, !.row = r])
  BY <1>3, <1>6 DEF IsJob
<1>7. ASSUME NEW r, r.stage = job.row.stage, NEW x
      PROVE  Goes([Failed EXCEPT !.row = r, !.next = x])
  BY <1>3, <1>7 DEF Failed, IsJob
<1>8. Goes(Failed)
  BY <1>3 DEF Failed, IsJob
<1>9. CASE CloseForNext
  <2>1. job' = job \/ job' = Failed
    BY <1>9 DEF CloseForNext
  <2>2. Goes(job)
    BY <1>9 DEF CloseForNext, Runs
  <2> QED
    BY <1>4, <1>8, <2>1, <2>2
<1>10. ASSUME NEW outcome \in {"complete", "error", "gateway"}, NEW permitted \in BOOLEAN,
              CallEnds(outcome, permitted)
       PROVE  KeptInv'
  <2>1. PICK r : /\ \E x, y, z :
                      r = [job.row EXCEPT !.outcome = x, !.gateway = y, !.permitted = z]
                 /\ \/ job' = [job EXCEPT !.phase = "answered", !.row = r]
                    \/ job' = Done(r, FALSE, "none")
    BY <1>10 DEF CallEnds
  <2>2. r.stage = job.row.stage
    BY <1>3, <2>1, StagesKept
  <2>3. Goes([job EXCEPT !.phase = "answered", !.row = r])
    BY <1>3, <2>2 DEF IsJob
  <2> HIDE DEF Goes
  <2>4. Goes(Done(r, FALSE, "none"))
    BY <1>5, <2>2
  <2>5. Goes(job')
    BY <2>1, <2>3, <2>4
  <2> QED
    BY <1>4, <2>5
<1>11. ASSUME NEW bugs \in BOOLEAN, NEW next \in Answers, Evaluate(bugs, next) PROVE KeptInv'
  <2>1. PICK r : /\ r = [job.row EXCEPT !.bugs = bugs, !.archive = container.code]
                 /\ job' = Done(r, TRUE, next)
    BY <1>11 DEF Evaluate
  <2>2. r.stage = job.row.stage
    BY <1>3, <2>1, StagesKept
  <2> HIDE DEF Goes
  <2> QED
    BY <1>4, <1>5, <2>1, <2>2
<1>12. ASSUME NEW bugs \in BOOLEAN, EvaluateDisputed(bugs) PROVE KeptInv'
  <2>1. PICK r : r = [job.row EXCEPT !.bugs = bugs, !.disputed = TRUE]
    OBVIOUS
  <2>2. r.stage = job.row.stage
    BY <1>3, <2>1, StagesKept
  <2>3. job' = [job EXCEPT !.phase = "begun", !.kind = "dispute", !.row = r]
    BY <1>3, <1>12, <2>1 DEF EvaluateDisputed, IsJob, IsRow
  <2> HIDE DEF Goes
  <2> QED
    BY <1>4, <1>6, <2>2, <2>3
<1>13. ASSUME NEW next \in Answers, PlanAgain(next) PROVE KeptInv'
  <2>1. job' = Done(job.row, TRUE, next)
    BY <1>13 DEF PlanAgain
  <2> HIDE DEF Goes
  <2> QED
    BY <1>4, <1>5, <2>1
<1>14. ASSUME \/ RetainDisputed
              \/ \E next \in Answers : PlanDisputed(next)
       PROVE  KeptInv'
  <2>1. PICK k, r, q : k = job.kind /\ r = job.row /\ q = Failed.row
    OBVIOUS
  <2>2. k = "dispute" /\ q = r
    BY <1>3, <1>14, <2>1 DEF PlanDisputed, RetainDisputed, Runs, Failed, IsJob
  <2>3. ASSUME NEW x PROVE Goes([job EXCEPT !.phase = "retained", !.row.continuation = x])
    <3>1. PICK z : z = [r EXCEPT !.continuation = x]
      OBVIOUS
    <3>2. z.stage = r.stage
      BY <1>3, <2>1, <3>1, StagesKept
    <3> QED
      BY <1>3, <2>1, <2>2, <3>1, <3>2 DEF IsJob
  <2>4. Goes([Failed EXCEPT !.row.continuation.state = "blocked", !.next = "error"])
    <3>1. PICK z : z = [r EXCEPT !.continuation.state = "blocked"]
      OBVIOUS
    <3>2. z.stage = r.stage
      BY <1>3, <2>1, <3>1, StagesKept
    <3>3. [Failed EXCEPT !.row.continuation.state = "blocked", !.next = "error"]
            = [Failed EXCEPT !.row = z, !.next = "error"]
      BY <1>3, <2>1, <2>2, <3>1 DEF Failed, IsJob
    <3> HIDE DEF Goes
    <3> QED
      BY <1>7, <2>1, <3>2, <3>3
  <2>5. ASSUME NEW x PROVE Goes([Done(job.row, FALSE, x) EXCEPT !.row.continuation.state = "planned"])
    <3>1. PICK z : z = [r EXCEPT !.continuation.state = "planned"]
      OBVIOUS
    <3>2. z.stage = r.stage
      BY <1>3, <2>1, <3>1, StagesKept
    <3>3. [Done(job.row, FALSE, x) EXCEPT !.row.continuation.state = "planned"] = Done(z, FALSE, x)
      BY <1>3, <2>1, <3>1 DEF Done, IsJob
    <3> HIDE DEF Goes
    <3>4. Goes(Done(z, FALSE, x))
      BY <1>5, <2>1, <3>2
    <3> QED
      BY <3>3, <3>4
  <2>6. \/ \E x : job' = [job EXCEPT !.phase = "retained", !.row.continuation = x]
        \/ job' = [Failed EXCEPT !.row.continuation.state = "blocked", !.next = "error"]
        \/ \E x : job' = [Done(job.row, FALSE, x) EXCEPT !.row.continuation.state = "planned"]
    BY <1>14 DEF PlanDisputed, RetainDisputed
  <2> HIDE DEF Goes
  <2>7. Goes(job')
    BY <2>3, <2>4, <2>5, <2>6
  <2> QED
    BY <1>4, <2>7
<1>15. ASSUME \/ RetainSource \/ CloseFailed
              \/ \E c \in Categories, accepted \in BOOLEAN : PlanSuccessor(c, accepted)
       PROVE  KeptInv'
  <2>1. PICK k, r, q : k = job.kind /\ r = job.row /\ q = Failed.row
    OBVIOUS
  <2>2. k = "replan" /\ q = r
    BY <1>3, <1>15, <2>1 DEF RetainSource, CloseFailed, PlanSuccessor, Runs, Failed, IsJob
  <2>3. ASSUME NEW x PROVE Goes([job EXCEPT !.phase = "kept", !.row.recovery.code = x])
    <3>1. PICK z : z = [r EXCEPT !.recovery.code = x]
      OBVIOUS
    <3>2. z.stage = r.stage
      BY <1>3, <2>1, <3>1, StagesKept
    <3> QED
      BY <1>3, <2>1, <2>2, <3>1, <3>2 DEF IsJob
  <2>4. ASSUME NEW x PROVE Goes([Failed EXCEPT !.row.recovery.waits = x])
    <3>1. PICK z : z = [r EXCEPT !.recovery.waits = x]
      OBVIOUS
    <3>2. z.stage = r.stage
      BY <1>3, <2>1, <3>1, StagesKept
    <3> QED
      BY <1>3, <2>1, <2>2, <3>1, <3>2 DEF Failed, IsJob
  <2>5. Goes(To("closed"))
    BY <1>3, <2>1, <2>2 DEF To, IsJob
  <2>6. \/ \E x : \/ job' = [job EXCEPT !.phase = "kept", !.row.recovery.code = x]
                  \/ job' = [Failed EXCEPT !.row.recovery.waits = x]
                  \/ job' = [Done(job.row, TRUE, "planned") EXCEPT !.category = x]
        \/ job' = To("closed")
    BY <1>15 DEF RetainSource, CloseFailed, PlanSuccessor, BlockedOnInputs
  <2> HIDE DEF Goes
  <2>7. ASSUME NEW x PROVE Goes([Done(job.row, TRUE, "planned") EXCEPT !.category = x])
    BY <1>5
  <2>8. Goes(job')
    BY <2>3, <2>4, <2>5, <2>6, <2>7
  <2> QED
    BY <1>4, <2>8
<1> QED
  BY <1>9, <1>10, <1>11, <1>12, <1>13, <1>14, <1>15

\* One turn changes, and is not such a draft afterwards, or not less than it was.
LEMMA TurnKeeps ==
  ASSUME TurnsInv, KeptInv, NEW t \in Present, NEW r, turns' = [turns EXCEPT ![t] = r],
         r.status # "absent",
         r.stage = "frozen" =>
           /\ turns[t].stage = "frozen" /\ r.root = turns[t].root
           /\ r.status = "failed" /\ ~r.sent,
         closed' = closed, container' = container, known' = known, kept' = kept
  PROVE  FrozenInv' /\ (closing' = closing /\ (job.turn = 0 => job'.turn = 0) => ClosingInv')
<1>1. t \in Turns /\ turns'[t] = r /\ \A u \in Turns \ {t} : turns'[u] = turns[u]
  BY DEF TurnsInv, Present
<1>2. Present' = Present
  BY <1>1 DEF Present
<1>3. \A u \in Present' : turns'[u].stage = "frozen" =>
        /\ u \in Present /\ turns[u].stage = "frozen" /\ turns'[u].root = turns[u].root
        /\ turns'[u].status = "failed" /\ ~turns'[u].sent
  BY <1>1, <1>2 DEF KeptInv, FrozenInv, Present
<1> QED
  BY <1>2, <1>3, FrozenStays

\* What has an outcome was sent, so such a draft has none.
LEMMA FrozenUnheard ==
  ASSUME SInv, CodeInv, KeptInv, NEW t \in Present, turns[t].stage = "frozen"
  PROVE  /\ turns[t].status = "failed" /\ ~turns[t].sent /\ turns[t].outcome = "none"
         /\ ~turns[t].disputed
BY DEF KeptInv, FrozenInv, CodeInv, OrderInv, Grounded, Present

LEMMA SendOwns == ASSUME SInv, CodeInv, KeptInv, Send PROVE KeptInv'
<1>1. /\ job.turn # 0 /\ job.kind = "run" /\ job.phase = "draft"
      /\ job' = [job EXCEPT !.phase = "sent", !.row.sent = TRUE]
      /\ turns' = [turns EXCEPT ![job.turn].sent = TRUE]
      /\ closed' = closed /\ container' = container /\ known' = known /\ kept' = kept
      /\ closing' = closing
  BY DEF Send, Runs, SInv, JobInv, disk
<1>2. PICK t, q, r : t = job.turn /\ q = turns[t] /\ r = [q EXCEPT !.sent = TRUE]
  OBVIOUS
<1>3. /\ t \in Present /\ q.status = "running" /\ IsJob(job) /\ IsRow(job.row)
      /\ TurnsInv /\ IsRow(q)
  BY <1>1, <1>2, JobKnows DEF SInv, TurnsInv, Present
<1>4. turns' = [turns EXCEPT ![t] = r]
  BY <1>1, <1>2
<1>5. r.status = q.status /\ r.stage = q.stage
  BY <1>2, <1>3 DEF IsRow
<1>6. q.stage # "frozen"
  BY <1>2, <1>3 DEF KeptInv, FrozenInv
<1>7. /\ job'.turn = job.turn /\ job'.phase = "sent" /\ job'.kind = job.kind
      /\ job'.row = [job.row EXCEPT !.sent = TRUE]
  BY <1>1, <1>3 DEF IsJob
<1>8. job'.row.stage = job.row.stage
  BY <1>3, <1>7, StagesKept
<1>9. FrozenInv' /\ ClosingInv'
  BY <1>1, <1>3, <1>4, <1>5, <1>6, <1>7, TurnKeeps
<1>10. OwnInv'
  BY <1>1, <1>7, <1>8, OwnGoesOn
<1> QED
  BY <1>9, <1>10 DEF KeptInv

\* Such a draft is neither planned for nor taken up without being asked for.
LEMMA ClaimOwns ==
  ASSUME SInv, CodeInv, KeptInv, NEW t \in Present, Claim(t)
  PROVE  KeptInv'
<1>1. /\ TurnsInv /\ t \in Turns /\ IsRow(turns[t]) /\ Last \in Present
      /\ \A u \in Present : u <= Last
  BY LastTurn DEF SInv, TurnsInv, Present
<1>2. turns[t].stage # "frozen"
  <2> SUFFICES ASSUME turns[t].stage = "frozen" PROVE FALSE
    OBVIOUS
  <2>1. /\ turns[t].status = "failed" /\ ~turns[t].sent /\ turns[t].outcome = "none"
        /\ ~turns[t].disputed
    BY FrozenUnheard
  <2>2. Due(t)
    BY <2>1 DEF Claim, RetriesItself
  <2>3. t = Last /\ ~closed
    BY <2>2 DEF Due
  <2>4. known.status = "running"
    BY <1>1, <2>3 DEF KeptInv, FrozenInv, OwnBox
  <2>5. FrozenPreparation(t)
    BY <2>1 DEF FrozenPreparation, UnsentFailure
  <2> QED
    BY <2>1, <2>2, <2>4, <2>5 DEF Due, ClosedRepairDraft
<1> DEFINE queued == [turns[t] EXCEPT !.status = "running"]
           again == [turns[t] EXCEPT !.status = "running", !.work = "dispute", !.tries = @ + 1]
           replan == [turns[t] EXCEPT !.status = "running", !.work = "replan",
                                      !.back = turns[t].status]
           Claims(c) ==
             /\ turns' = [turns EXCEPT ![t] = c]
             /\ job' = [NoJob EXCEPT !.turn = t, !.kind = c.work, !.phase = "begun",
                                     !.row = c, !.inputs = Conditions]
           Keeps(c) == c.stage = turns[t].stage /\ c.status = "running"
<1>3. Claims(queued) \/ Claims(again) \/ Claims(replan)
  <2>1. CASE turns[t].status = "queued"
    BY <2>1 DEF Claim, RetriesItself
  <2>2. CASE turns[t].status # "queued" /\ RetriesItself(t)
    BY <2>2 DEF Claim
  <2>3. CASE turns[t].status # "queued" /\ ~RetriesItself(t)
    BY <2>3 DEF Claim
  <2> QED
    BY <2>1, <2>2, <2>3
<1>4. PICK r : Claims(r) /\ Keeps(r)
  <2>1. Keeps(queued)
    BY <1>1, StagesKept DEF IsRow
  <2>2. Keeps(again)
    BY <1>1, StagesKept DEF IsRow
  <2>3. Keeps(replan)
    BY <1>1, StagesKept DEF IsRow
  <2> HIDE DEF Claims, Keeps, queued, again, replan
  <2> QED
    BY <1>3, <2>1, <2>2, <2>3
<1>5. /\ closed' = closed /\ container' = container /\ known' = known /\ kept' = kept
      /\ closing' = FALSE
  BY DEF Claim, disk
<1>6. FrozenInv'
  BY <1>1, <1>2, <1>4, <1>5, TurnKeeps
<1>7. job'.row = r /\ job'.phase = "begun"
  BY <1>4 DEF NoJob
<1>8. ClosingInv'
  BY <1>5 DEF ClosingInv
<1>9. OwnInv'
  BY <1>2, <1>4, <1>7 DEF OwnInv
<1> QED
  BY <1>6, <1>8, <1>9 DEF KeptInv

\* The person's steps: a retry prepares such a draft again, where it is.
LEMMA RetryOwns ==
  ASSUME SInv, CodeInv, KeptInv, Retry \/ RetryPlan
  PROVE  KeptInv'
<1>1. /\ ~Pending /\ job' = job /\ closed' = closed /\ ~closed /\ closing' = closing
      /\ container' = container /\ known' = known /\ kept' = kept
  BY DEF Retry, RetryPlan, disk
<1>2. PICK t, q : t = Last /\ q = turns[t]
  OBVIOUS
<1>3. t \in Present /\ IsRow(q) /\ (\A u \in Present : u <= t) /\ job.turn = 0 /\ TurnsInv
  BY <1>1, <1>2, IdleLast DEF SInv
<1>4. OwnInv'
  BY <1>1, <1>3 DEF OwnInv
<1>5. PICK r : /\ turns' = [turns EXCEPT ![t] = r] /\ r.status = "queued"
               /\ r.stage # "frozen"
  <2>1. CASE Retry
    <3> DEFINE prepares == FrozenPreparation(t) /\ ~ClosedRepairDraft(t, known)
               anew == \/ ClosedRepairDraft(t, known)
                       \/ q.recovery.state = "blocked" /\ ~q.disputed /\ ~prepares
    <3>1. PICK w, b : turns' = [turns EXCEPT ![t] =
                                  Requeued(q, w, IF anew THEN q.stage ELSE "draft", b)]
      BY <1>2, <2>1 DEF Retry, Requeued
    <3>2. q.stage = "frozen" => ~anew
      <4> SUFFICES ASSUME q.stage = "frozen" PROVE ~anew
        OBVIOUS
      <4>1. q.status = "failed" /\ ~q.sent /\ known.status = "running"
        BY <1>1, <1>2, <1>3 DEF KeptInv, FrozenInv, OwnBox
      <4> QED
        BY <1>2, <4>1 DEF FrozenPreparation, UnsentFailure, ClosedRepairDraft
    <3>3. PICK l : l = IF anew THEN q.stage ELSE "draft"
      OBVIOUS
    <3>4. Requeued(q, w, l, b).stage = l /\ Requeued(q, w, l, b).status = "queued"
      BY <1>3 DEF Requeued, IsRow
    <3>5. l # "frozen"
      BY <3>2, <3>3
    <3> QED
      BY <3>1, <3>3, <3>4, <3>5
  <2>2. CASE RetryPlan
    <3>1. turns' = [turns EXCEPT ![t] = PlannedAgain(q)] /\ q.status = "review"
      BY <1>2, <2>2 DEF RetryPlan, PlannedAgain
    <3>2. PlannedAgain(q).stage = q.stage /\ PlannedAgain(q).status = "queued"
      BY <1>3 DEF PlannedAgain, IsRow
    <3>3. q.stage # "frozen"
      BY <1>2, <1>3, <3>1 DEF KeptInv, FrozenInv
    <3> QED
      BY <3>1, <3>2, <3>3
  <2> QED
    BY <2>1, <2>2
<1>6. FrozenInv' /\ ClosingInv'
  BY <1>1, <1>3, <1>5, TurnKeeps
<1> QED
  BY <1>4, <1>6 DEF KeptInv

LEMMA EnqueueOwns ==
  ASSUME SInv, CodeInv, KeptInv, (\E c \in Categories : EnqueueQuestion(c)) \/ EnqueueRepair
  PROVE  KeptInv'
<1>1. /\ ~Pending /\ job' = job /\ closed' = closed /\ closing' = closing
      /\ container' = container /\ known' = known /\ kept' = kept
      /\ \/ \E c \in Categories : turns' = [turns EXCEPT ![Last + 1] = NewQuestion(Last + 1, c, 0)]
         \/ turns' = [turns EXCEPT ![Last + 1] = NewRepair(Last, First)]
  BY DEF EnqueueQuestion, EnqueueRepair, disk
<1>2. job.turn = 0 /\ TurnsInv /\ Last + 1 \notin Present
  BY <1>1, IdleLast DEF SInv
<1>3. PICK n, q : /\ n = Last + 1 /\ turns' = [turns EXCEPT ![n] = q]
                  /\ q.stage = "draft" /\ q.status = "queued"
  <2>1. PICK n : n = Last + 1
    OBVIOUS
  <2>2. PICK q : /\ turns' = [turns EXCEPT ![n] = q]
                 /\ (\E t, c : q = NewQuestion(t, c, 0)) \/ \E t, c : q = NewRepair(t, c)
    BY <1>1, <2>1
  <2>3. q.stage = "draft" /\ q.status = "queued"
    <3>1. \A t, c : NewQuestion(t, c, 0).stage = "draft" /\ NewQuestion(t, c, 0).status = "queued"
      BY DEF NewQuestion, Absent
    <3>2. \A t, c : NewRepair(t, c).stage = "draft" /\ NewRepair(t, c).status = "queued"
      BY DEF NewRepair, Absent
    <3> QED
      BY <2>2, <3>1, <3>2
  <2> QED
    BY <2>1, <2>2, <2>3
<1>4. /\ \A u \in Turns \ {n} : turns'[u] = turns[u]
      /\ n \in Turns => turns'[n] = q
  BY <1>2, <1>3 DEF TurnsInv
<1>5. Present \subseteq Present'
  BY <1>2, <1>3, <1>4 DEF Present
<1>6. \A u \in Present' : turns'[u].stage = "frozen" =>
        /\ u \in Present /\ turns[u].stage = "frozen" /\ turns'[u].root = turns[u].root
        /\ turns'[u].status = "failed" /\ ~turns'[u].sent
  BY <1>3, <1>4 DEF KeptInv, FrozenInv, Present
<1>7. FrozenInv' /\ ClosingInv'
  BY <1>1, <1>5, <1>6, FrozenStays
<1> QED
  BY <1>1, <1>2, <1>7 DEF KeptInv, OwnInv

LEMMA ExcludeOwns ==
  ASSUME SInv, CodeInv, KeptInv, NEW t \in Present, Exclude(t)
  PROVE  KeptInv'
<1>1. /\ job' = job /\ closed' = closed /\ closing' = closing
      /\ container' = container /\ known' = known /\ kept' = kept
      /\ turns' = [turns EXCEPT ![t].excluded = TRUE]
  BY DEF Exclude, disk
<1>2. PICK q, r : q = turns[t] /\ r = [q EXCEPT !.excluded = TRUE]
  OBVIOUS
<1>3. TurnsInv /\ t \in Turns /\ IsRow(q) /\ q.status # "absent"
  BY <1>2 DEF SInv, TurnsInv, Present
<1>4. turns' = [turns EXCEPT ![t] = r]
  BY <1>1, <1>2
<1>5. r.stage = q.stage /\ r.status = q.status /\ r.sent = q.sent /\ r.root = q.root
  BY <1>2, <1>3 DEF IsRow
<1>6. /\ r.status # "absent"
      /\ r.stage = "frozen" => /\ turns[t].stage = "frozen" /\ r.root = turns[t].root
                               /\ r.status = "failed" /\ ~r.sent
  BY <1>2, <1>3, <1>5 DEF KeptInv, FrozenInv
<1> job.turn = 0 => job'.turn = 0
  BY <1>1
<1>7. FrozenInv' /\ ClosingInv'
  BY <1>1, <1>3, <1>4, <1>6, TurnKeeps
<1>8. job.turn # 0 => turns'[job.turn].root = turns[job.turn].root
  BY <1>2, <1>3, <1>4, <1>5 DEF SInv, JobInv, TurnsInv, Present
<1>9. OwnInv'
  BY <1>1, <1>8 DEF KeptInv, OwnInv, OwnBox
<1> QED
  BY <1>7, <1>9 DEF KeptInv

\* A finalization neither begins for such a draft nor, once begun, finds one.
LEMMA ClosingOwns ==
  ASSUME SInv, CodeInv, KeptInv, StartClosing \/ EndClosing
  PROVE  KeptInv'
<1>1. /\ turns' = turns /\ closed' = closed /\ job' = job /\ kept' = kept /\ job.turn = 0
      /\ Present' = Present
  BY DEF StartClosing, EndClosing, store, JobFree, KeptInv, ClosingInv, Present
<1>2. OwnInv'
  BY <1>1 DEF OwnInv
<1>3. \A t \in Present' : turns'[t].stage = "frozen" =>
        /\ t \in Present /\ turns[t].stage = "frozen" /\ turns'[t].root = turns[t].root
        /\ turns'[t].status = "failed" /\ ~turns'[t].sent
  BY <1>1 DEF KeptInv, FrozenInv
<1>4. CASE EndClosing
  <2>1. closing /\ closing' = FALSE
    BY <1>4 DEF EndClosing
  <2>2. ~\E t \in Present : /\ turns[t].stage = "frozen" /\ (\A u \in Present : u <= t)
                            /\ ~closed
    BY <2>1 DEF KeptInv, ClosingInv
  <2>3. FrozenInv'
    BY <1>1, <1>3, <2>2, FrozenStays
  <2> QED
    BY <1>2, <2>1, <2>3 DEF KeptInv, ClosingInv
<1>5. CASE StartClosing
  <2>1. container' = container /\ known' = known /\ SessionOver
    BY <1>5 DEF StartClosing
  <2>2. FrozenInv'
    BY <1>1, <1>3, <2>1, FrozenStays
  <2>3. ASSUME NEW t \in Present, turns[t].stage = "frozen", \A u \in Present : u <= t, ~closed
        PROVE  FALSE
    <3>1. /\ turns[t].status = "failed" /\ ~turns[t].sent /\ turns[t].outcome = "none"
          /\ container.root = turns[t].root
      BY <2>3, FrozenUnheard DEF KeptInv, FrozenInv, OwnBox
    <3>2. PICK session : session = {u \in Present : turns[u].root = container.root}
      OBVIOUS
    <3>3. t \in session /\ (\A u \in session : u <= t) /\ session \subseteq Nat
      BY <2>3, <3>1, <3>2, Numbers DEF SInv
    <3>4. PICK last : last = CHOOSE v \in session : \A u \in session : u <= v
      OBVIOUS
    <3>5. last \in session /\ \A u \in session : u <= last
      BY <3>3, <3>4
    <3>6. t \in Nat /\ last \in Nat /\ t <= last /\ last <= t
      BY <3>3, <3>5
    <3>7. last = t
      BY <3>6
    <3>8. \/ UnsentFailure(last) /\ ~FrozenPreparation(last)
          \/ turns[last].status = "failed" /\ turns[last].outcome = "error"
          \/ turns[last].status = "review"
      BY <2>1, <2>3, <3>2, <3>4 DEF SessionOver
    <3> QED
      BY <2>3, <3>1, <3>7, <3>8 DEF FrozenPreparation
  <2> QED
    BY <1>1, <1>2, <2>2, <2>3 DEF KeptInv, ClosingInv
<1> QED
  BY <1>4, <1>5

\* The store takes a refused draft as it was refused, with its container.
LEMMA FinishOwns ==
  ASSUME SInv, CodeInv, KeptInv, CodeInv',
         FinishReplan \/ \E c \in Categories : FinishTurn(c)
  PROVE  KeptInv'
<1>1. /\ job' = NoJob /\ container' = container /\ known' = known /\ kept' = kept
      /\ closing' = closing /\ job.phase = "done" /\ job.turn # 0 /\ OverNow
  <2>1. CASE FinishReplan
    BY <2>1, FinishReplanKeeps DEF FinishReplan, Runs, disk, SInv, JobInv
  <2>2. ASSUME NEW c \in Categories, FinishTurn(c)
        PROVE  /\ job' = NoJob /\ container' = container /\ known' = known /\ kept' = kept
               /\ closing' = closing /\ job.phase = "done" /\ job.turn # 0
    BY <2>2 DEF FinishTurn, disk, SInv, JobInv
  <2>3. ASSUME NEW c \in Categories, FinishTurn(c) PROVE OverNow
    BY <2>3, FinishTurnKeeps
  <2> QED
    BY <2>1, <2>2, <2>3
<1>2. PICK t : t = job.turn
  OBVIOUS
<1>3. /\ t \in Present /\ (\A u \in Present : u <= t) /\ t + 1 \notin Present
      /\ turns[t].status = "running" /\ WorkInv /\ PhaseInv /\ SnapshotsInv
      /\ Present \subseteq Nat
  BY <1>1, <1>2, JobKnows, Numbers DEF CodeInv, SInv
<1>4. /\ Present \subseteq Present' /\ Over(turns'[t])
      /\ \A u \in Present' \ {t} : \/ u \in Present /\ turns'[u] = turns[u]
                                   \/ u \notin Present /\ turns'[u].stage = "draft"
  BY <1>1, <1>2 DEF OverNow
<1>5. ASSUME turns'[t].stage = "frozen"
      PROVE  /\ turns'[t].status = "failed" /\ ~turns'[t].sent
             /\ kept'.replan[t] = Empty /\ OwnBox(t)'
  <2>1. turns[t].stage # "frozen"
    BY <1>3 DEF KeptInv, FrozenInv
  <2>2. job.kind = "run" /\ ~job.row.sent /\ OwnBox(t)
    BY <1>1, <1>2, <1>4, <1>5, <2>1 DEF Over, KeptInv, OwnInv
  <2>3. ~turns'[t].sent
    BY <1>1, <1>2, <1>3, <1>4, <2>2 DEF Over, WorkInv
  <2>4. turns'[t].status = "failed"
    <3>1. turns'[t].status \in {"review", "failed"} /\ t \in Turns
      BY <1>3, <1>4, <1>2 DEF Over, Present
    <3>2. Grounded(turns'[t])
      BY <3>1 DEF CodeInv, OrderInv
    <3> QED
      BY <2>3, <3>1, <3>2 DEF Grounded
  <2>5. kept.replan[t] = Empty
    BY <1>2, <1>3, <2>2 DEF SnapshotsInv, ToReplan, PhaseInv, Active
  <2>6. turns'[t].root = turns[t].root
    BY <1>2, <1>4 DEF Over, SameTurn
  <2> QED
    BY <1>1, <2>2, <2>3, <2>4, <2>5, <2>6 DEF OwnBox
<1>6. ASSUME NEW u \in Present', turns'[u].stage = "frozen", u # t
      PROVE  /\ turns'[u].status = "failed" /\ ~turns'[u].sent
             /\ ~\A v \in Present' : v <= u
  <2>1. u \in Present /\ turns'[u] = turns[u]
    BY <1>4, <1>6
  <2>2. u \in Nat /\ t \in Nat /\ u <= t
    BY <1>3, <2>1
  <2>3. ~(t <= u)
    BY <1>6, <2>2
  <2> QED
    BY <1>3, <1>4, <1>6, <2>1, <2>3 DEF KeptInv, FrozenInv
<1>7. FrozenInv'
  BY <1>5, <1>6 DEF FrozenInv
<1>8. ClosingInv'
  BY <1>1 DEF KeptInv, ClosingInv
<1>9. OwnInv'
  BY <1>1 DEF OwnInv, NoJob
<1> QED
  BY <1>7, <1>8, <1>9 DEF KeptInv

LEMMA CrashOwns ==
  ASSUME SInv, KeptInv, NEW late \in BOOLEAN, Crash(late)
  PROVE  KeptInv'
<1> DEFINE t == job.turn
           s == IF turns[t].outcome = "complete" THEN "queued" ELSE "failed"
           l == IF late \/ (turns[t].stage = "late" /\ job.kind = "replan")
                THEN "late" ELSE "draft"
           r == [turns[t] EXCEPT !.status = s, !.stage = l]
<1>1. /\ TurnsInv /\ t \in Present /\ t \in Turns /\ IsRow(turns[t]) /\ job.turn # 0
      /\ job' = NoJob /\ closed' = closed /\ closing' = closing
      /\ container' = container /\ known' = known /\ kept' = kept
  BY DEF SInv, JobInv, TurnsInv, Crash, JobFree, Present, disk
<1>2. turns' = [turns EXCEPT ![t] = r]
  <2>1. turns' = [turns EXCEPT
                         ![t].status = s,
                         ![t].stage = IF late \/ (@ = "late" /\ job.kind = "replan")
                                      THEN "late" ELSE "draft"]
    BY DEF Crash
  <2> QED
    BY <1>1, <2>1 DEF TurnsInv, IsRow
<1>3. r.status = s /\ r.stage = l
  BY <1>1 DEF IsRow
<1>4. s # "absent" /\ l # "frozen"
  OBVIOUS
<1>5. PICK k, x : k = t /\ x = r
  OBVIOUS
<1>6. /\ k \in Present /\ turns' = [turns EXCEPT ![k] = x]
      /\ x.status # "absent" /\ x.stage # "frozen"
  BY <1>1, <1>2, <1>3, <1>4, <1>5
<1> HIDE DEF t, s, l, r
<1>7. FrozenInv' /\ ClosingInv'
  BY <1>1, <1>6, TurnKeeps
<1>8. OwnInv'
  BY <1>1 DEF OwnInv, NoJob
<1> QED
  BY <1>7, <1>8 DEF KeptInv

LEMMA FirstKept == SeriesInit => KeptInv
<1> SUFFICES ASSUME SeriesInit PROVE KeptInv
  OBVIOUS
<1>1. NewQuestion(1, First, 0).stage = "draft" /\ Absent.stage = "draft"
  BY DEF NewQuestion, Absent
<1>2. PICK q, a : q = NewQuestion(1, First, 0) /\ a = Absent
  OBVIOUS
<1>3. turns = [t \in Turns |-> IF t = 1 THEN q ELSE a] /\ closing = FALSE /\ job = NoJob
  BY <1>2 DEF SeriesInit
<1>4. \A t \in Turns : turns[t].stage = "draft"
  BY <1>1, <1>2, <1>3
<1>5. FrozenInv
  BY <1>4 DEF FrozenInv, Present
<1> QED
  BY <1>3, <1>5 DEF KeptInv, ClosingInv, OwnInv, NoJob

LEMMA KeptStep ==
  ASSUME SInv, CodeInv, KeptInv, CodeInv', [SeriesNext]_seriesVars
  PROVE  KeptInv'
<1>1. CASE JobStep
  BY <1>1, ClaimOwns, DraftOwns, JobOwns, SendOwns, FinishOwns DEF JobStep
<1>2. CASE Person
  <2>1. CASE SwitchAuto
    <3>1. /\ turns' = turns /\ closed' = closed /\ container' = container /\ known' = known
          /\ kept' = kept /\ job' = job /\ closing' = closing
      BY <2>1 DEF SwitchAuto, disk
    <3> QED
      BY <3>1 DEF KeptInv, FrozenInv, ClosingInv, OwnInv, OwnBox, Present
  <2> QED
    BY <1>2, <2>1, RetryOwns, EnqueueOwns, ExcludeOwns DEF Person
<1>3. CASE StartClosing \/ EndClosing
  BY <1>3, ClosingOwns
<1>4. CASE \E late \in BOOLEAN : Crash(late)
  BY <1>4, CrashOwns
<1>5. CASE UNCHANGED seriesVars
  <2>1. /\ turns' = turns /\ closed' = closed /\ container' = container /\ known' = known
        /\ kept' = kept /\ job' = job /\ closing' = closing
    BY <1>5 DEF seriesVars
  <2> QED
    BY <2>1 DEF KeptInv, FrozenInv, ClosingInv, OwnInv, OwnBox, Present
<1> QED
  BY <1>1, <1>2, <1>3, <1>4, <1>5 DEF SeriesNext

\* The code that the project's copies and its workspace hold is what they are
\* for, and a draft that is to be prepared again has its container, in every
\* state that can be reached.
THEOREM CodeInductive == SeriesSpec => [](SInv /\ CodeInv /\ KeptInv)
<1>1. SeriesInit => SInv /\ CodeInv /\ KeptInv
  BY FirstTurn, FirstCode, FirstKept
<1>2. SInv /\ CodeInv /\ KeptInv /\ [SeriesNext]_seriesVars => (SInv /\ CodeInv /\ KeptInv)'
  BY SeriesStep, CodeStep, KeptStep
<1> QED
  BY <1>1, <1>2, PTL DEF SeriesSpec

\* A question is sent over whole code that holds all that counts, and nothing of
\* a session that asked for a permission.
THEOREM StartsSound == SeriesSpec => StartsFromSoundWork
<1> DEFINE Sound(t) ==
             LET counts(u) == /\ ~turns[u].excluded /\ SessionPermitted(u)
                              /\ Archived(u) \/ (DisputedReady(u)
                                                 /\ \A v \in (u + 1) .. t : turns[v].planned = 0)
                 cutOff == \/ PriorQuestion(t) = {} \/ ~Independent(turns[t])
                           \/ ~Whole(container.from) IN
             ~turns[t].sent /\ turns'[t].sent =>
               /\ Whole(container.code) \/ cutOff
               /\ \A u \in Present : u < t /\ counts(u) => u \in container.code
               /\ \A u \in container.code \ {0} : SessionPermitted(u)
           Starts == \A t \in Present : Sound(t)
<1>1. SInv /\ CodeInv /\ KeptInv /\ [SeriesNext]_seriesVars => [Starts]_seriesVars
  <2> SUFFICES ASSUME SInv, CodeInv, KeptInv, [SeriesNext]_seriesVars, NEW t \in Present,
                      ~turns[t].sent, turns'[t].sent
               PROVE  Sound(t)
    OBVIOUS
  <2>1. Send
    BY CodeStep DEF NoneSent
  <2>2. /\ \/ Whole(container.code) \/ ~Whole(container.from)
           \/ PriorQuestion(t) = {} \/ ~Independent(turns[t])
        /\ Holds(container.code, t)
        /\ \A u \in container.code \ {0} : SessionPermitted(u)
    BY <2>1, SendServes
  <2> QED
    BY <2>2 DEF Holds, Counts, Archived
<1> HIDE DEF Starts
<1>2. SeriesSpec => [][Starts]_seriesVars
  BY <1>1, CodeInductive, PTL DEF SeriesSpec
<1> QED
  BY <1>2 DEF StartsFromSoundWork, Starts

\* A draft that only its new wording failed keeps its running container while it
\* is the last turn of an open project, so that it can be prepared again there
\* (session-finalization.mjs:35, project-recovery-server.mjs:44-48).
THEOREM FrozenDraftsKept == SeriesSpec => []KeptDraftHasContainer
<1>1. SInv /\ CodeInv /\ KeptInv => KeptDraftHasContainer
  <2> SUFFICES ASSUME SInv, KeptInv, NEW t \in Present, t = Last, turns[t].stage = "frozen",
                      ~closed
               PROVE  container.root = turns[t].root /\ container.status = "running"
    BY DEF KeptDraftHasContainer
  <2>1. \A u \in Present : u <= t
    BY LastTurn DEF SInv
  <2> QED
    BY <2>1 DEF KeptInv, FrozenInv, OwnBox
<1> QED
  BY <1>1, CodeInductive, PTL

===============================================================================
