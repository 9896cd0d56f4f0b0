------------------------------ MODULE SoloUpload ------------------------------
(***************************************************************************)
(* The upload of finished records to the quality platform through a        *)
(* browser.  Commands prepare packets, fix the members of a batch, mark a  *)
(* record before the one click that submits it and keep the receipts; the  *)
(* browser, its login and whoever drives it are outside and may stop at    *)
(* any step.  Code: scripts/solo-schedule.mjs, solo-ui-queue.mjs,          *)
(* solo-upload-holds.mjs, solo-record-sequence.mjs, solo-lock.mjs,         *)
(* lib/upload-batches.mjs.  The uploader's own steps follow                *)
(* docs/solo-upload.md and are external.                                   *)
(***************************************************************************)
EXTENDS Naturals, Sequences, FiniteSets, FiniteSetsExt

CONSTANTS
  Records,        \* the records, each one round of a session
  SessionOf,      \* the session of a record
  RoundOf,        \* its round
  None,
  Windows,        \* the times at which a batch may be started
  Nights,         \* the times at which uploads pause
  Horizon,        \* bound: the last time
  MaxVersion,     \* bound: how often a record's content is delivered
  MaxHolds,       \* bound: how many records the user forbids
  MaxRevision     \* bound: claims, renewals and ends of each batch

Times == 1..Horizon

ASSUME SoloAssumption ==
  /\ SessionOf \in [Records -> STRING] /\ RoundOf \in [Records -> Nat \ {0}]
  /\ None \notin Records \cup Times /\ MaxRevision \in [Windows -> Nat]
  /\ Windows \subseteq Times /\ Nights \subseteq Times /\ Windows \cap Nights = {}
  /\ {Horizon, MaxVersion} \subseteq Nat \ {0} /\ MaxHolds \in Nat

VARIABLES
  clock,          \* hours apart: a login observed earlier is stale, a lease has run out
  loggedIn,       \* a login has been observed at this time
  locked,         \* journal.lock was left by a command that died
  rows,           \* the records as the workbench exports them
  holds,          \* records the user forbade
  packets,        \* packets/: the version of the record each packet holds, 0 without one
  ledger,         \* ui-state.json
  runs,           \* schedule.json: the batch of each window
  requests,       \* wishes of the workbench to have a batch checked again
  uploader,       \* who drives the browser
  remote          \* the submissions the platform received, per record

vars == <<clock, loggedIn, locked, rows, holds, packets, ledger, runs, requests, uploader, remote>>

NoRun == [status |-> "none"]
\* recoveryRequestedAt: a wish to check the batch again was taken in.
\* "waiting" stands for a wait for the login, the window or the rest of the
\* batch, "stuck" for an end as blocked or failed.
Statuses == {"running", "completed", "waiting", "stuck"}
Idle == [phase |-> "idle", slot |-> None, plan |-> {}, open |-> None]

SoloTypeOK ==
  /\ clock \in Times /\ loggedIn \in BOOLEAN /\ locked \in BOOLEAN
  /\ rows \in [Records -> [version : 1..MaxVersion, eligible : BOOLEAN]]
  /\ holds \subseteq Records
  /\ packets \in [Records -> 0..MaxVersion]
  /\ ledger \in [Records -> [state : {"none", "prepared", "submitting", "submitted"},
                             version : 0..MaxVersion, discarded : BOOLEAN]]
  /\ \A s \in Times : \/ runs[s] = NoRun
                      \/ /\ s \in Windows /\ runs[s].status \in Statuses
                         /\ DOMAIN runs[s].members \subseteq Records
                         /\ runs[s].revision \in 0..MaxRevision[s]
                         /\ runs[s].wish \in BOOLEAN
  /\ uploader.phase \in {"idle", "planned", "claimed", "replanned", "working"}
  /\ uploader.slot \in Windows \cup {None} /\ uploader.plan \subseteq Records
  /\ uploader.open \in Records \cup {None}
  /\ \A r \in Records : remote[r] \in Seq(1..MaxVersion)

Init ==
  /\ clock = 1 /\ loggedIn = FALSE /\ locked = FALSE
  /\ rows = [r \in Records |-> [version |-> 1, eligible |-> TRUE]]
  /\ holds = {}
  /\ packets = [r \in Records |-> 0]
  /\ ledger = [r \in Records |-> [state |-> "none", version |-> 0, discarded |-> FALSE]]
  /\ runs = [s \in Times |-> NoRun]
  /\ requests = {}
  /\ uploader = Idle
  /\ remote = [r \in Records |-> << >>]

(***************************************************************************)
(* Records and their sessions.                                             *)
(***************************************************************************)
Earlier(r) == {q \in Records : SessionOf[q] = SessionOf[r] /\ RoundOf[q] < RoundOf[r]}

\* A held record is no longer eligible in anything the commands read.
Eligible(r) == rows[r].eligible /\ r \notin holds

\* No round of the session up to this one is missing.
InSequence(r) == /\ Cardinality(Earlier(r)) = RoundOf[r] - 1
                 /\ \A q \in Earlier(r) : Eligible(q)

\* A record marked for sending may have been sent: its receipt is asked for, nothing else.
InDoubt(r) == ledger[r].state = "submitting"
Settled(r) == ledger[r].state = "submitted"

(***************************************************************************)
(* Batches.                                                                *)
(***************************************************************************)
Running == {s \in Times : runs[s].status = "running"}

\* A batch that waits, or that stopped and was wished to be checked again.
Pending == {s \in Times : \/ runs[s].status = "waiting"
                          \/ runs[s].status = "stuck" /\ runs[s].wish}

DueSlot == CASE Running # {} \/ clock \in Nights -> None
             [] OTHER -> IF Pending # {} THEN Min(Pending)
                         ELSE IF clock \in Windows /\ runs[clock] = NoRun THEN clock ELSE None

Expired(s) == runs[s].status = "running" /\ runs[s].leaseAt < clock
CanRequest(s) == runs[s].status \in {"waiting", "stuck"} \/ Expired(s)

Settle(s, status) == [runs EXCEPT ![s].status = status, ![s].revision = @ + 1, ![s].leaseAt = 0]

(***************************************************************************)
(* --prepare.                                                              *)
(***************************************************************************)
PreparableDespiteDoubt == {r \in Records : Eligible(r) /\ ~Settled(r) /\ InSequence(r)}
Preparable == {r \in Records : Eligible(r) /\ ~Settled(r) /\ ~InDoubt(r) /\ InSequence(r)}
Doubtful == {r \in Records : Eligible(r) /\ InDoubt(r)}

Packed(done) == [r \in Records |-> IF r \in done THEN rows[r].version ELSE packets[r]]

\* Before a new batch, and again for a batch that is resumed.
MayPrepare == /\ ~locked
              /\ \/ uploader.phase = "idle" /\ DueSlot # None /\ runs[DueSlot] = NoRun
                 \/ uploader.phase = "claimed"

\* The attachment of a record may be refused: those done are in the plan.
Prepare ==
  /\ MayPrepare
  /\ \E done \in SUBSET Preparable :
       /\ packets' = Packed(done)
       /\ ledger' = [r \in Records |-> IF r \in done
                       THEN [state |-> "prepared", version |-> rows[r].version, discarded |-> FALSE]
                       ELSE ledger[r]]
       /\ uploader' = [uploader EXCEPT !.plan = done \cup Doubtful,
                                       !.phase = IF @ = "idle" THEN "planned" ELSE "replanned"]
  /\ UNCHANGED <<clock, loggedIn, locked, rows, holds, runs, requests, remote>>

\* Packets are saved one by one, the ledger at the end.
PrepareCut ==
  /\ MayPrepare
  /\ \E done \in SUBSET Preparable : packets' = Packed(done)
  /\ locked' = TRUE /\ uploader' = Idle
  /\ UNCHANGED <<clock, loggedIn, rows, holds, ledger, runs, requests, remote>>

(***************************************************************************)
(* --claim, --batch-plan, --touch, --finish and --yield.                   *)
(***************************************************************************)
Claimed(run) == [run EXCEPT !.status = "running", !.revision = @ + 1, !.leaseAt = clock]

\* Its members stay, what it waits for becomes the login.
AwaitLogin(run) == [run EXCEPT !.status = "waiting",
                               !.revision = IF run.status = "waiting" THEN @ ELSE @ + 1]

NewRun(plan) == [status |-> "waiting", members |-> [r \in plan |-> packets[r]],
                 revision |-> 0, leaseAt |-> 0, wish |-> FALSE]

\* A due batch that exists keeps its members; a new one takes those of the plan.
Claim ==
  /\ ~locked /\ DueSlot # None
  /\ LET new == runs[DueSlot] = NoRun
         run == IF new THEN NewRun(uploader.plan) ELSE runs[DueSlot]
     IN /\ uploader.phase = IF new THEN "planned" ELSE "idle"
        /\ run.revision < MaxRevision[DueSlot]
        /\ \/ /\ DOMAIN run.members = {}
              /\ runs' = [runs EXCEPT ![DueSlot] = [run EXCEPT !.status = "completed"]]
              /\ uploader' = Idle
           \/ /\ DOMAIN run.members # {} /\ ~loggedIn
              /\ runs' = [runs EXCEPT ![DueSlot] = AwaitLogin(run)]
              /\ uploader' = Idle
           \/ /\ DOMAIN run.members # {} /\ loggedIn
              /\ runs' = [runs EXCEPT ![DueSlot] = Claimed(run)]
              /\ uploader' = [uploader EXCEPT !.slot = DueSlot,
                                              !.phase = IF new THEN "working" ELSE "claimed"]
  /\ UNCHANGED <<clock, loggedIn, locked, rows, holds, packets, ledger, requests, remote>>

\* The plan is stale when another batch became due meanwhile.
DropPlan ==
  /\ uploader.phase = "planned"
  /\ DueSlot \notin {s \in Windows : runs[s] = NoRun}
  /\ uploader' = Idle
  /\ UNCHANGED <<clock, loggedIn, locked, rows, holds, packets, ledger, runs, requests, remote>>

Owned(s) == s # None /\ runs[s].status = "running"

\* A member is sent only with the packet the batch was claimed with.
AsClaimed(s, r) == packets[r] = runs[s].members[r]

BatchPlan ==
  /\ ~locked /\ uploader.phase = "replanned" /\ Owned(uploader.slot)
  /\ LET s == uploader.slot IN
     uploader' = [uploader EXCEPT !.phase = "working",
                    !.plan = {r \in @ \cap DOMAIN runs[s].members :
                                /\ ~Settled(r) /\ ~InDoubt(r) /\ AsClaimed(s, r)}]
  /\ UNCHANGED <<clock, loggedIn, locked, rows, holds, packets, ledger, runs, requests, remote>>

Touch ==
  /\ ~locked /\ uploader.phase = "working" /\ Owned(uploader.slot)
  /\ runs[uploader.slot].leaseAt < clock
  /\ runs[uploader.slot].revision < MaxRevision[uploader.slot]
  /\ runs' = [runs EXCEPT ![uploader.slot].leaseAt = clock, ![uploader.slot].revision = @ + 1]
  /\ UNCHANGED <<clock, loggedIn, locked, rows, holds, packets, ledger, requests, uploader, remote>>

\* A wait for the login takes back even a fresh observation of it.
End(s, status) ==
  /\ ~locked /\ Owned(s) /\ runs[s].revision < MaxRevision[s]
  /\ runs' = Settle(s, status)
  /\ loggedIn' \in {loggedIn, loggedIn /\ status # "waiting"}
  /\ uploader' = Idle
  /\ UNCHANGED <<clock, locked, rows, holds, packets, ledger, requests, remote>>

Finish == \E status \in {"completed", "waiting", "stuck"} :
            /\ uploader.phase # "idle" /\ uploader.open = None
            /\ End(uploader.slot, status)

Yield == /\ uploader.phase # "idle" /\ uploader.open = None /\ uploader.slot # None
         /\ End(uploader.slot, IF \A r \in DOMAIN runs[uploader.slot].members : Settled(r)
                               THEN "completed" ELSE "waiting")

\* Whoever finds the uploader gone ends its attempt for it once the lease has run out.
Reconcile == \E s \in Running, status \in {"completed", "waiting", "stuck"} :
               /\ uploader.phase = "idle" /\ Expired(s)
               /\ End(s, status)

(***************************************************************************)
(* --mark-sending, the click, and --receipt.                               *)
(***************************************************************************)
Ready(r) == ledger[r].state \in {"prepared", "submitted"} /\ ledger[r].version = rows[r].version
\* An earlier round is at the platform, as it is now, and not discarded.
Confirmed(r) == /\ Settled(r) /\ ~ledger[r].discarded
                /\ ledger[r].version = rows[r].version

MarkSending(r) ==
  /\ ~locked /\ clock \notin Nights
  /\ uploader.phase = "working" /\ uploader.open = None /\ r \in uploader.plan
  /\ r \notin holds
  /\ ledger[r].state = "prepared"
  /\ packets[r] = ledger[r].version
  /\ Eligible(r) /\ rows[r].version = packets[r]
  /\ InSequence(r)
  /\ \A q \in Earlier(r) : Confirmed(q)
  /\ ledger' = [ledger EXCEPT ![r].state = "submitting"]
  /\ uploader' = [uploader EXCEPT !.open = r]
  /\ UNCHANGED <<clock, loggedIn, locked, rows, holds, packets, runs, requests, remote>>

\* The form was filled from the packet; the page may answer or not.
Click ==
  /\ uploader.open # None
  /\ remote' = [remote EXCEPT ![uploader.open] = Append(@, packets[uploader.open])]
  /\ uploader' = [uploader EXCEPT !.open = None]
  /\ UNCHANGED <<clock, loggedIn, locked, rows, holds, packets, ledger, runs, requests>>

\* The platform's page shows a submission and what became of it.
Receipt(r) ==
  /\ ~locked /\ uploader.open = None
  /\ remote[r] # << >> /\ ledger[r].state # "none"
  /\ \E discarded \in BOOLEAN :
       ledger' = [ledger EXCEPT ![r].state = "submitted", ![r].discarded = discarded]
  /\ UNCHANGED <<clock, loggedIn, locked, rows, holds, packets, runs, requests, uploader, remote>>

(***************************************************************************)
(* The user and the workbench.                                             *)
(***************************************************************************)
MayHold(r) == ~InDoubt(r)

Hold(r) ==
  /\ ~locked /\ r \notin holds /\ MayHold(r)
  /\ Cardinality(holds) < MaxHolds
  /\ holds' = holds \cup {r}
  /\ UNCHANGED <<clock, loggedIn, locked, rows, packets, ledger, runs, requests, uploader, remote>>

\* Bound: one wish per batch, one at a time.
Request(s) ==
  /\ CanRequest(s)
  /\ requests = {} /\ ~runs[s].wish
  /\ requests' = {<<s, runs[s].revision>>}
  /\ UNCHANGED <<clock, loggedIn, locked, rows, holds, packets, ledger, runs, uploader, remote>>

\* --due takes the wishes in; one whose removal fails is read again.
ApplyRequest ==
  /\ ~locked
  /\ \E q \in requests :
       /\ runs' = IF runs[q[1]].revision = q[2] /\ CanRequest(q[1])
                    THEN [runs EXCEPT ![q[1]].wish = TRUE] ELSE runs
       /\ requests' \in {requests, requests \ {q}}
  /\ UNCHANGED <<clock, loggedIn, locked, rows, holds, packets, ledger, uploader, remote>>

(***************************************************************************)
(* The surroundings.                                                       *)
(***************************************************************************)
LogIn ==
  /\ ~loggedIn /\ loggedIn' = TRUE
  /\ UNCHANGED <<clock, locked, rows, holds, packets, ledger, runs, requests, uploader, remote>>

\* Bound: only one record is delivered more than once.
Redeliver(r) ==
  /\ rows[r].version < MaxVersion /\ \A q \in Records \ {r} : rows[q].version = 1
  /\ \E eligible \in BOOLEAN :
       rows' = [rows EXCEPT ![r] = [version |-> @.version + 1, eligible |-> eligible]]
  /\ UNCHANGED <<clock, loggedIn, locked, holds, packets, ledger, runs, requests, uploader, remote>>

\* The uploader is gone.
Die ==
  /\ uploader.phase # "idle"
  /\ uploader' = Idle
  /\ UNCHANGED <<clock, loggedIn, locked, rows, holds, packets, ledger, runs, requests, remote>>

\* A lock whose process is gone is removed by hand.
RemoveLock ==
  /\ locked /\ locked' = FALSE
  /\ UNCHANGED <<clock, loggedIn, rows, holds, packets, ledger, runs, requests, uploader, remote>>

Tick ==
  /\ clock < Horizon /\ clock' = clock + 1
  /\ loggedIn' = FALSE
  /\ UNCHANGED <<locked, rows, holds, packets, ledger, runs, requests, uploader, remote>>

Next ==
  \/ Prepare \/ PrepareCut \/ Claim \/ DropPlan \/ BatchPlan \/ Touch \/ Finish \/ Yield \/ Reconcile
  \/ \E r \in Records : MarkSending(r) \/ Receipt(r) \/ Hold(r) \/ Redeliver(r)
  \/ Click
  \/ \E s \in Times : Request(s)
  \/ ApplyRequest \/ LogIn \/ Die \/ RemoveLock \/ Tick

Spec == Init /\ [][Next]_vars

(***************************************************************************)
(* Properties.                                                             *)
(***************************************************************************)
\* Whatever dies between the mark, the click and the receipt, and however
\* often a batch is resumed and prepared again, no record is submitted twice.
SubmittedOnce == \A r \in Records : Len(remote[r]) <= 1

\* When a record is submitted, the user has not forbidden it, although a hold may
\* meet a planned batch, a saved packet or a form about to be filled; and every
\* earlier round of its session is at the platform in the version its receipt
\* stands for, and was not discarded.
SubmittedAsAllowed ==
  [][\A r \in Records : remote'[r] # remote[r] =>
       /\ r \notin holds
       /\ \A q \in Earlier(r) : /\ Settled(q) /\ ~ledger[q].discarded
                               /\ remote[q] = <<ledger[q].version>>]_vars

===============================================================================
