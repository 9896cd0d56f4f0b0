--------------------------- MODULE FinalSubmission ---------------------------
(***************************************************************************)
(* From a scored round to the package its record can be exported with:    *)
(*                                                                         *)
(*   evaluate -> evidence archive -> result receipt -> finish             *)
(*   session closed -> final export -> container removed -> receipt       *)
(*   queue file -> package built, sealed, sent -> record -> export batch   *)
(*                                                                         *)
(* One question with its rounds in one container.  Four parties touch it: *)
(* the job that evaluates a round (or plans after it), the finalization    *)
(* queue that closes the session, the flush of the final-submission queue, *)
(* and the store with the person at it.  The first three live in the same  *)
(* process: only an await lets another one in, so the build of a package   *)
(* (flush.phase "bound" and "copied") excludes every other runner action,  *)
(* though not the store, nor damage to the files.  A crash loses the       *)
(* process; queue files, receipts and markers stay.                        *)
(***************************************************************************)
EXTENDS Naturals, FiniteSets

CONSTANTS Rounds,       \* how many rounds the question may have
          Opaque,       \* the archives <<round, no>> the scanner cannot clear
          MaxRequeues,  \* bound: rounds queued again, the last one only for a plan that was blocked
          MaxMishaps,   \* bound: deaths of the runner, close attempts that fail,
                        \* answers lost, evidence damaged
          MaxDownloads  \* bound: downloads of the batch

ASSUME SubmissionAssumption ==
  /\ Rounds \in Nat \ {0}
  /\ MaxRequeues \in Nat /\ MaxMishaps \in Nat /\ MaxDownloads \in Nat

VARIABLES
  row,        \* the store's rounds
  result,     \* <turn>.result.json: the archive it names, and whether it is a plan's
  original,   \* <turn>.pre-replan-result.json: the archive of the result it kept
  job,        \* the runner's job on this question
  moved,      \* the project's next question: none yet, queued, running, over
  session,    \* how far the container has been closed
  transport,  \* who the final commands went through
  closing,    \* who is closing it
  completed,  \* FinalizationQueue.completed: nothing left to close (memory)
  held,       \* FinalizationQueue.failures: the last failed close
  items,      \* queue files of final-submissions/
  finished,   \* those with a .done marker
  request,    \* <turn>.final-submission.json
  delivered,  \* the rounds whose .delivered marker matches it
  flush,      \* the running flush
  wire,       \* requests the store has yet to handle
  spoiled,    \* what has been damaged on disk
  batch,      \* the export batch
  left        \* what is left of MaxRequeues and MaxMishaps

submissionVars == <<row, result, original, job, moved, session, transport, closing,
                    completed, held, items, finished, request, delivered, flush,
                    wire, spoiled, batch, left>>

store   == <<row, moved, batch>>
receipts == <<result, original, job>>
closer  == <<session, transport, closing, completed, held>>
sender  == <<items, finished, request, delivered, flush, wire>>

Turns == 1 .. Rounds
Unset == "none"
Queue == <<0, 0>>       \* queueFinalSubmission's item

NoPackage  == [source |-> 0, status |-> Unset]
Awaiting(a) == [source |-> a, status |-> "awaiting_finalization"]
NoJob      == [turn |-> 0, phase |-> Unset, ok |-> FALSE]
NoFlush(tried) == [item |-> <<>>, at |-> 0, phase |-> Unset, good |-> FALSE,
                   tried |-> tried]
NotHeld    == [at |-> Unset, attempts |-> 0, waits |-> FALSE]

NewRow(status) == [status |-> status, task |-> "evaluate", back |-> Unset,
                   archive |-> 0, package |-> NoPackage, next |-> Unset,
                   blocked |-> FALSE]

Begun == {t \in Turns : row[t].status # Unset}
Last  == CHOOSE t \in Begun : \A u \in Begun : u <= t
Busy  == {t \in Turns : row[t].status \in {"queued", "running"}}
Removed == session \in {"removed", "written", "confirmed"}

SubmissionInit ==
  /\ row = [t \in Turns |-> NewRow(IF t = 1 THEN "queued" ELSE Unset)]
  /\ result = [t \in Turns |-> [saved |-> FALSE, archive |-> 0, plan |-> FALSE]]
  /\ original = [t \in Turns |-> [kept |-> FALSE, archive |-> 0]]
  /\ job = NoJob
  /\ moved = "no"
  /\ session = "open"
  /\ transport \in {"original-mac-terminal", "legacy-runner-migration"}
  /\ closing = Unset
  /\ completed = FALSE
  /\ held = NotHeld
  /\ items = {}
  /\ finished = {}
  /\ request = [t \in Turns |-> [source |-> 0, status |-> Unset, good |-> TRUE]]
  /\ delivered = {}
  /\ flush = NoFlush({})
  /\ wire = {}
  /\ spoiled = {}
  /\ batch = [rows |-> {}, downloads |-> 0]
  /\ left = [requeues |-> MaxRequeues, mishaps |-> MaxMishaps]

\* Nothing else runs in the runner while a package is being built.
RunnerFree == flush.phase \notin {"bound", "copied"}

------------------------------------------------------------------------------
\* The store: rounds queued again.

\* A person has the last round's evaluation, plan or next question tried again;
\* a round of an earlier question can only be evaluated again.
Requeue(t, task) ==
  /\ left.requeues > IF row[t].blocked THEN 0 ELSE 1
  /\ t \in Begun /\ Busy = {} /\ moved # "running"
  /\ \/ task = "validate" /\ row[t].status = "failed"
     \/ task = "plan" /\ moved = "no" /\ t = Last
        /\ row[t].status = "review" /\ row[t].next = "error"
     \/ task = "replan" /\ moved = "no" /\ t = Last
        /\ row[t].status \in {"review", "failed"}
        /\ row[t].status = "review" => row[t].next = "ends"
  /\ row' = [row EXCEPT ![t].status = "queued", ![t].task = task,
                        ![t].back = row[t].status]
  /\ left' = [left EXCEPT !.requeues = @ - 1]
  /\ UNCHANGED <<receipts, closer, sender, moved, batch, spoiled>>

\* A plan that was blocked and is queued again may be turned into another
\* evaluation, of a round that was already scored and archived too.
SwitchToValidation(t) ==
  /\ row[t].status = "queued" /\ row[t].task = "replan" /\ row[t].blocked
  /\ row' = [row EXCEPT ![t].task = "validate"]
  /\ UNCHANGED <<receipts, closer, sender, moved, batch, spoiled, left>>

------------------------------------------------------------------------------
\* The job.

\* A claim names the tasks that are being closed and gets none of them.
ClaimRound(t) ==
  /\ RunnerFree
  /\ row[t].status = "queued" /\ job = NoJob /\ moved # "running"
  /\ closing = Unset
  /\ row' = [row EXCEPT ![t].status = "running"]
  /\ job' = [turn |-> t, phase |-> "working", ok |-> FALSE]
  /\ UNCHANGED <<result, original, closer, sender, moved, batch, spoiled, left>>

\* createEvidenceArchive never reuses a name: an archive has a new digest.
NewArchive(t) ==
  LET named == {row[t].archive, result[t].archive, original[t].archive,
                request[t].source} IN
  1 + CHOOSE a \in named : \A b \in named : b <= a

\* The outcome is sealed in the turn's receipt.  Planning the next question
\* writes its own message there, once keeping the result it finds; planning
\* after a scored round sends that round's completed result again.
SaveResult(ok) ==
  LET t == job.turn
      task == row[t].task IN
  /\ RunnerFree
  /\ job.phase = "working"
  /\ \/ /\ task \in {"evaluate", "validate"}
        /\ result' = [result EXCEPT ![t] =
             [saved |-> TRUE, plan |-> FALSE,
              archive |-> IF ok THEN NewArchive(t) ELSE 0]]
        /\ UNCHANGED original
     \/ /\ task = "plan" /\ ok
        /\ result' = [result EXCEPT ![t] =
             [saved |-> TRUE, plan |-> FALSE, archive |-> row[t].archive]]
        /\ UNCHANGED original
     \/ /\ task = "replan"
        /\ original' = IF result[t].saved /\ ~original[t].kept
                       THEN [original EXCEPT ![t] =
                              [kept |-> TRUE, archive |-> result[t].archive]]
                       ELSE original
        /\ result' = [result EXCEPT ![t] =
             [saved |-> TRUE, plan |-> TRUE, archive |-> 0]]
  /\ job' = [job EXCEPT !.phase = "saved", !.ok = ok]
  /\ UNCHANGED <<row, closer, sender, moved, batch, spoiled, left>>

\* An evaluation that succeeds after its container is gone queues its own item.
QueueRecovered ==
  LET t == job.turn IN
  /\ RunnerFree
  /\ job.phase = "saved"
  /\ items' = IF row[t].task = "validate" /\ job.ok /\ Removed
              THEN items \cup {<<t, result[t].archive>>}
              ELSE items
  /\ job' = [job EXCEPT !.phase = "ready"]
  /\ UNCHANGED <<row, result, original, closer, finished, request, delivered,
                 flush, wire, moved, batch, spoiled, left>>

\* What the store decides to do after a scored round.
Decisions(t) ==
  IF moved # "no" THEN {row[t].next}
  ELSE {"advance", "ends", "error"} \cup
       (IF t < Rounds /\ t = Last /\ session = "open" THEN {"goes"} ELSE {})

\* The store takes the result: the whole automation record is replaced, except
\* by a plan of the next question, which leaves the round as it was.
FinishRound(next) ==
  LET t == job.turn
      r == row[t]
      idle == [r EXCEPT !.task = "evaluate", !.back = Unset]
      scored == [idle EXCEPT !.status = "review", !.archive = result[t].archive,
                          !.package = Awaiting(result[t].archive), !.next = next]
      failed == [idle EXCEPT !.status = "failed", !.archive = 0,
                          !.package = NoPackage, !.next = Unset] IN
  /\ RunnerFree
  /\ job.phase \in {"ready", "orphan"}
  /\ \/ /\ r.task # "replan" /\ job.ok
        /\ next \in Decisions(t)
        /\ row' = [u \in Turns |->
             CASE u = t -> scored
               [] u = t + 1 /\ next = "goes" -> NewRow("queued")
               [] OTHER -> row[u]]
        /\ moved' = IF next = "advance" /\ moved = "no" THEN "queued" ELSE moved
     \/ /\ r.task # "replan" /\ ~job.ok /\ next = Unset
        /\ row' = [row EXCEPT ![t] = failed]
        /\ UNCHANGED moved
     \/ /\ r.task = "replan" /\ next \in {"advance", "blocked"}
        /\ row' = [row EXCEPT ![t] = [idle EXCEPT !.status = r.back,
                                                  !.blocked = next = "blocked"]]
        /\ moved' = IF next = "advance" THEN "queued" ELSE moved
  /\ job' = NoJob
  /\ UNCHANGED <<result, original, closer, sender, batch, spoiled, left>>

\* The next question's job: it must see this one's container removed first.
NextStarts ==
  /\ RunnerFree
  /\ moved = "queued" /\ Busy = {} /\ job = NoJob /\ closing = Unset
  /\ moved' = "running"
  /\ UNCHANGED <<row, receipts, closer, sender, batch, spoiled, left>>

NextEnds ==
  /\ RunnerFree
  /\ moved = "running" /\ closing = Unset /\ completed
  /\ moved' = "over"
  /\ UNCHANGED <<row, receipts, closer, sender, batch, spoiled, left>>

------------------------------------------------------------------------------
\* Closing the session.

\* sessionFinalization: what the store proposes to close.
Plan ==
  /\ moved \in {"no", "queued"} /\ Busy = {}
  /\ \/ Removed
     \/ row[Last].status = "review"
        /\ (row[Last].next \in {"advance", "ends"} \/ Last = Rounds)

\* Mutant: a confirmed finalization is taken for a finished one.
StartCloseUnconfirmed ==
  /\ RunnerFree
  /\ closing = Unset /\ ~completed /\ session # "confirmed"
  /\ \/ /\ Plan /\ job = NoJob
        /\ transport = "original-mac-terminal" \/ Removed
        /\ ~(held.waits /\ held.at = session)
        /\ closing' = "starting"
     \/ moved = "running" /\ closing' = "job"
  /\ UNCHANGED <<store, receipts, sender, session, transport, completed, held,
                 spoiled, left>>

\* One close at a time, never of a task a job has, nor again while the
\* conditions of the last failure still stand.  A container of the old Terminal
\* protocol is left to the next question's job.
StartClose ==
  /\ RunnerFree
  /\ closing = Unset /\ ~completed
  /\ \/ /\ Plan /\ job = NoJob
        /\ transport = "original-mac-terminal" \/ Removed
        /\ ~(held.waits /\ held.at = session)
        /\ closing' = "starting"
     \/ moved = "running" /\ closing' = "job"
  /\ UNCHANGED <<store, receipts, sender, session, transport, completed, held,
                 spoiled, left>>

\* The owner reads the plan again before it touches anything.
CheckPlan ==
  /\ RunnerFree
  /\ closing = "starting" /\ Plan
  /\ closing' = "queue"
  /\ UNCHANGED <<store, receipts, sender, session, transport, completed, held,
                 spoiled, left>>

\* The idle session is left and its whole trace exported; the queue looks at
\* the plan once more just before.
LeaveSession ==
  /\ RunnerFree
  /\ closing \in {"queue", "job"} /\ session \in {"open", "exported"}
  /\ closing = "queue" /\ session = "open" => Plan
  /\ session' = "exported"
  /\ UNCHANGED <<store, receipts, sender, transport, closing, completed, held,
                 spoiled, left>>

RemoveContainer ==
  /\ RunnerFree
  /\ closing \in {"queue", "job"} /\ session = "exported"
  /\ session' = "removed"
  /\ UNCHANGED <<store, receipts, sender, transport, closing, completed, held,
                 spoiled, left>>

\* finalization.json, then the Terminal's own confirmation.
WriteFinalization ==
  /\ RunnerFree
  /\ closing \in {"queue", "job"} /\ session = "removed"
  /\ session' = "written"
  /\ UNCHANGED <<store, receipts, sender, transport, closing, completed, held,
                 spoiled, left>>

ConfirmFinalization ==
  /\ RunnerFree
  /\ closing \in {"queue", "job"} /\ session = "written"
  /\ session' = "confirmed"
  /\ UNCHANGED <<store, receipts, sender, transport, closing, completed, held,
                 spoiled, left>>

\* onFinalized puts the question into the submission queue, once.
QueueSubmission ==
  /\ RunnerFree
  /\ closing \in {"queue", "job"} /\ session = "confirmed"
  /\ items' = items \cup {Queue}
  /\ closing' = Unset /\ completed' = TRUE /\ held' = NotHeld
  /\ UNCHANGED <<store, receipts, session, transport, finished, request,
                 delivered, flush, wire, spoiled, left>>

\* A failed close is remembered with the conditions it failed under.  Only a
\* failure of the transport, or a missing confirmation after the removal, is
\* tried once more under the same ones.
FailureHeld(again) ==
  LET n == IF held.at = session THEN held.attempts + 1 ELSE 1 IN
  [at |-> session, attempts |-> n, waits |-> ~again \/ n >= 2]

CloseFails(again) ==
  /\ RunnerFree
  /\ closing # Unset
  /\ \/ /\ left.mishaps > 0
        /\ left' = [left EXCEPT !.mishaps = @ - 1]
     \/ /\ closing = "starting" \/ (closing = "queue" /\ session = "open")
        /\ ~Plan /\ ~again
        /\ UNCHANGED left
  /\ closing' = Unset
  /\ held' = IF closing = "job" THEN held ELSE FailureHeld(again)
  /\ UNCHANGED <<store, receipts, sender, session, transport, completed, spoiled>>

\* A new release of the modules is a change of the conditions.
NewRelease ==
  /\ held.waits
  /\ held' = NotHeld
  /\ UNCHANGED <<store, receipts, sender, session, transport, closing, completed,
                 spoiled, left>>

------------------------------------------------------------------------------
\* The flush.

\* submissionResult: the evaluation a round's receipt stands for.
ArchiveOf(t) ==
  IF result[t].plan /\ original[t].kept THEN original[t].archive
  ELSE result[t].archive

TurnsOf(i) == IF i = Queue THEN Begun ELSE {i[1]}

HasPendingAssessment(i) ==
  \E t \in TurnsOf(i) : ArchiveOf(t) # 0 /\ t \notin delivered

\* The evidence archive with its manifest and members, and the final export,
\* still have the digests their receipts say.
ArchiveIntact(t) == <<"evidence", t>> \notin spoiled
NativeIntact == <<"final", 0>> \notin spoiled
Intact(t) == ArchiveIntact(t) /\ NativeIntact

\* verifyTerminalFinalization: the receipt of the final export stands.
Finalized == session \in {"written", "confirmed"} /\ NativeIntact

PendingItems == {i \in items : i \in finished => HasPendingAssessment(i)}

\* A pass visits every file; one that failed waits until its .retry time, when
\* the others have had their turn.
FlushItem(i) ==
  LET fresh == PendingItems \ flush.tried IN
  /\ flush.phase = Unset
  /\ i \in IF fresh = {} THEN PendingItems ELSE fresh
  /\ Finalized
  /\ flush' = [item |-> i, phase |-> "read", good |-> FALSE,
               tried |-> IF fresh = {} THEN {} ELSE flush.tried,
               at |-> CHOOSE t \in TurnsOf(i) : \A u \in TurnsOf(i) : t <= u]
  /\ UNCHANGED <<store, receipts, closer, items, finished, request, delivered,
                 wire, spoiled, left>>

\* The next round of the item, or its .done marker.
Advance ==
  IF \E t \in TurnsOf(flush.item) : t > flush.at
  THEN /\ flush' = [flush EXCEPT !.at = @ + 1, !.phase = "read"]
       /\ UNCHANGED finished
  ELSE /\ flush' = NoFlush(flush.tried)
       /\ finished' = finished \cup {flush.item}

\* A round without an archive has nothing to submit; one that was delivered
\* as it stands is passed over.
PassOver ==
  LET t == flush.at IN
  /\ flush.phase = "read"
  /\ \/ ArchiveOf(t) = 0
     \/ t \in delivered /\ request[t].source = ArchiveOf(t)
  /\ Advance
  /\ UNCHANGED <<store, receipts, closer, items, request, delivered, wire,
                 spoiled, left>>

\* The evaluation, the round's native files and the final export are checked
\* against their receipts and against each other.
BindSource ==
  LET t == flush.at IN
  /\ flush.phase = "read"
  /\ ArchiveOf(t) # 0 /\ request[t].source = 0
  /\ Intact(t)
  /\ flush' = [flush EXCEPT !.phase = "bound"]
  /\ UNCHANGED <<store, receipts, closer, items, finished, request, delivered,
                 wire, spoiled, left>>

\* The native files are read again after they were checked.
CopyFiles ==
  /\ flush.phase = "bound"
  /\ flush' = [flush EXCEPT !.phase = "copied", !.good = Intact(flush.at)]
  /\ UNCHANGED <<store, receipts, closer, items, finished, request, delivered,
                 wire, spoiled, left>>

\* The scanner has cleared every file of the package.
Cleared(t) == <<t, ArchiveOf(t)>> \notin Opaque

\* What the content scan and the way the session ended allow.
PackageStatus(t) ==
  IF transport = "original-mac-terminal" /\ Cleared(t) THEN "passed" ELSE "needs_review"

\* Mutant: the sources are not checked again after the copy.
SealUnchecked ==
  LET t == flush.at IN
  /\ flush.phase = "copied"
  /\ request' = [request EXCEPT ![t] =
       [source |-> ArchiveOf(t), status |-> PackageStatus(t), good |-> flush.good]]
  /\ flush' = [flush EXCEPT !.phase = "read"]
  /\ UNCHANGED <<store, receipts, closer, items, finished, delivered, wire,
                 spoiled, left>>

\* The sources are checked once more, the package is closed, and the request
\* for the store is kept in the turn's receipt.
SealPackage ==
  LET t == flush.at IN
  /\ flush.phase = "copied"
  /\ Intact(t)
  /\ request' = [request EXCEPT ![t] =
       [source |-> ArchiveOf(t), status |-> PackageStatus(t), good |-> flush.good]]
  /\ flush' = [flush EXCEPT !.phase = "read"]
  /\ UNCHANGED <<store, receipts, closer, items, finished, delivered, wire,
                 spoiled, left>>

\* The package and its ZIP hold what their own receipt and manifest say.
PackageIntact(t) == <<"package", t>> \notin spoiled

\* verifySubmissionPackage, before every sending of a passed package.
VerifyPackage(t) == request[t].status = "passed" => Intact(t) /\ PackageIntact(t)

SendPackage ==
  LET t == flush.at IN
  /\ flush.phase = "read"
  /\ request[t].source # 0 /\ request[t].source = ArchiveOf(t)
  /\ t \notin delivered
  /\ VerifyPackage(t)
  /\ wire' = wire \cup {[turn |-> t, source |-> request[t].source,
                         status |-> request[t].status]}
  /\ flush' = [flush EXCEPT !.phase = "sent"]
  /\ UNCHANGED <<store, receipts, closer, items, finished, request, delivered,
                 spoiled, left>>

\* An error anywhere leaves the whole item for a later pass.
GiveUp ==
  LET t == flush.at IN
  /\ \/ /\ flush.phase = "read"
        /\ ArchiveOf(t) # 0
        /\ \/ request[t].source \notin {0, ArchiveOf(t)}
           \/ request[t].source = 0 /\ ~Intact(t)
           \/ request[t].source = ArchiveOf(t) /\ ~VerifyPackage(t)
        /\ UNCHANGED left
     \/ /\ flush.phase = "read" /\ ~result[t].saved
        /\ UNCHANGED left
     \/ /\ flush.phase = "copied" /\ ~Intact(t)
        /\ UNCHANGED left
     \/ /\ flush.phase = "sent" /\ left.mishaps > 0
        /\ left' = [left EXCEPT !.mishaps = @ - 1]
  /\ flush' = NoFlush(flush.tried \cup {flush.item})
  /\ UNCHANGED <<store, receipts, closer, items, finished, request, delivered,
                 wire, spoiled>>

\* Mutant: the store does not compare the package's archive with the round's.
AcceptsAnyArchive(m) ==
  /\ row[m.turn].status \in {"review", "failed"}
  /\ m.status = "passed" => transport = "original-mac-terminal"

\* The store attaches a package only to a scored round and the archive the
\* round now has; the answer may be lost, and so may the one who waits for it.
Accepts(m) ==
  /\ row[m.turn].status \in {"review", "failed"}
  /\ row[m.turn].archive = m.source
  /\ m.status = "passed" => transport = "original-mac-terminal"

Receive(m, answered) ==
  LET waiting == flush.phase = "sent" /\ flush.at = m.turn IN
  /\ m \in wire
  /\ wire' = wire \ {m}
  /\ row' = IF Accepts(m)
            THEN [row EXCEPT ![m.turn].package =
                   [source |-> m.source, status |-> m.status]]
            ELSE row
  /\ answered \/ (waiting /\ left.mishaps > 0)
  /\ left' = IF answered THEN left ELSE [left EXCEPT !.mishaps = @ - 1]
  /\ flush' = CASE ~waiting -> flush
                [] waiting /\ answered /\ Accepts(m) ->
                     [flush EXCEPT !.phase = "acknowledged"]
                [] OTHER -> NoFlush(flush.tried \cup {flush.item})
  /\ UNCHANGED <<receipts, moved, batch, closer, items, finished, request,
                 delivered, spoiled>>

MarkDelivered ==
  /\ flush.phase = "acknowledged"
  /\ delivered' = delivered \cup {flush.at}
  /\ Advance
  /\ UNCHANGED <<store, receipts, closer, items, request, wire, spoiled, left>>

------------------------------------------------------------------------------
\* Export batches.

\* A batch keeps the rows it was asked for first; later downloads send them
\* again only if the records' packages still stand.
SubmissionStands(t) ==
  /\ row[t].package.status \in {"passed", "needs_review"}
  /\ transport = "original-mac-terminal"
  /\ row[t].package.source = row[t].archive

SaveBatch ==
  LET standing == {<<t, row[t].archive>> :
                     t \in {u \in Turns : row[u].status = "review" /\ SubmissionStands(u)}} IN
  /\ batch.downloads = 0 /\ MaxDownloads > 0
  /\ standing # {}
  /\ batch' = [rows |-> standing, downloads |-> 1]
  /\ UNCHANGED <<row, moved, receipts, closer, sender, spoiled, left>>

Download ==
  /\ batch.downloads \in 1 .. (MaxDownloads - 1)
  /\ \A r \in batch.rows : SubmissionStands(r[1])
  /\ batch' = [batch EXCEPT !.downloads = @ + 1]
  /\ UNCHANGED <<row, moved, receipts, closer, sender, spoiled, left>>

------------------------------------------------------------------------------
\* Crashes and damage.

Crash ==
  /\ left.mishaps > 0
  /\ left' = [left EXCEPT !.mishaps = @ - 1]
  /\ \/ /\ job.phase = "working"
        /\ row' = [row EXCEPT ![job.turn].status = "queued"]
        /\ job' = NoJob
     \/ /\ job.phase # "working"
        /\ job' = IF job = NoJob THEN NoJob ELSE [job EXCEPT !.phase = "orphan"]
        /\ UNCHANGED row
  /\ closing' = Unset /\ completed' = FALSE /\ flush' = NoFlush({})
  /\ UNCHANGED <<result, original, moved, batch, session, transport, held, items,
                 finished, request, delivered, wire, spoiled>>

Spoil(x) ==
  /\ left.mishaps > 0 /\ x \notin spoiled
  /\ x = <<"final", 0>> => session \notin {"open"}
  /\ x[1] = "evidence" => result[x[2]].archive # 0
  /\ x[1] = "package" => request[x[2]].source # 0
  /\ spoiled' = spoiled \cup {x}
  /\ left' = [left EXCEPT !.mishaps = @ - 1]
  /\ UNCHANGED <<store, receipts, closer, sender>>

Spoilable == {<<"final", 0>>} \cup ({"evidence", "package"} \X Turns)
Items     == {Queue} \cup (Turns \X (1 .. (MaxRequeues + 1)))
NextValues == {"goes", "advance", "ends", "error", "blocked", Unset}

SubmissionNext ==
  \/ \E t \in Turns : \/ \E task \in {"validate", "plan", "replan"} : Requeue(t, task)
                      \/ SwitchToValidation(t) \/ ClaimRound(t)
  \/ \E ok \in BOOLEAN : SaveResult(ok)
  \/ QueueRecovered
  \/ \E next \in NextValues : FinishRound(next)
  \/ NextStarts \/ NextEnds
  \/ StartClose \/ CheckPlan \/ LeaveSession \/ RemoveContainer \/ WriteFinalization
  \/ ConfirmFinalization \/ QueueSubmission
  \/ \E again \in BOOLEAN : CloseFails(again)
  \/ NewRelease
  \/ \E i \in Items : FlushItem(i)
  \/ PassOver \/ BindSource \/ CopyFiles \/ SealPackage \/ SendPackage \/ GiveUp
  \/ \E m \in wire, answered \in BOOLEAN : Receive(m, answered)
  \/ MarkDelivered
  \/ SaveBatch \/ Download
  \/ Crash
  \/ \E x \in Spoilable : Spoil(x)

SubmissionSpec == SubmissionInit /\ [][SubmissionNext]_submissionVars

CloseStep == StartClose \/ CheckPlan \/ LeaveSession \/ RemoveContainer
               \/ WriteFinalization \/ ConfirmFinalization \/ QueueSubmission
               \/ CloseFails(FALSE)
FlushStep == (\E i \in Items : FlushItem(i)) \/ PassOver \/ BindSource \/ CopyFiles
               \/ SealPackage \/ SendPackage \/ GiveUp \/ MarkDelivered
JobStep   == (\E t \in Turns : ClaimRound(t)) \/ (\E ok \in BOOLEAN : SaveResult(ok))
               \/ QueueRecovered \/ (\E next \in NextValues : FinishRound(next))
               \/ NextStarts \/ NextEnds

\* The runner's loop keeps claiming, closing and flushing, and a request the
\* store is up for is handled.
Fairness ==
  /\ WF_submissionVars(JobStep) /\ WF_submissionVars(CloseStep) /\ WF_submissionVars(FlushStep)
  /\ WF_submissionVars(\E m \in wire : Receive(m, TRUE))

FairSubmissionSpec == SubmissionSpec /\ Fairness

------------------------------------------------------------------------------
TypeOK ==
  /\ \A t \in Turns :
       /\ row[t].status \in {Unset, "queued", "running", "review", "failed"}
       /\ row[t].task \in {"evaluate", "validate", "plan", "replan"}
       /\ row[t].back \in {Unset, "review", "failed"}
       /\ row[t].archive \in 0 .. (MaxRequeues + 1)
       /\ row[t].next \in NextValues /\ row[t].blocked \in BOOLEAN
  /\ job.turn \in Turns \cup {0}
  /\ job.phase \in {Unset, "working", "saved", "ready", "orphan"}
  /\ moved \in {"no", "queued", "running", "over"}
  /\ session \in {"open", "exported", "removed", "written", "confirmed"}
  /\ closing \in {Unset, "starting", "queue", "job"} /\ completed \in BOOLEAN
  /\ items \subseteq Items /\ finished \subseteq items
  /\ delivered \subseteq Turns /\ spoiled \subseteq Spoilable
  /\ flush.item \in Items \cup {<<>>} /\ flush.at \in Turns \cup {0}
  /\ flush.tried \subseteq items
  /\ flush.phase \in {Unset, "read", "bound", "copied", "sent", "acknowledged"}

\* The package a record shows is one of the archive the record was scored with,
\* whatever was scored again, sent twice or arrived late; and a passed one holds
\* nothing the scanner could not clear and left through the original Terminal.
RegisteredIsSound ==
  \A t \in Turns :
    LET p == row[t].package IN
    p.status \in {"passed", "needs_review"} =>
      /\ p.source = row[t].archive
      /\ p.status = "passed" => /\ <<t, p.source>> \notin Opaque
                                /\ transport = "original-mac-terminal"

\* A sealed package holds the evidence as it was archived and exported, also if
\* the files are damaged between their check and their copying.
SealedAsArchived == \A t \in Turns : request[t].source # 0 => request[t].good

\* The known ways a scored round loses its package: a receipt made from an
\* earlier archive, a kept result older than the archive, a completed result
\* sent again over a delivered package, damage, and a close that waits for a
\* change of its conditions.
Outdated(t) ==
  \/ request[t].source # 0 /\ request[t].source # row[t].archive
  \/ result[t].saved /\ ArchiveOf(t) # row[t].archive
  \/ t \in delivered /\ row[t].package.status = "awaiting_finalization"

Stuck(t) ==
  \/ held.waits
  \/ \E u \in Begun : u <= t /\ (Outdated(u) \/ ~Intact(u) \/ ~PackageIntact(u))

\* Once a scored round's container is gone, its record gets its package in the
\* end, through crashes, lost answers and further rounds, unless one of the
\* known ways applies to it or to a round before it.
ScoredIsRegistered ==
  \A t \in Turns :
    (Removed /\ row[t].archive # 0) ~>
      (row[t].package.status \in {"passed", "needs_review"} \/ row[t].archive = 0 \/ Stuck(t))
==============================================================================
