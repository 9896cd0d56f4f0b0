-------------------------- MODULE SubmissionProofs ---------------------------
(***************************************************************************)
(* Proofs about the way of a scored round out of the runner.               *)
(*                                                                         *)
(* FinalSubmission, for any number of rounds, archives, requeues, deaths   *)
(* and damaged files: the package a record shows is one of its archive,    *)
(* cleared by the scanner, and a sealed package holds its evidence.        *)
(*                                                                         *)
(* SoloUpload, for any records, sessions, windows, nights and any number   *)
(* of deaths: no record is submitted twice, none that was forbidden is     *)
(* submitted at all, and the rounds of a session go out in their order.    *)
(***************************************************************************)
EXTENDS FinalSubmission, SoloUpload, TLAPS

------------------------------------------------------------------------------
\* FinalSubmission.

\* What the proofs need to know of the types: of the rounds, the receipts they
\* rest on and the flush.
PackageStates == {Unset, "awaiting_finalization", "passed", "needs_review"}

Round == [status : {Unset, "queued", "running", "review", "failed"},
          task : {"evaluate", "validate", "plan", "replan"},
          back : {Unset, "queued", "running", "review", "failed"}, archive : Nat,
          package : [source : Nat, status : PackageStates],
          next : NextValues, blocked : BOOLEAN]

SavedResult == [saved : BOOLEAN, archive : Nat, plan : BOOLEAN]
Kept    == [kept : BOOLEAN, archive : Nat]
Sealed  == [source : Nat, status : PackageStates, good : BOOLEAN]

Flush == [item : {flush.item}, at : {flush.at}, good : BOOLEAN, tried : {flush.tried},
          phase : {Unset, "read", "bound", "copied", "sent", "acknowledged"}]

ReceiptTypes ==
  /\ row \in [Turns -> Round]
  /\ result \in [Turns -> SavedResult]
  /\ original \in [Turns -> Kept]
  /\ request \in [Turns -> Sealed]
  /\ flush \in Flush

\* A passed package is of an archive the scanner cleared, also while the request
\* that registers it is on its way.
Scanned(t, p) == p.source \in Nat /\ p.status \in PackageStates
                 /\ (p.status = "passed" => <<t, p.source>> \notin Opaque)
ScanInv ==
  /\ \A t \in Turns : Scanned(t, request[t])
  /\ \A m \in wire : m.turn \in Turns => Scanned(m.turn, m)

\* What was copied and is still intact was intact when it was copied.
CopyInv == flush.phase = "copied" /\ Intact(flush.at) => flush.good

FInv == ReceiptTypes /\ ScanInv /\ CopyInv /\ RegisteredIsSound /\ SealedAsArchived

\* Nothing is scored, copied or sent at first.
LEMMA SubmissionInitHolds == SubmissionInit => FInv
<1> SUFFICES ASSUME SubmissionInit PROVE FInv
  OBVIOUS
<1>1. row \in [Turns -> Round]
  BY DEF SubmissionInit, NewRow, NoPackage, Round, PackageStates, NextValues, Unset
<1>2. ReceiptTypes
  BY <1>1 DEF SubmissionInit, ReceiptTypes, SavedResult, Kept, Sealed, Flush, NoFlush,
         PackageStates, Unset
<1>3. ScanInv /\ CopyInv
  BY DEF SubmissionInit, ScanInv, Scanned, CopyInv, Sealed, NoFlush, PackageStates, Unset
<1>4. RegisteredIsSound /\ SealedAsArchived
  BY DEF SubmissionInit, RegisteredIsSound, SealedAsArchived, NewRow, NoPackage, Unset
<1> QED
  BY <1>2, <1>3, <1>4 DEF FInv

\* More damage leaves fewer files intact.
LEMMA DamageStays ==
  ASSUME NEW t, spoiled \subseteq spoiled', Intact(t)'
  PROVE  Intact(t)
BY DEF Intact, ArchiveIntact, NativeIntact

\* Steps of the closing, the batches and the next question, and damage.
LEMMA AsideKeeps ==
  ASSUME FInv, UNCHANGED <<row, result, original, request, wire, flush, transport>>,
         spoiled \subseteq spoiled'
  PROVE  FInv'
<1> USE DEF FInv
<1>1. ReceiptTypes' /\ ScanInv'
  BY DEF ReceiptTypes, Flush, ScanInv, Scanned
<1>2. CopyInv'
  BY DamageStays DEF CopyInv
<1>3. RegisteredIsSound' /\ SealedAsArchived'
  BY DEF RegisteredIsSound, SealedAsArchived
<1> QED
  BY <1>1, <1>2, <1>3

LEMMA SurroundingsKeepSubmission ==
  ASSUME FInv,
         \/ QueueRecovered \/ NextStarts \/ NextEnds
         \/ StartClose \/ CheckPlan \/ LeaveSession \/ RemoveContainer \/ WriteFinalization
         \/ ConfirmFinalization \/ QueueSubmission
         \/ (\E again \in BOOLEAN : CloseFails(again))
         \/ NewRelease \/ SaveBatch \/ Download \/ (\E x \in Spoilable : Spoil(x))
  PROVE  FInv'
<1>1. UNCHANGED <<row, result, original, request, wire, flush, transport>>
  BY DEF QueueRecovered, NextStarts, NextEnds, StartClose, CheckPlan, LeaveSession,
         RemoveContainer, WriteFinalization, ConfirmFinalization, QueueSubmission, CloseFails,
         NewRelease, SaveBatch, Download, Spoil, store, receipts, sender, closer
<1>2. spoiled \subseteq spoiled'
  BY DEF QueueRecovered, NextStarts, NextEnds, StartClose, CheckPlan, LeaveSession,
         RemoveContainer, WriteFinalization, ConfirmFinalization, QueueSubmission, CloseFails,
         NewRelease, SaveBatch, Download, Spoil
<1> QED
  BY <1>1, <1>2, AsideKeeps

\* A step that changes rounds: where the archive or the package changes, the
\* round has no package from then on.
LEMMA RoundsKeep ==
  ASSUME FInv, UNCHANGED <<result, original, request, wire, transport, spoiled>>,
         flush' = flush \/ flush' = NoFlush({}),
         row' \in [Turns -> Round],
         \A t \in Turns :
           \/ row'[t].archive = row[t].archive /\ row'[t].package = row[t].package
           \/ row'[t].package.status \notin {"passed", "needs_review"}
  PROVE  FInv'
<1> USE DEF FInv
<1>1. flush' \in Flush'
  <2>1. CASE flush' = flush
    BY <2>1 DEF ReceiptTypes, Flush
  <2>2. CASE flush' = NoFlush({})
    <3>1. NoFlush({}).item = <<>> /\ NoFlush({}).at = 0 /\ NoFlush({}).tried = {}
      BY DEF NoFlush
    <3>2. NoFlush({}) \in [item : {<<>>}, at : {0}, good : BOOLEAN, tried : {{}},
                          phase : {Unset, "read", "bound", "copied", "sent", "acknowledged"}]
      BY DEF NoFlush
    <3> QED
      BY <2>2, <3>1, <3>2 DEF Flush
  <2> QED
    BY <2>1, <2>2
<1>2. ReceiptTypes' /\ ScanInv'
  BY <1>1 DEF ReceiptTypes, ScanInv, Scanned
<1>3. CopyInv'
  BY DamageStays DEF CopyInv, NoFlush, Unset
<1>4. RegisteredIsSound' /\ SealedAsArchived'
  BY DEF RegisteredIsSound, SealedAsArchived
<1> QED
  BY <1>2, <1>3, <1>4

\* Queuing and claiming a round leaves its archive and its package.
LEMMA QueueingKeeps ==
  ASSUME FInv, NEW t \in Turns,
         \/ \E task \in {"validate", "plan", "replan"} : Requeue(t, task)
         \/ SwitchToValidation(t) \/ ClaimRound(t)
  PROVE  FInv'
<1>1. UNCHANGED <<result, original, request, wire, transport, spoiled, flush>>
  BY DEF Requeue, SwitchToValidation, ClaimRound, receipts, closer, sender
<1>2. row \in [Turns -> Round]
  BY DEF FInv, ReceiptTypes
<1>3. PICK r \in Round : /\ row' = [row EXCEPT ![t] = r]
                         /\ r.archive = row[t].archive /\ r.package = row[t].package
  <2>1. ASSUME NEW task \in {"validate", "plan", "replan"}, Requeue(t, task)
        PROVE  \E r \in Round : /\ row' = [row EXCEPT ![t] = r]
                                /\ r.archive = row[t].archive /\ r.package = row[t].package
    <3> DEFINE r == [row[t] EXCEPT !.status = "queued", !.task = task, !.back = row[t].status]
    <3>1. r \in Round /\ r.archive = row[t].archive /\ r.package = row[t].package
      BY <1>2, <2>1 DEF Requeue, Round, Unset
    <3>2. row' = [row EXCEPT ![t] = r]
      BY <2>1 DEF Requeue
    <3> QED
      BY <3>1, <3>2
  <2>2. CASE SwitchToValidation(t)
    <3> DEFINE r == [row[t] EXCEPT !.task = "validate"]
    <3>1. r \in Round /\ r.archive = row[t].archive /\ r.package = row[t].package
      BY <1>2 DEF Round
    <3>2. row' = [row EXCEPT ![t] = r]
      BY <2>2 DEF SwitchToValidation
    <3> QED
      BY <3>1, <3>2
  <2>3. CASE ClaimRound(t)
    <3> DEFINE r == [row[t] EXCEPT !.status = "running"]
    <3>1. r \in Round /\ r.archive = row[t].archive /\ r.package = row[t].package
      BY <1>2 DEF Round
    <3>2. row' = [row EXCEPT ![t] = r]
      BY <2>3 DEF ClaimRound
    <3> QED
      BY <3>1, <3>2
  <2> QED
    BY <2>1, <2>2, <2>3
<1>4. row' \in [Turns -> Round]
  BY <1>2, <1>3
<1>5. \A u \in Turns : row'[u].archive = row[u].archive /\ row'[u].package = row[u].package
  BY <1>2, <1>3
<1> QED
  BY <1>1, <1>4, <1>5, RoundsKeep


\* The number of a new archive is one more than a number in use.
LEMMA NewArchiveNumber ==
  ASSUME ReceiptTypes, NEW t \in Turns
  PROVE  NewArchive(t) \in Nat
<1> DEFINE named == {row[t].archive, result[t].archive, original[t].archive, request[t].source}
<1>1. row[t].archive \in Nat /\ result[t].archive \in Nat /\ original[t].archive \in Nat
      /\ request[t].source \in Nat
  BY DEF ReceiptTypes, Round, SavedResult, Kept, Sealed
<1>2. \E a \in named : \A b \in named : b <= a
  <2> HIDE DEF named
  <2>1. \A a, b \in Nat : a <= b \/ b <= a
    OBVIOUS
  <2>2. \E a \in {row[t].archive, result[t].archive} :
          \A b \in {row[t].archive, result[t].archive} : b <= a
    BY <1>1
  <2>3. \E a \in {original[t].archive, request[t].source} :
          \A b \in {original[t].archive, request[t].source} : b <= a
    BY <1>1
  <2>4. PICK a \in {row[t].archive, result[t].archive} :
          row[t].archive <= a /\ result[t].archive <= a
    BY <2>2
  <2>5. PICK b \in {original[t].archive, request[t].source} :
          original[t].archive <= b /\ request[t].source <= b
    BY <2>3
  <2>6. a \in named /\ b \in named /\ a \in Nat /\ b \in Nat
    BY <1>1 DEF named
  <2>7. CASE a <= b
    <3>1. \A c \in named : c <= b
      BY <1>1, <2>4, <2>5, <2>6, <2>7 DEF named
    <3> QED
      BY <2>6, <3>1
  <2>8. CASE b <= a
    <3>1. \A c \in named : c <= a
      BY <1>1, <2>4, <2>5, <2>6, <2>8 DEF named
    <3> QED
      BY <2>6, <3>1
  <2> QED
    BY <2>6, <2>7, <2>8
<1>3. (CHOOSE a \in named : \A b \in named : b <= a) \in named
  <2> HIDE DEF named
  <2> QED
    BY <1>2
<1>4. named \subseteq Nat
  BY <1>1
<1> DEFINE m == CHOOSE a \in named : \A b \in named : b <= a
<1>5. m \in Nat
  BY <1>3, <1>4
<1>6. NewArchive(t) = 1 + m
  BY DEF NewArchive
<1> HIDE DEF m
<1> QED
  BY <1>5, <1>6

\* The job's receipts: neither the rounds nor the packages change.
LEMMA SaveResultKeeps ==
  ASSUME FInv, NEW ok \in BOOLEAN, SaveResult(ok)
  PROVE  FInv'
<1> DEFINE t == job.turn
<1>1. UNCHANGED <<row, request, wire, transport, spoiled, flush>>
  BY DEF SaveResult, closer, sender
<1>2. result' \in [Turns -> SavedResult]
      /\ original' \in [Turns -> Kept]
  <2>0. ReceiptTypes
    BY DEF FInv
  <2>1. CASE t \in Turns
    <3>1. NewArchive(t) \in Nat /\ row[t].archive \in Nat
      BY <2>0, <2>1, NewArchiveNumber DEF ReceiptTypes, Round
    <3> DEFINE new == NewArchive(t)
    <3>2. PICK res \in SavedResult,
               org \in Kept :
            /\ result' = [result EXCEPT ![t] = res]
            /\ original' \in {original, [original EXCEPT ![t] = org]}
      <4>1. CASE row[t].task \in {"evaluate", "validate"}
        <5> DEFINE res == [saved |-> TRUE, plan |-> FALSE,
                           archive |-> IF ok THEN NewArchive(t) ELSE 0]
        <5>1. result' = [result EXCEPT ![t] = res] /\ original' = original
          BY <4>1 DEF SaveResult
        <5>2. res \in SavedResult
          BY <3>1 DEF SavedResult
        <5>3. original[t] \in Kept
          BY <2>0, <2>1 DEF ReceiptTypes
        <5> QED
          BY <5>1, <5>2, <5>3
      <4>2. CASE row[t].task = "plan"
        <5> DEFINE res == [saved |-> TRUE, plan |-> FALSE, archive |-> row[t].archive]
        <5>1. result' = [result EXCEPT ![t] = res] /\ original' = original
          BY <4>2 DEF SaveResult
        <5>2. res \in SavedResult
          BY <3>1 DEF SavedResult
        <5>3. original[t] \in Kept
          BY <2>0, <2>1 DEF ReceiptTypes
        <5> QED
          BY <5>1, <5>2, <5>3
      <4>3. CASE row[t].task = "replan"
        <5> DEFINE res == [saved |-> TRUE, plan |-> TRUE, archive |-> 0]
                   org == [kept |-> TRUE, archive |-> result[t].archive]
        <5>1. result' = [result EXCEPT ![t] = res]
              /\ original' \in {original, [original EXCEPT ![t] = org]}
          BY <4>3 DEF SaveResult
        <5>2. res \in SavedResult
          BY DEF SavedResult
        <5>3. org \in Kept
          BY <2>0, <2>1 DEF ReceiptTypes, SavedResult, Kept
        <5> QED
          BY <5>1, <5>2, <5>3
      <4> QED
        BY <4>1, <4>2, <4>3 DEF SaveResult
    <3> QED
      BY <2>0, <3>2 DEF ReceiptTypes
  <2>2. CASE t \notin Turns
    <3>1. result' = result /\ original' \in {original, original'} /\
          (original' = original \/ original' = [original EXCEPT ![t] =
              [kept |-> TRUE, archive |-> result[t].archive]])
      BY <2>0, <2>2 DEF SaveResult, ReceiptTypes
    <3> QED
      BY <2>0, <2>2, <3>1 DEF ReceiptTypes
  <2> QED
    BY <2>1, <2>2
<1>3. ReceiptTypes' /\ ScanInv'
  BY <1>1, <1>2 DEF FInv, ReceiptTypes, Flush, ScanInv, Scanned
<1>4. CopyInv'
  BY <1>1, DamageStays DEF FInv, CopyInv
<1>5. RegisteredIsSound' /\ SealedAsArchived'
  BY <1>1 DEF FInv, RegisteredIsSound, SealedAsArchived
<1> QED
  BY <1>3, <1>4, <1>5 DEF FInv

\* A result leaves a round with no package, or waiting for one.
LEMMA FinishRoundKeeps ==
  ASSUME FInv, NEW next \in NextValues, FinishRound(next)
  PROVE  FInv'
<1> DEFINE t == job.turn
           idle == [row[t] EXCEPT !.task = "evaluate", !.back = Unset]
           PackageKept(u) ==
             \/ row'[u].archive = row[u].archive /\ row'[u].package = row[u].package
             \/ row'[u].package.status \notin {"passed", "needs_review"}
<1>1. UNCHANGED <<result, original, request, wire, transport, spoiled, flush>>
  BY DEF FinishRound, closer, sender
<1>2. row \in [Turns -> Round] /\ result \in [Turns -> SavedResult]
  BY DEF FInv, ReceiptTypes
<1>3. t \in Turns => idle \in Round /\ idle.archive = row[t].archive
                     /\ idle.package = row[t].package
  <2>1. ASSUME NEW r \in Round
        PROVE  LET i == [r EXCEPT !.task = "evaluate", !.back = Unset] IN
               i \in Round /\ i.archive = r.archive /\ i.package = r.package
    BY DEF Round
  <2> QED
    BY <1>2, <2>1
<1>4. row' \in [Turns -> Round] /\ \A u \in Turns : PackageKept(u)
  <2>1. CASE row[t].task # "replan" /\ job.ok
    <3> DEFINE scored == [idle EXCEPT !.status = "review", !.archive = result[t].archive,
                            !.package = Awaiting(result[t].archive), !.next = next]
               value(u) == CASE u = t -> scored
                             [] u = t + 1 /\ next = "goes" -> NewRow("queued")
                             [] OTHER -> row[u]
    <3>1. row' = [u \in Turns |-> value(u)]
      BY <2>1 DEF FinishRound
    <3>2. t \in Turns => /\ scored \in Round
                         /\ scored.package.status = "awaiting_finalization"
      <4> SUFFICES ASSUME t \in Turns
                   PROVE  scored \in Round /\ scored.package.status = "awaiting_finalization"
        OBVIOUS
      <4> HIDE DEF idle, t
      <4>1. result[t].archive \in Nat
        BY <1>2 DEF SavedResult
      <4>2. Awaiting(result[t].archive) \in [source : Nat, status : PackageStates]
        BY <4>1 DEF Awaiting, PackageStates
      <4>3. idle \in Round
        BY <1>3
      <4>4. scored \in Round
        BY <4>1, <4>2, <4>3 DEF Round
      <4>5. scored.package = Awaiting(result[t].archive)
        BY <4>3 DEF Round
      <4> QED
        BY <4>4, <4>5 DEF Awaiting
    <3>3. NewRow("queued") \in Round /\ NewRow("queued").package.status = Unset
      BY DEF NewRow, NoPackage, Round, PackageStates, NextValues, Unset
    <3>4. ASSUME NEW u \in Turns
          PROVE  \/ value(u) = row[u]
                 \/ /\ value(u) \in Round
                    /\ value(u).package.status \in {Unset, "awaiting_finalization"}
      <4>1. CASE u = t
        <5>1. u # t + 1
          BY <4>1, SubmissionAssumption DEF Turns
        <5>2. value(u) = scored
          BY <4>1, <5>1
        <5> QED
          BY <4>1, <5>2, <3>2
      <4>2. CASE u # t /\ u = t + 1 /\ next = "goes"
        <5>1. value(u) = NewRow("queued")
          BY <4>2
        <5> QED
          BY <5>1, <3>3
      <4>3. CASE u # t /\ ~(u = t + 1 /\ next = "goes")
        <5>1. value(u) = row[u]
          BY <4>3
        <5> QED
          BY <5>1
      <4> QED
        BY <4>1, <4>2, <4>3
    <3> HIDE DEF value
    <3> QED
      BY <1>2, <3>1, <3>4 DEF Unset
  <2>2. CASE row[t].task # "replan" /\ ~job.ok
    <3> DEFINE failed == [idle EXCEPT !.status = "failed", !.archive = 0,
                            !.package = NoPackage, !.next = Unset]
    <3>1. row' = [row EXCEPT ![t] = failed]
      BY <2>2 DEF FinishRound
    <3>2. t \in Turns => failed \in Round /\ failed.package.status = Unset
      <4> HIDE DEF idle, t
      <4>1. NoPackage \in [source : Nat, status : PackageStates] /\ NoPackage.status = Unset
        BY DEF NoPackage, PackageStates, Unset
      <4> QED
        BY <1>3, <4>1 DEF Round, NextValues
    <3> HIDE DEF failed
    <3> QED
      BY <1>2, <3>1, <3>2 DEF Unset
  <2>3. CASE row[t].task = "replan"
    <3> DEFINE kept == [idle EXCEPT !.status = row[t].back, !.blocked = next = "blocked"]
    <3>1. row' = [row EXCEPT ![t] = kept]
      BY <2>3 DEF FinishRound
    <3>2. t \in Turns => /\ kept \in Round
                         /\ kept.archive = row[t].archive /\ kept.package = row[t].package
      <4>1. t \in Turns => row[t].back \in {Unset, "queued", "running", "review", "failed"}
        BY <1>2 DEF Round
      <4> HIDE DEF idle, t
      <4> QED
        BY <1>3, <4>1 DEF Round
    <3> HIDE DEF kept
    <3> QED
      BY <1>2, <3>1, <3>2
  <2> QED
    BY <2>1, <2>2, <2>3 DEF FinishRound
<1> QED
  BY <1>1, <1>4, RoundsKeep

\* A death puts a working round back and loses the flush.
LEMMA CrashKeeps ==
  ASSUME FInv, Crash
  PROVE  FInv'
<1>1. UNCHANGED <<result, original, request, wire, transport, spoiled>> /\ flush' = NoFlush({})
  BY DEF Crash
<1>2. row \in [Turns -> Round]
  BY DEF FInv, ReceiptTypes
<1>3. row' \in [Turns -> Round]
      /\ \A t \in Turns : row'[t].archive = row[t].archive /\ row'[t].package = row[t].package
  <2>1. CASE row' = row
    BY <1>2, <2>1
  <2>2. CASE row' = [row EXCEPT ![job.turn].status = "queued"]
    <3> DEFINE q == [row[job.turn] EXCEPT !.status = "queued"]
    <3>1. job.turn \in Turns => /\ q \in Round
                                /\ q.archive = row[job.turn].archive
                                /\ q.package = row[job.turn].package
      BY <1>2 DEF Round
    <3>2. row' = [row EXCEPT ![job.turn] = q]
      BY <2>2
    <3> HIDE DEF q
    <3> QED
      BY <1>2, <3>1, <3>2
  <2> QED
    BY <2>1, <2>2 DEF Crash
<1> QED
  BY <1>1, <1>3, RoundsKeep

------------------------------------------------------------------------------
\* The flush.

\* A step that changes only the flush.
LEMMA FlushMoves ==
  ASSUME FInv, UNCHANGED <<row, result, original, request, wire, transport, spoiled>>,
         flush' \in Flush', CopyInv'
  PROVE  FInv'
<1>1. ReceiptTypes' /\ ScanInv'
  BY DEF FInv, ReceiptTypes, ScanInv, Scanned
<1>2. RegisteredIsSound' /\ SealedAsArchived'
  BY DEF FInv, RegisteredIsSound, SealedAsArchived
<1> QED
  BY <1>1, <1>2 DEF FInv

Phases == {Unset, "read", "bound", "copied", "sent", "acknowledged"}

\* The flush is over, or goes on with another phase or round.
LEMMA FlushEnds ==
  ASSUME NEW tried, flush' = NoFlush(tried)
  PROVE  flush' \in Flush' /\ CopyInv'
<1>1. flush' = [item |-> <<>>, at |-> 0, phase |-> Unset, good |-> FALSE, tried |-> tried]
  BY DEF NoFlush
<1>2. flush'.item = <<>> /\ flush'.at = 0 /\ flush'.tried = tried /\ flush'.phase = Unset
  BY <1>1
<1>3. flush' \in Flush'
  BY <1>1, <1>2 DEF Flush
<1> QED
  BY <1>2, <1>3 DEF CopyInv, Unset

LEMMA FlushGoes ==
  ASSUME flush \in Flush, NEW p \in Phases, NEW n, p # "copied",
         flush' = [flush EXCEPT !.at = n, !.phase = p]
  PROVE  flush' \in Flush' /\ CopyInv'
<1>1. /\ flush'.item = flush.item /\ flush'.at = n /\ flush'.tried = flush.tried
      /\ flush'.phase = p
  BY DEF Flush
<1>2. flush' \in Flush'
  BY <1>1 DEF Flush, Phases
<1> QED
  BY <1>1, <1>2 DEF CopyInv

LEMMA AdvanceGoes ==
  ASSUME flush \in Flush, Advance
  PROVE  flush' \in Flush' /\ CopyInv'
<1>1. CASE flush' = NoFlush(flush.tried)
  BY <1>1, FlushEnds
<1>2. CASE flush' = [flush EXCEPT !.at = @ + 1, !.phase = "read"]
  <2>1. flush' = [flush EXCEPT !.at = flush.at + 1, !.phase = "read"]
    BY <1>2
  <2> QED
    BY <2>1, FlushGoes DEF Phases
<1> QED
  BY <1>1, <1>2 DEF Advance

\* A pass that neither seals nor sends changes only the flush; a copy remembers
\* whether its sources were intact when it was made.
LEMMA PassesKeep ==
  ASSUME FInv,
         \/ \E i \in Items : FlushItem(i)
         \/ PassOver \/ BindSource \/ CopyFiles \/ GiveUp \/ MarkDelivered
  PROVE  FInv'
<1>0. flush \in Flush
  BY DEF FInv, ReceiptTypes
<1>1. UNCHANGED <<row, result, original, request, wire, transport, spoiled>>
  BY DEF FlushItem, PassOver, BindSource, CopyFiles, GiveUp, MarkDelivered, store, receipts,
         closer
<1>2. flush' \in Flush' /\ CopyInv'
  <2>1. ASSUME NEW i \in Items, FlushItem(i)
        PROVE  flush' \in Flush' /\ CopyInv'
    <3>1. flush'.phase = "read" /\ flush'.good = FALSE
          /\ flush' = [item |-> flush'.item, at |-> flush'.at, phase |-> flush'.phase,
                       good |-> flush'.good, tried |-> flush'.tried]
      BY <2>1 DEF FlushItem
    <3> QED
      BY <3>1 DEF Flush, CopyInv
  <2>2. CASE PassOver \/ MarkDelivered
    BY <1>0, <2>2, AdvanceGoes DEF PassOver, MarkDelivered
  <2>3. CASE BindSource
    <3>1. flush' = [flush EXCEPT !.at = flush.at, !.phase = "bound"]
      BY <1>0, <2>3 DEF BindSource, Flush
    <3> QED
      BY <1>0, <3>1, FlushGoes DEF Phases
  <2>4. CASE CopyFiles
    <3>1. flush' = [flush EXCEPT !.phase = "copied", !.good = Intact(flush.at)]
      BY <2>4 DEF CopyFiles
    <3>2. Intact(flush.at) \in BOOLEAN
      BY DEF Intact, ArchiveIntact, NativeIntact
    <3>3. /\ flush'.item = flush.item /\ flush'.at = flush.at /\ flush'.tried = flush.tried
          /\ flush'.phase = "copied" /\ flush'.good = Intact(flush.at)
      BY <1>0, <3>1 DEF Flush
    <3>4. flush' \in Flush'
      BY <1>0, <3>1, <3>2, <3>3 DEF Flush
    <3>5. Intact(flush.at)' = Intact(flush.at)
      BY <1>1, <3>3 DEF Intact, ArchiveIntact, NativeIntact
    <3> QED
      BY <3>3, <3>4, <3>5 DEF CopyInv
  <2>5. CASE GiveUp
    BY <2>5, FlushEnds DEF GiveUp
  <2> QED
    BY <2>1, <2>2, <2>3, <2>4, <2>5
<1> QED
  BY <1>1, <1>2, FlushMoves

\* A package is sealed after its sources were found intact once more.
LEMMA SealPackageKeeps ==
  ASSUME FInv, SealPackage
  PROVE  FInv'
<1> DEFINE t == flush.at
           sealed == [source |-> ArchiveOf(t), status |-> PackageStatus(t), good |-> flush.good]
<1>1. UNCHANGED <<row, result, original, wire, transport, spoiled>>
  BY DEF SealPackage, store, receipts, closer
<1>2. request' = [request EXCEPT ![t] = sealed] /\ request \in [Turns -> Sealed]
  BY DEF FInv, ReceiptTypes, SealPackage
<1>3. flush.good = TRUE
  BY DEF FInv, ReceiptTypes, Flush, CopyInv, SealPackage
<1>4. t \in Turns => sealed \in Sealed /\ sealed.good /\ Scanned(t, sealed)
  <2> SUFFICES ASSUME t \in Turns
               PROVE  sealed \in Sealed /\ sealed.good /\ Scanned(t, sealed)
    OBVIOUS
  <2>1. ArchiveOf(t) \in Nat
    BY DEF ArchiveOf, FInv, ReceiptTypes, SavedResult, Kept
  <2>2. PackageStatus(t) \in {"passed", "needs_review"}
        /\ (PackageStatus(t) = "passed" => <<t, ArchiveOf(t)>> \notin Opaque)
    BY DEF PackageStatus, Cleared
  <2> QED
    BY <1>3, <2>1, <2>2 DEF Sealed, Scanned, PackageStates
<1> HIDE DEF sealed
<1>5. \A u \in Turns : request'[u] = request[u] \/ (u = t /\ request'[u] = sealed)
  BY <1>2
<1>6. request' \in [Turns -> Sealed]
  BY <1>2, <1>4
<1>7. flush' \in Flush' /\ CopyInv'
  <2>1. flush' = [flush EXCEPT !.at = flush.at, !.phase = "read"]
    BY DEF SealPackage, FInv, ReceiptTypes, Flush
  <2> QED
    BY <2>1, FlushGoes DEF FInv, ReceiptTypes, Phases
<1>8. ReceiptTypes'
  BY <1>1, <1>6, <1>7 DEF FInv, ReceiptTypes
<1>9. ScanInv'
  <2>1. \A u \in Turns : Scanned(u, request[u])
    BY DEF FInv, ScanInv
  <2>2. \A u \in Turns : Scanned(u, request'[u])
    BY <1>4, <1>5, <2>1
  <2> QED
    BY <1>1, <2>2 DEF FInv, ScanInv, Scanned
<1>10. SealedAsArchived'
  BY <1>4, <1>5 DEF FInv, SealedAsArchived
<1>11. RegisteredIsSound'
  BY <1>1 DEF FInv, RegisteredIsSound
<1> QED
  BY <1>7, <1>8, <1>9, <1>10, <1>11 DEF FInv

\* A request is sent as it was sealed, so it was scanned.
LEMMA SendPackageKeeps ==
  ASSUME FInv, SendPackage
  PROVE  FInv'
<1> DEFINE t == flush.at
           sent == [turn |-> t, source |-> request[t].source, status |-> request[t].status]
<1>1. UNCHANGED <<row, result, original, request, transport, spoiled>>
      /\ wire' = wire \cup {sent}
  BY DEF SendPackage, store, receipts, closer
<1>2. flush' \in Flush' /\ CopyInv'
  <2>1. flush' = [flush EXCEPT !.at = flush.at, !.phase = "sent"]
    BY DEF SendPackage, FInv, ReceiptTypes, Flush
  <2> QED
    BY <2>1, FlushGoes DEF FInv, ReceiptTypes, Phases
<1>3. sent.turn = t /\ (t \in Turns => Scanned(t, sent))
  BY DEF FInv, ScanInv, Scanned
<1>4. ScanInv'
  <2> HIDE DEF sent
  <2>1. \A m \in wire' : m.turn \in Turns => Scanned(m.turn, m)
    BY <1>1, <1>3 DEF FInv, ScanInv
  <2> QED
    BY <1>1, <2>1 DEF FInv, ScanInv, Scanned
<1>5. ReceiptTypes' /\ RegisteredIsSound' /\ SealedAsArchived'
  BY <1>1, <1>2 DEF FInv, ReceiptTypes, RegisteredIsSound, SealedAsArchived
<1> QED
  BY <1>2, <1>4, <1>5 DEF FInv

\* The store attaches what was scanned to the archive it is of.
LEMMA ReceiveKeeps ==
  ASSUME FInv, NEW m \in wire, NEW answered \in BOOLEAN, Receive(m, answered)
  PROVE  FInv'
<1> DEFINE t == m.turn
           taken == [row[t] EXCEPT !.package = [source |-> m.source, status |-> m.status]]
<1>1. /\ UNCHANGED <<result, original, request, transport, spoiled>>
      /\ wire' = wire \ {m}
      /\ row' = IF Accepts(m) THEN [row EXCEPT ![t] = taken] ELSE row
  BY DEF Receive, receipts, closer
<1>2. row \in [Turns -> Round] /\ flush \in Flush
  BY DEF FInv, ReceiptTypes
<1>3. flush' \in Flush' /\ CopyInv'
  <2>1. \/ flush' = flush
        \/ flush' = [flush EXCEPT !.phase = "acknowledged"]
        \/ flush' = NoFlush(flush.tried \cup {flush.item})
    BY DEF Receive
  <2>2. CASE flush' = flush
    <3>1. Intact(flush.at)' = Intact(flush.at)
      BY <1>1, <2>2 DEF Intact, ArchiveIntact, NativeIntact
    <3> QED
      BY <1>2, <2>2, <3>1 DEF FInv, CopyInv, Flush
  <2>3. CASE flush' = [flush EXCEPT !.phase = "acknowledged"]
    <3>1. flush' = [flush EXCEPT !.at = flush.at, !.phase = "acknowledged"]
      BY <1>2, <2>3 DEF Flush
    <3> QED
      BY <1>2, <3>1, FlushGoes DEF Phases
  <2>4. CASE flush' = NoFlush(flush.tried \cup {flush.item})
    BY <2>4, FlushEnds
  <2> QED
    BY <2>1, <2>2, <2>3, <2>4
<1>4. ASSUME t \in Turns, Accepts(m)
      PROVE  /\ taken \in Round /\ taken.archive = row[t].archive
             /\ taken.package.source = row[t].archive
             /\ taken.package.status = "passed" =>
                  /\ <<t, taken.package.source>> \notin Opaque
                  /\ transport = "original-mac-terminal"
  <2>1. Scanned(t, m) /\ row[t] \in Round
    BY <1>2, <1>4 DEF FInv, ScanInv
  <2>2. m.source = row[t].archive
        /\ (m.status = "passed" => transport = "original-mac-terminal")
    BY <1>4 DEF Accepts
  <2>3. /\ taken \in Round /\ taken.archive = row[t].archive
        /\ taken.package = [source |-> m.source, status |-> m.status]
    BY <2>1 DEF Round, Scanned
  <2> HIDE DEF taken
  <2> QED
    BY <2>1, <2>2, <2>3 DEF Scanned
<1> HIDE DEF taken
<1>5. row' \in [Turns -> Round]
      /\ \A u \in Turns : row'[u] = row[u] \/ (u = t /\ Accepts(m) /\ row'[u] = taken)
  BY <1>1, <1>2, <1>4
<1>6. RegisteredIsSound'
  <2> SUFFICES ASSUME NEW u \in Turns, row'[u].package.status \in {"passed", "needs_review"}
               PROVE  /\ row'[u].package.source = row'[u].archive
                      /\ row'[u].package.status = "passed" =>
                           /\ <<u, row'[u].package.source>> \notin Opaque
                           /\ transport = "original-mac-terminal"
    BY <1>1 DEF RegisteredIsSound
  <2>1. CASE row'[u] = row[u]
    BY <2>1 DEF FInv, RegisteredIsSound
  <2>2. CASE u = t /\ Accepts(m) /\ row'[u] = taken
    BY <1>4, <2>2
  <2> QED
    BY <1>5, <2>1, <2>2
<1>7. ReceiptTypes' /\ ScanInv' /\ SealedAsArchived'
  BY <1>1, <1>3, <1>5 DEF FInv, ReceiptTypes, ScanInv, Scanned, SealedAsArchived
<1> QED
  BY <1>3, <1>6, <1>7 DEF FInv

------------------------------------------------------------------------------
\* Every step of the final submission keeps the invariant.
LEMMA SubmissionStepKeeps == FInv /\ [SubmissionNext]_submissionVars => FInv'
<1> SUFFICES ASSUME FInv, [SubmissionNext]_submissionVars PROVE FInv'
  OBVIOUS
<1>1. ASSUME NEW t \in Turns,
             \/ \E task \in {"validate", "plan", "replan"} : Requeue(t, task)
             \/ SwitchToValidation(t) \/ ClaimRound(t)
      PROVE  FInv'
  BY <1>1, QueueingKeeps
<1>2. ASSUME NEW ok \in BOOLEAN, SaveResult(ok) PROVE FInv'
  BY <1>2, SaveResultKeeps
<1>3. ASSUME NEW next \in NextValues, FinishRound(next) PROVE FInv'
  BY <1>3, FinishRoundKeeps
<1>4. CASE \/ QueueRecovered \/ NextStarts \/ NextEnds
           \/ StartClose \/ CheckPlan \/ LeaveSession \/ RemoveContainer \/ WriteFinalization
           \/ ConfirmFinalization \/ QueueSubmission
           \/ (\E again \in BOOLEAN : CloseFails(again))
           \/ NewRelease \/ SaveBatch \/ Download \/ (\E x \in Spoilable : Spoil(x))
  BY <1>4, SurroundingsKeepSubmission
<1>5. CASE \/ (\E i \in Items : FlushItem(i))
           \/ PassOver \/ BindSource \/ CopyFiles \/ GiveUp \/ MarkDelivered
  BY <1>5, PassesKeep
<1>6. CASE SealPackage
  BY <1>6, SealPackageKeeps
<1>7. CASE SendPackage
  BY <1>7, SendPackageKeeps
<1>8. ASSUME NEW m \in wire, NEW answered \in BOOLEAN, Receive(m, answered) PROVE FInv'
  BY <1>8, ReceiveKeeps
<1>9. CASE Crash
  BY <1>9, CrashKeeps
<1>10. CASE UNCHANGED submissionVars
  BY <1>10, AsideKeeps DEF submissionVars
<1> QED
  BY <1>1, <1>2, <1>3, <1>4, <1>5, <1>6, <1>7, <1>8, <1>9, <1>10 DEF SubmissionNext

\* The inductive invariant of the final submission.
THEOREM SubmissionInductive == SubmissionSpec => []FInv
<1> QED
  BY SubmissionInitHolds, SubmissionStepKeeps, PTL DEF SubmissionSpec

\* The package a record shows is one of the archive the record was scored with;
\* a passed one was cleared by the scanner and left through the original Terminal.
THEOREM PackageOfItsArchive == SubmissionSpec => []RegisteredIsSound
<1>1. FInv => RegisteredIsSound
  BY DEF FInv
<1> QED
  BY <1>1, SubmissionInductive, PTL

\* A sealed package holds the evidence as it was archived and exported, also if
\* the files are damaged between their check and their copying.
THEOREM PackageHoldsEvidence == SubmissionSpec => []SealedAsArchived
<1>1. FInv => SealedAsArchived
  BY DEF FInv
<1> QED
  BY <1>1, SubmissionInductive, PTL

------------------------------------------------------------------------------
\* SoloUpload.

\* What the proofs need to know of the types; the batches are not among it.
LedgerStates == {"none", "prepared", "submitting", "submitted"}

Uploader == [phase : {"idle", "planned", "claimed", "replanned", "working"},
             slot : {uploader.slot}, plan : SUBSET Records, open : Records \cup {None}]

PartTypes ==
  /\ rows \in [Records -> [version : 1..MaxVersion, eligible : BOOLEAN]]
  /\ packets \in [Records -> 0..MaxVersion]
  /\ ledger \in [Records -> [state : LedgerStates, version : 0..MaxVersion, discarded : BOOLEAN]]
  /\ uploader \in Uploader
  /\ remote \in [Records -> Seq(1..MaxVersion)]

\* The platform has at most one submission of a record, of the version that its
\* mark names, and only of a marked record.
RemoteInv ==
  \A r \in Records :
    /\ remote[r] \in {<< >>, <<ledger[r].version>>}
    /\ remote[r] # << >> => ledger[r].state \in {"submitting", "submitted"}
    /\ ledger[r].state = "submitted" => remote[r] # << >>

\* An open form is of a record that is marked and not sent, over a packet that
\* is the marked one, with its earlier rounds confirmed.
OpenInv ==
  uploader.open # None =>
    LET r == uploader.open IN
    /\ uploader.phase = "working"
    /\ ledger[r].state = "submitting" /\ remote[r] = << >>
    /\ packets[r] = ledger[r].version /\ packets[r] # 0
    /\ \A q \in Earlier(r) : Settled(q) /\ ~ledger[q].discarded

UInv == PartTypes /\ RemoteInv /\ OpenInv

-------------------------------------------------------------------------------
LEMMA OneEntry == ASSUME NEW v PROVE Len(<<v>>) = 1
OBVIOUS

LEMMA Bounds ==
  /\ MaxVersion \in Nat \ {0} /\ 1 \in 1..MaxVersion /\ 0 \in 0..MaxVersion
  /\ 1..MaxVersion \subseteq 0..MaxVersion /\ None \notin Records
BY SoloAssumption

LEMMA EarlierIsAnother ==
  ASSUME NEW r \in Records
  PROVE  Earlier(r) \subseteq Records /\ r \notin Earlier(r)
BY SoloAssumption DEF Earlier

LEMMA IdleUploader ==
  ASSUME uploader' = Idle
  PROVE  uploader' \in Uploader' /\ uploader'.open = None
BY DEF Idle, Uploader

LEMMA NextUploader ==
  ASSUME UInv, NEW phase \in {"planned", "claimed", "replanned", "working"}, NEW slot,
         NEW plan \in SUBSET Records,
         uploader' = [phase |-> phase, slot |-> slot, plan |-> plan, open |-> uploader.open]
  PROVE  uploader' \in Uploader' /\ uploader'.open = uploader.open
<1>1. uploader.open \in Records \cup {None}
  BY DEF UInv, PartTypes, Uploader
<1> QED
  BY <1>1 DEF Uploader

\* The invariant holds at the start.
LEMMA InitHolds == Init => UInv
BY Bounds DEF Init, Idle, UInv, PartTypes, Uploader, LedgerStates, RemoteInv, OpenInv

\* Only five steps touch the packets, the ledger or the platform; any other
\* leaves the open form alone or gives it up.
LEMMA OthersKeep ==
  ASSUME UInv, UNCHANGED <<packets, ledger, remote>>,
         rows' \in [Records -> [version : 1..MaxVersion, eligible : BOOLEAN]],
         uploader' \in Uploader',
         uploader'.open = None \/ uploader' = uploader
  PROVE  UInv'
<1>1. PartTypes'
  BY DEF UInv, PartTypes, Uploader
<1>2. RemoteInv'
  BY DEF UInv, RemoteInv
<1>3. OpenInv'
  BY DEF UInv, OpenInv, Settled, Earlier
<1> QED
  BY <1>1, <1>2, <1>3 DEF UInv

LEMMA BatchesKeep ==
  UInv /\ (Claim \/ DropPlan \/ BatchPlan \/ Touch \/ Finish \/ Yield \/ Reconcile) => UInv'
<1> SUFFICES ASSUME UInv, Claim \/ DropPlan \/ BatchPlan \/ Touch \/ Finish \/ Yield
                          \/ Reconcile
             PROVE  UInv'
  OBVIOUS
<1>1. UNCHANGED <<rows, packets, ledger, remote>>
  BY DEF Claim, DropPlan, BatchPlan, Touch, Finish, Yield, Reconcile, End
<1>2. uploader.phase # "working" => uploader.open = None
  BY DEF UInv, OpenInv
<1>3. /\ uploader' \in Uploader'
      /\ uploader'.open = None \/ uploader' = uploader
  <2>1. CASE Claim
    <3>1. \/ uploader' = Idle
          \/ \E phase \in {"working", "claimed"} :
               uploader' = [uploader EXCEPT !.slot = DueSlot, !.phase = phase]
      BY <2>1 DEF Claim
    <3>2. uploader.phase # "working"
      BY <2>1 DEF Claim
    <3>3. ASSUME NEW phase \in {"working", "claimed"},
                 uploader' = [uploader EXCEPT !.slot = DueSlot, !.phase = phase]
          PROVE  uploader' = [phase |-> phase, slot |-> DueSlot, plan |-> uploader.plan,
                              open |-> uploader.open]
      BY <3>3 DEF UInv, PartTypes, Uploader
    <3>4. uploader.plan \in SUBSET Records
      BY DEF UInv, PartTypes, Uploader
    <3>5. ASSUME NEW phase \in {"working", "claimed"},
                 uploader' = [uploader EXCEPT !.slot = DueSlot, !.phase = phase]
          PROVE  uploader' \in Uploader' /\ uploader'.open = uploader.open
      BY <3>3, <3>4, <3>5, NextUploader
    <3> QED
      BY <1>2, <3>1, <3>2, <3>5, IdleUploader
  <2>2. CASE BatchPlan
    <3>1. PICK plan \in SUBSET Records :
            uploader' = [uploader EXCEPT !.phase = "working", !.plan = plan]
      BY <2>2 DEF BatchPlan, UInv, PartTypes, Uploader
    <3>2. uploader.phase # "working"
      BY <2>2 DEF BatchPlan
    <3> QED
      BY <1>2, <3>1, <3>2 DEF UInv, PartTypes, Uploader
  <2>3. CASE Touch
    BY <2>3 DEF Touch, UInv, PartTypes, Uploader
  <2> QED
    BY <2>1, <2>2, <2>3, IdleUploader DEF DropPlan, Finish, Yield, Reconcile, End
<1> QED
  BY <1>1, <1>3, OthersKeep DEF UInv, PartTypes, Uploader

LEMMA SurroundingsKeep ==
  UInv /\ (\/ \E r \in Records : Hold(r) \/ Redeliver(r)
           \/ \E s \in Times : Request(s)
           \/ ApplyRequest \/ LogIn \/ Die \/ RemoveLock \/ Tick) => UInv'
<1> SUFFICES ASSUME UInv, \/ \E r \in Records : Hold(r) \/ Redeliver(r)
                          \/ \E s \in Times : Request(s)
                          \/ ApplyRequest \/ LogIn \/ Die \/ RemoveLock \/ Tick
             PROVE  UInv'
  OBVIOUS
<1>1. UNCHANGED <<packets, ledger, remote>> /\ (uploader' = uploader \/ uploader' = Idle)
  BY DEF Hold, Redeliver, Request, ApplyRequest, LogIn, Die, RemoveLock, Tick
<1>2. rows' \in [Records -> [version : 1..MaxVersion, eligible : BOOLEAN]]
  <2>1. CASE \E r \in Records : Redeliver(r)
    <3>1. PICK r \in Records, eligible \in BOOLEAN :
            /\ rows[r].version < MaxVersion
            /\ rows' = [rows EXCEPT ![r] = [version |-> @.version + 1, eligible |-> eligible]]
      BY <2>1 DEF Redeliver
    <3>2. rows[r].version + 1 \in 1..MaxVersion
      BY <3>1, Bounds DEF UInv, PartTypes, Uploader
    <3> QED
      BY <3>1, <3>2 DEF UInv, PartTypes, Uploader
  <2> QED
    BY <2>1 DEF UInv, PartTypes, Uploader, Hold, Request, ApplyRequest, LogIn, Die, RemoveLock, Tick
<1>3. /\ uploader' \in Uploader'
      /\ uploader'.open = None \/ uploader' = uploader
  BY <1>1 DEF UInv, PartTypes, Uploader, Idle
<1> QED
  BY <1>1, <1>2, <1>3, OthersKeep

\* Nothing that may have been sent is prepared.
LEMMA PrepareKeeps == UInv /\ (Prepare \/ PrepareCut) => UInv'
<1> SUFFICES ASSUME UInv, Prepare \/ PrepareCut PROVE UInv'
  OBVIOUS
<1>1. UNCHANGED <<rows, remote>> /\ uploader.open = None
  BY DEF UInv, OpenInv, Prepare, PrepareCut, MayPrepare
<1>2. PICK done \in SUBSET Preparable :
        /\ packets' = Packed(done)
        /\ \/ /\ ledger' = [r \in Records |-> IF r \in done
                     THEN [state |-> "prepared", version |-> rows[r].version,
                           discarded |-> FALSE]
                     ELSE ledger[r]]
              /\ \E phase \in {"planned", "replanned"} :
                   uploader' = [uploader EXCEPT !.plan = done \cup Doubtful, !.phase = phase]
           \/ ledger' = ledger /\ uploader' = Idle
  BY DEF Prepare, PrepareCut
<1>3. \A r \in done : r \in Records /\ ledger[r].state \notin {"submitting", "submitted"}
  BY DEF Preparable, Settled, InDoubt
<1>4. PartTypes' /\ uploader'.open = None
  <2>1. packets' \in [Records -> 0..MaxVersion]
    BY <1>2, Bounds DEF UInv, PartTypes, Uploader, Packed
  <2>2. ledger' \in [Records -> [state : LedgerStates, version : 0..MaxVersion,
                                 discarded : BOOLEAN]]
    <3>1. \A r \in Records : [state |-> "prepared", version |-> rows[r].version,
                               discarded |-> FALSE]
            \in [state : LedgerStates, version : 0..MaxVersion, discarded : BOOLEAN]
      BY Bounds DEF UInv, PartTypes, LedgerStates
    <3>2. ledger \in [Records -> [state : LedgerStates, version : 0..MaxVersion,
                                  discarded : BOOLEAN]]
      BY DEF UInv, PartTypes
    <3> DEFINE Entry == [state : LedgerStates, version : 0..MaxVersion, discarded : BOOLEAN]
               entry(r) == [state |-> "prepared", version |-> rows[r].version,
                            discarded |-> FALSE]
    <3>3. (\A r \in Records : entry(r) \in Entry) /\ ledger \in [Records -> Entry]
      BY <3>1, <3>2
    <3>4. \/ ledger' = [r \in Records |-> IF r \in done THEN entry(r) ELSE ledger[r]]
          \/ ledger' = ledger
      BY <1>2
    <3> HIDE DEF Entry, entry
    <3>5. ledger' \in [Records -> Entry]
      BY <3>3, <3>4
    <3> QED
      BY <3>5 DEF Entry
  <2>3. uploader' \in Uploader' /\ uploader'.open = None
    <3>1. done \cup Doubtful \in SUBSET Records
      BY <1>3 DEF Doubtful
    <3>2. ASSUME NEW phase \in {"planned", "replanned"},
                 uploader' = [uploader EXCEPT !.plan = done \cup Doubtful, !.phase = phase]
          PROVE  uploader' = [phase |-> phase, slot |-> uploader.slot,
                              plan |-> done \cup Doubtful, open |-> uploader.open]
      BY <3>2 DEF UInv, PartTypes, Uploader
    <3>3. ASSUME NEW phase \in {"planned", "replanned"},
                 uploader' = [uploader EXCEPT !.plan = done \cup Doubtful, !.phase = phase]
          PROVE  uploader' \in Uploader' /\ uploader'.open = uploader.open
      BY <3>1, <3>2, <3>3, NextUploader
    <3> QED
      BY <1>1, <1>2, <3>3, IdleUploader
  <2> QED
    BY <1>1, <2>1, <2>2, <2>3 DEF UInv, PartTypes, Uploader
<1>5. RemoteInv'
  BY <1>1, <1>2, <1>3 DEF UInv, RemoteInv
<1>6. OpenInv'
  BY <1>4 DEF OpenInv
<1> QED
  BY <1>4, <1>5, <1>6 DEF UInv

LEMMA MarkKeeps == ASSUME UInv, NEW r \in Records, MarkSending(r) PROVE UInv'
<1>1. /\ UNCHANGED <<rows, packets, remote>>
      /\ ledger' = [ledger EXCEPT ![r].state = "submitting"]
      /\ uploader' = [uploader EXCEPT !.open = r]
      /\ ledger[r].state = "prepared" /\ uploader.phase = "working"
      /\ packets[r] = ledger[r].version /\ packets[r] = rows[r].version
  BY DEF MarkSending
<1>2. \A q \in Records :
        /\ ledger'[q].version = ledger[q].version
        /\ ledger'[q].discarded = ledger[q].discarded
        /\ ledger'[q].state = IF q = r THEN "submitting" ELSE ledger[q].state
  BY <1>1 DEF UInv, PartTypes, Uploader
<1>3. PartTypes'
  <2>1. ledger' \in [Records -> [state : LedgerStates, version : 0..MaxVersion,
                                 discarded : BOOLEAN]]
    BY <1>1 DEF UInv, PartTypes, Uploader, LedgerStates
  <2> QED
    BY <1>1, <2>1 DEF UInv, PartTypes, Uploader
<1>4. RemoteInv'
  BY <1>1, <1>2 DEF UInv, RemoteInv
<1>5. OpenInv'
  <2>1. uploader'.open = r /\ uploader'.phase = "working"
    BY <1>1 DEF UInv, PartTypes, Uploader
  <2>2. packets[r] # 0 /\ remote[r] = << >>
    BY <1>1 DEF UInv, PartTypes, Uploader, RemoteInv
  <2>3. \A q \in Earlier(r) : Settled(q)' /\ ~ledger'[q].discarded
    BY <1>2, EarlierIsAnother DEF MarkSending, Confirmed, Settled
  <2>4. Earlier(r)' = Earlier(r)
    BY DEF Earlier
  <2> QED
    BY <1>1, <1>2, <2>1, <2>2, <2>3, <2>4 DEF OpenInv
<1> QED
  BY <1>3, <1>4, <1>5 DEF UInv

LEMMA ClickKeeps == UInv /\ Click => UInv'
<1> SUFFICES ASSUME UInv, Click PROVE UInv'
  OBVIOUS
<1> DEFINE r == uploader.open
<1>1. /\ r \in Records /\ remote[r] = << >> /\ packets[r] = ledger[r].version
      /\ packets[r] # 0 /\ ledger[r].state = "submitting"
  BY DEF Click, UInv, PartTypes, Uploader, OpenInv
<1>2. Append(remote[r], packets[r]) = <<ledger[r].version>>
  BY <1>1
<1>3. /\ UNCHANGED <<rows, packets, ledger>>
      /\ remote' = [remote EXCEPT ![r] = <<ledger[r].version>>]
      /\ uploader' = [uploader EXCEPT !.open = None]
  BY <1>2 DEF Click
<1>4. <<ledger[r].version>> \in Seq(1..MaxVersion)
  <2>1. ledger[r].version \in 1..MaxVersion
    BY <1>1, Bounds DEF UInv, PartTypes, Uploader
  <2> QED
    BY <2>1
<1>5. PartTypes'
  BY <1>1, <1>3, <1>4 DEF UInv, PartTypes, Uploader
<1>6. RemoteInv'
  BY <1>1, <1>3 DEF UInv, PartTypes, Uploader, RemoteInv
<1>7. OpenInv'
  BY <1>3 DEF UInv, PartTypes, Uploader, OpenInv
<1> QED
  BY <1>5, <1>6, <1>7 DEF UInv

LEMMA ReceiptKeeps == ASSUME UInv, NEW r \in Records, Receipt(r) PROVE UInv'
<1>1. PICK discarded \in BOOLEAN :
        ledger' = [ledger EXCEPT ![r].state = "submitted", ![r].discarded = discarded]
  BY DEF Receipt
<1>2. UNCHANGED <<rows, packets, remote, uploader>> /\ uploader.open = None
      /\ remote[r] # << >>
  BY DEF Receipt
<1>3. /\ ledger' \in [Records -> [state : LedgerStates, version : 0..MaxVersion,
                                  discarded : BOOLEAN]]
      /\ \A q \in Records :
           /\ ledger'[q].version = ledger[q].version
           /\ ledger'[q].state = IF q = r THEN "submitted" ELSE ledger[q].state
  BY <1>1 DEF UInv, PartTypes, Uploader, LedgerStates
<1> QED
  BY <1>2, <1>3 DEF UInv, PartTypes, Uploader, RemoteInv, OpenInv

LEMMA StepKeeps == UInv /\ [Next]_vars => UInv'
<1> SUFFICES ASSUME UInv, [Next]_vars PROVE UInv'
  OBVIOUS
<1>1. CASE UNCHANGED vars
  BY <1>1, OthersKeep DEF UInv, PartTypes, Uploader, vars
<1>2. CASE Next
  BY <1>2, BatchesKeep, SurroundingsKeep, PrepareKeeps, MarkKeeps, ClickKeeps, ReceiptKeeps
     DEF Next
<1> QED
  BY <1>1, <1>2

\* The inductive invariant behind the two results below.
THEOREM UploadInductive == Spec => []UInv
BY InitHolds, StepKeeps, PTL DEF Spec

\* Whatever dies between mark, click and receipt, no record is submitted twice.
THEOREM NeverSubmittedTwice == Spec => []SubmittedOnce
<1>1. UInv => SubmittedOnce
  <2> SUFFICES ASSUME UInv, NEW r \in Records PROVE Len(remote[r]) <= 1
    BY DEF SubmittedOnce
  <2>1. remote[r] = << >> \/ remote[r] = <<ledger[r].version>>
    BY DEF UInv, RemoteInv
  <2>2. Len(<< >>) <= 1 /\ Len(<<ledger[r].version>>) <= 1
    BY OneEntry
  <2> QED
    BY <2>1, <2>2
<1> QED
  BY <1>1, UploadInductive, PTL

\* What a form may be open over is marked, so that it cannot be forbidden.
OpenNotHeld == uploader.open # None => uploader.open \notin holds

LEMMA OpenStaysAllowed == UInv /\ OpenNotHeld /\ [Next]_vars => OpenNotHeld'
<1> SUFFICES ASSUME UInv, OpenNotHeld, [Next]_vars PROVE OpenNotHeld'
  OBVIOUS
<1>1. ASSUME NEW r \in Records, Hold(r) PROVE OpenNotHeld'
  <2>1. uploader' = uploader /\ holds' = holds \cup {r} /\ ~InDoubt(r)
    BY <1>1 DEF Hold, MayHold
  <2>2. uploader.open # None => uploader.open # r
    BY <2>1 DEF UInv, OpenInv, InDoubt
  <2> QED
    BY <2>1, <2>2 DEF OpenNotHeld
<1>2. ASSUME NEW r \in Records, MarkSending(r) PROVE OpenNotHeld'
  <2>1. uploader'.open = r
    BY <1>2 DEF MarkSending, UInv, PartTypes, Uploader
  <2> QED
    BY <1>2, <2>1 DEF MarkSending, OpenNotHeld
<1>3. ASSUME UNCHANGED holds, uploader'.open \in {None, uploader.open} PROVE OpenNotHeld'
  BY <1>3 DEF OpenNotHeld
<1>4. CASE Prepare \/ PrepareCut \/ BatchPlan \/ Claim
  <2>1. UNCHANGED holds
    BY <1>4 DEF Prepare, PrepareCut, BatchPlan, Claim
  <2>2. uploader'.open \in {None, uploader.open}
    <3>1. CASE Prepare
      <4>1. \E plan, phase : uploader' = [uploader EXCEPT !.plan = plan, !.phase = phase]
        BY <3>1 DEF Prepare
      <4> QED
        BY <4>1 DEF UInv, PartTypes, Uploader
    <3>2. CASE PrepareCut
      BY <3>2 DEF PrepareCut, Idle
    <3>3. CASE BatchPlan
      <4>1. \E plan : uploader' = [uploader EXCEPT !.phase = "working", !.plan = plan]
        BY <3>3 DEF BatchPlan
      <4> QED
        BY <4>1 DEF UInv, PartTypes, Uploader
    <3>4. CASE Claim
      <4>1. \/ uploader' = Idle
            \/ \E slot, phase : uploader' = [uploader EXCEPT !.slot = slot, !.phase = phase]
        BY <3>4 DEF Claim
      <4>2. CASE uploader' = Idle
        BY <4>2 DEF Idle
      <4>3. CASE \E slot, phase : uploader' = [uploader EXCEPT !.slot = slot, !.phase = phase]
        BY <4>3 DEF UInv, PartTypes, Uploader
      <4> QED
        BY <4>1, <4>2, <4>3
    <3> QED
      BY <1>4, <3>1, <3>2, <3>3, <3>4
  <2> QED
    BY <2>1, <2>2, <1>3
<1>5. CASE Click
  <2>1. UNCHANGED holds /\ uploader'.open = None
    BY <1>5 DEF Click, UInv, PartTypes, Uploader
  <2> QED
    BY <2>1, <1>3
<1>6. CASE DropPlan \/ Touch \/ Finish \/ Yield \/ Reconcile \/ Die
  <2>1. UNCHANGED holds /\ (uploader' = Idle \/ uploader' = uploader)
    BY <1>6 DEF DropPlan, Touch, Finish, Yield, Reconcile, End, Die
  <2> QED
    BY <2>1, <1>3 DEF Idle
<1>7. CASE \/ \E r \in Records : Receipt(r) \/ Redeliver(r)
           \/ \E s \in Times : Request(s)
           \/ ApplyRequest \/ LogIn \/ RemoveLock \/ Tick \/ UNCHANGED vars
  <2>1. UNCHANGED <<holds, uploader>>
    BY <1>7 DEF Receipt, Redeliver, Request, ApplyRequest, LogIn, RemoveLock, Tick, vars
  <2> QED
    BY <2>1, <1>3
<1> QED
  BY <1>1, <1>2, <1>4, <1>5, <1>6, <1>7 DEF Next

\* A record is submitted only while the user has not forbidden it, wherever its
\* batch stands, and behind its session's earlier rounds, each as its receipt has it
\* (solo-upload-holds.mjs:51-70, solo-ui-queue.mjs:242-302).
THEOREM SubmittedInOrder == Spec => SubmittedAsAllowed
<1> DEFINE Allowed ==
      \A r \in Records : remote'[r] # remote[r] =>
        /\ r \notin holds
        /\ \A q \in Earlier(r) : /\ Settled(q) /\ ~ledger[q].discarded
                                /\ remote[q] = <<ledger[q].version>>
<1>1. Init => OpenNotHeld
  BY DEF Init, Idle, OpenNotHeld
<1>2. Spec => [](UInv /\ OpenNotHeld)
  BY <1>1, InitHolds, StepKeeps, OpenStaysAllowed, PTL DEF Spec
<1>3. UInv /\ OpenNotHeld /\ [Next]_vars => [Allowed]_vars
  <2> SUFFICES ASSUME UInv, OpenNotHeld, Next, NEW r \in Records, remote'[r] # remote[r]
               PROVE  /\ r \notin holds
                      /\ \A q \in Earlier(r) : /\ Settled(q) /\ ~ledger[q].discarded
                                              /\ remote[q] = <<ledger[q].version>>
    BY DEF vars
  <2>1. Click
    BY DEF Next, Prepare, PrepareCut, Claim, DropPlan, BatchPlan, Touch, Finish, Yield,
       Reconcile, End, MarkSending, Receipt, Hold, Redeliver, Request, ApplyRequest, LogIn,
       Die, RemoveLock, Tick
  <2>2. r = uploader.open
    BY <2>1 DEF Click, UInv, PartTypes, Uploader
  <2>3. r \notin holds
    BY <2>1, <2>2 DEF Click, OpenNotHeld
  <2>4. ASSUME NEW q \in Earlier(r)
        PROVE  /\ Settled(q) /\ ~ledger[q].discarded
               /\ remote[q] = <<ledger[q].version>>
    <3>1. Settled(q) /\ ~ledger[q].discarded
      BY <2>1, <2>2 DEF Click, UInv, OpenInv
    <3>2. q \in Records
      BY EarlierIsAnother
    <3> QED
      BY <3>1, <3>2 DEF UInv, RemoteInv, Settled
  <2> QED
    BY <2>3, <2>4
<1> HIDE DEF Allowed
<1>4. Spec => [][Allowed]_vars
  BY <1>2, <1>3, PTL DEF Spec
<1> QED
  BY <1>4 DEF SubmittedAsAllowed, Allowed
==============================================================================
