---------------------------- MODULE JobPipeline ----------------------------
(***************************************************************************)
(* What one turn's job goes through, attempt after attempt: the question   *)
(* is prepared, audited and sent to Claude once; the product is verified,  *)
(* scored and checked for delivery; the result is archived.  Everything    *)
(* finished is kept in the turn's cache file, so that the next attempt     *)
(* goes on from there, after a failure, a crash or an upgrade.             *)
(* Code: scripts/job-executor.mjs, with stage-checkpoint.mjs,              *)
(* submitted-policy.mjs, score-retry-context.mjs, snapshot-resume.mjs and  *)
(* what containers.execute (docker-runtime.mjs) keeps of the interaction.  *)
(* How a score comes about is in Scoring.                                  *)
(***************************************************************************)
EXTENDS Scoring

CONSTANTS
  MaxAttempts,    \* bound: passes through the executor, restarts for a revision included
  MaxReleases,    \* bound: releases of the executor, with their rules and contracts
  MaxSuites       \* bound: sets of regression checks the question's earlier turns bring

ASSUME PipelineAssumption ==
  /\ MaxAttempts \in Nat \ {0} /\ MaxReleases \in Nat \ {0} /\ MaxSuites \in Nat \ {0}
  /\ None \notin Nat \cup {"good", "bad", "captured", "failed", "reserved", "sent"}

VARIABLES
  release,        \* the executor's rules and contracts
  suite,          \* the regression checks of the question's earlier turns
  source,         \* the code in the workspace: 0 before the question, 1 Claude's
  cache,          \* the cache file of the turn
  box,            \* the container's record, and what happened in its terminal
  job,            \* the running attempt, or None
  refused,        \* the score whose delivery the last receipt refused, and when, or None
  published,      \* the label of the published initial code, or None
  rejected,       \* an audit on disk, later than the answer, rejects the question
  disputed,       \* ... and was made when the answer was already in the cache
  attempts        \* passes through the executor so far

vars == <<release, suite, source, cache, box, job, refused, published, rejected, disputed, attempts,
          scoreCheckpoints>>
world == <<release, suite, scoreCheckpoints>>

Prompts == 1 .. MaxAttempts

EmptyCache ==
  [version |-> 1, prepare |-> None, revised |-> FALSE, policy |-> None, dispute |-> FALSE,
   snapshot |-> None, claude |-> None, runtime |-> None, score |-> None, delivery |-> None,
   next |-> FALSE, completed |-> None]

\* pending: the reservation and its phase; typed and answer: what the terminal
\* and the native trace hold; result: what the record keeps of the answer.
EmptyBox ==
  [status |-> "none", pending |-> None, phase |-> None,
   typed |-> None, answer |-> None, result |-> None]

Init ==
  /\ release = 1 /\ suite = 1 /\ source = 0
  /\ cache = EmptyCache /\ box = EmptyBox
  /\ job = None /\ refused = None /\ published = None
  /\ rejected = FALSE /\ disputed = FALSE
  /\ attempts = 0
  /\ scoringInit

(***************************************************************************)
(* The cache of stages.                                                    *)
(***************************************************************************)
\* Claude's call succeeded: with its job, or collected from a stopped container.
Succeeded(c) == c.claude \in {"good", "captured"}

\* The question was sent, as far as the cache and the container's record tell.
PreservedByResult == cache.claude # None
Preserved == cache.claude # None \/ box.pending # None

\* What an attempt makes of the cache it reads: drafts of older rules go,
\* the question of an interaction stays.
Upgraded(preserve) ==
  IF cache.version = release THEN cache
  ELSE [cache EXCEPT !.version = release,
                     !.prepare = IF preserve THEN @ ELSE None,
                     !.score = None, !.delivery = None, !.next = FALSE]

\* A stage is reused only for the inputs it was made from.
Restored(saved, key) == saved # None /\ saved.key = key

PolicyKey ==
  LET m == job.mem IN
  [release |-> release, prompt |-> m.prepare,
   source |-> IF job.preserve /\ m.policy # None THEN m.policy.key.source ELSE source]

ScoreKeyWithoutRuntime ==
  [release |-> release, prompt |-> job.mem.prepare, source |-> source,
   runtime |-> None, advised |-> job.advised, dispute |-> job.mem.dispute]

ScoreKey ==
  [release |-> release, prompt |-> job.mem.prepare, source |-> source,
   runtime |-> job.mem.runtime, advised |-> job.advised, dispute |-> job.mem.dispute]

DeliveryKey == [release |-> release, score |-> job.mem.score]

(***************************************************************************)
(* An attempt begins and ends.                                             *)
(***************************************************************************)
\* The job goes on at pc with m as its copy of the cache, not yet written ...
At(pc, m) == job' = [job EXCEPT !.pc = pc, !.mem = m] /\ UNCHANGED cache

\* ... or written.
Persist(pc, m) == job' = [job EXCEPT !.pc = pc, !.mem = m] /\ cache' = m

\* The attempt fails: its receipt replaces the previous one.
Fails == job' = None /\ refused' = None

In(pc) == job # None /\ job.pc = pc

Start(preserve) ==
  LET m == Upgraded(preserve) IN
  /\ cache' = m
  /\ job' = [pc |-> "collect", mem |-> m, preserve |-> preserve, reconsidered |-> FALSE,
              advised |-> None, review |-> None]

\* An attempt needs the preparation of a question that was sent, and the
\* answer to one in dispute; a retry of the later stages needs the answer.
Begin ==
  /\ job = None /\ cache.completed = None /\ attempts < MaxAttempts
  /\ attempts' = attempts + 1
  /\ cache.dispute => Succeeded(cache)
  /\ Preserved => cache.prepare # None
  /\ Start(Preserved)
  /\ UNCHANGED <<world, source, box, refused, published, rejected, disputed>>

BeginPlan ==
  /\ job = None /\ cache.completed # None /\ attempts < MaxAttempts
  /\ attempts' = attempts + 1
  /\ Preserved => cache.prepare # None
  /\ cache' = Upgraded(Preserved)
  /\ job' = [pc |-> "plan", mem |-> cache', preserve |-> Preserved,
             reconsidered |-> FALSE, advised |-> None, review |-> None]
  /\ UNCHANGED <<world, source, box, refused, published, rejected, disputed>>

\* Any stage may fail, be refused by the store, or meet a stopping runner; a
\* call that fails returns its failure (KeepClaude).
StageFails ==
  /\ job # None /\ job.pc # "call"
  /\ Fails
  /\ UNCHANGED <<world, source, cache, box, published, rejected, disputed, attempts>>

Crash ==
  /\ job # None
  /\ job' = None
  /\ UNCHANGED <<world, source, cache, box, refused, published, rejected, disputed, attempts>>

(***************************************************************************)
(* The interaction's container.                                            *)
(***************************************************************************)
\* A completion nobody kept is taken from the stopped container's record ...
CollectAnswer ==
  /\ In("collect") /\ ~ Succeeded(job.mem)
  /\ box.status = "stopped" /\ box.result = "captured"
  /\ Persist("prepare", [job.mem EXCEPT !.claude = "captured"])
  /\ UNCHANGED <<world, source, box, refused, published, rejected, disputed, attempts>>

\* ... or from its trace, if the question prepared is the one sent.
CaptureStopped ==
  /\ In("collect") /\ ~ Succeeded(job.mem)
  /\ box.status = "stopped" /\ box.result # "captured"
  /\ box.phase = "sent" /\ box.pending = job.mem.prepare
  /\ box.answer # None
  /\ LET kept == IF box.answer = "good" THEN "captured" ELSE "failed" IN
       /\ box' = [box EXCEPT !.result = IF kept = "captured" THEN kept ELSE box.answer,
                             !.pending = None, !.phase = None]
       /\ job' = [job EXCEPT !.pc = "captured"]
  /\ UNCHANGED <<world, source, cache, refused, published, rejected, disputed, attempts>>

\* What was captured is written to the cache; a failed call ends the attempt.
KeepCaptured ==
  /\ In("captured")
  /\ \/ /\ box.result = "captured"
        /\ Persist("prepare", [job.mem EXCEPT !.claude = "captured"])
        /\ UNCHANGED refused
     \/ /\ box.result # "captured"
        /\ cache' = [job.mem EXCEPT !.claude = "failed"]
        /\ Fails
  /\ UNCHANGED <<world, source, box, published, rejected, disputed, attempts>>

\* The question's container runs, is made, or has stopped and refuses.
EnsureContainer ==
  /\ In("collect")
  /\ \/ Succeeded(job.mem) /\ UNCHANGED box
     \/ ~ Succeeded(job.mem) /\ box.status = "running" /\ UNCHANGED box
     \/ ~ Succeeded(job.mem) /\ box.status = "none" /\ box' = [box EXCEPT !.status = "running"]
  /\ At("prepare", job.mem)
  /\ UNCHANGED <<world, source, refused, published, rejected, disputed, attempts>>

\* The container exits by itself.
Stop ==
  /\ box.status = "running"
  /\ box' = [box EXCEPT !.status = "stopped"]
  /\ UNCHANGED <<world, source, cache, job, refused, published, rejected, disputed, attempts>>

(***************************************************************************)
(* The question: prepared and audited.                                     *)
(***************************************************************************)
Prepare ==
  /\ In("prepare")
  /\ LET m == job.mem IN
     Persist("audit", [m EXCEPT !.prepare = IF m.prepare # None THEN m.prepare ELSE attempts])
  /\ UNCHANGED <<world, source, box, refused, published, rejected, disputed, attempts>>

\* A question is in dispute once an audit later than its answer rejects it.
InDisputeAsCached == Succeeded(job.mem) /\ job.mem.dispute
InDispute == Succeeded(job.mem) /\ (job.mem.dispute \/ rejected)

\* The dispute is recorded against the audit that let the question be sent.
RecordDispute ==
  /\ In("audit") /\ InDispute
  /\ job.mem.policy # None /\ job.mem.policy.key.source = 0
  /\ Persist("snapshot", [job.mem EXCEPT !.dispute = TRUE])
  /\ UNCHANGED <<world, source, box, refused, published, rejected, disputed, attempts>>

PolicyRestored ==
  /\ In("audit") /\ ~ InDispute
  /\ Restored(job.mem.policy, PolicyKey)
  /\ Persist("snapshot", job.mem)
  /\ UNCHANGED <<world, source, box, refused, published, rejected, disputed, attempts>>

PolicyAccepted ==
  /\ In("audit") /\ ~ InDispute
  /\ ~ Restored(job.mem.policy, PolicyKey)
  /\ Persist("snapshot", [job.mem EXCEPT !.policy = [key |-> PolicyKey]])
  /\ UNCHANGED <<world, source, box, refused, published, rejected, disputed, attempts>>

\* The wording of a question not sent yet is revised once.
RevisionAllowed == ~ job.preserve /\ ~ job.mem.revised /\ job.mem.claude = None

PolicyRejected ==
  /\ In("audit") /\ ~ InDispute
  /\ ~ Restored(job.mem.policy, PolicyKey)
  /\ rejected' = (rejected \/ box.result # None)
  /\ disputed' = (disputed \/ Succeeded(job.mem))
  /\ \/ /\ RevisionAllowed /\ attempts < MaxAttempts
        /\ LET m == [job.mem EXCEPT !.revised = TRUE, !.prepare = None, !.policy = None] IN
             /\ cache' = m
             /\ job' = [pc |-> "collect", mem |-> m, preserve |-> FALSE,
                        reconsidered |-> FALSE, advised |-> None, review |-> None]
        /\ attempts' = attempts + 1
        /\ UNCHANGED refused
     \/ Fails /\ UNCHANGED <<cache, attempts>>
  /\ UNCHANGED <<world, source, box, published>>

(***************************************************************************)
(* The initial code, and the call of Claude.                               *)
(***************************************************************************)
AlreadySent ==
  Succeeded(job.mem) \/ box.result # None \/ (box.pending # None /\ box.phase = "sent")

\* The environment of a question that was sent is its first snapshot; a new
\* one is checked as it is.
TakeSnapshot ==
  /\ In("snapshot")
  /\ box.status = "running" \/ job.mem.claude = "captured"
  /\ AlreadySent => job.mem.snapshot # None
  /\ Persist("publish",
       [job.mem EXCEPT !.snapshot = IF AlreadySent THEN job.mem.snapshot ELSE source])
  /\ UNCHANGED <<world, source, box, refused, published, rejected, disputed, attempts>>

PublishInitialCode ==
  /\ In("publish")
  /\ published' = IF published # None THEN published
                  ELSE IF AlreadySent THEN "backfill" ELSE "before-run"
  /\ \/ At(IF Succeeded(job.mem) THEN "verify" ELSE "call", job.mem) /\ UNCHANGED refused
     \/ Fails /\ UNCHANGED cache
  /\ UNCHANGED <<world, source, box, rejected, disputed, attempts>>

\* The call is reserved, typed once its reservation stands, and watched.
Reserve ==
  /\ In("call") /\ box.status = "running"
  /\ box.result = None /\ box.pending = None
  /\ box' = [box EXCEPT !.pending = job.mem.prepare, !.phase = "reserved"]
  /\ UNCHANGED <<world, source, cache, job, refused, published, rejected, disputed, attempts>>

TypePrompt ==
  /\ In("call") /\ box.status = "running"
  /\ box.result = None /\ box.pending = job.mem.prepare /\ box.phase = "reserved"
  /\ box' = [box EXCEPT !.phase = "sent", !.typed = job.mem.prepare]
  /\ source' = 1
  /\ UNCHANGED <<world, cache, job, refused, published, rejected, disputed, attempts>>

\* Claude ends the turn, whether or not anyone watches.
Answer ==
  /\ box.status = "running" /\ box.typed # None /\ box.answer = None
  /\ \E a \in {"good", "bad"} : box' = [box EXCEPT !.answer = a]
  /\ UNCHANGED <<world, source, cache, job, refused, published, rejected, disputed, attempts>>

\* The container's record takes the answer and forgets the reservation.
SaveResult ==
  /\ In("call") /\ box.status = "running"
  /\ box.phase = "sent" /\ box.pending = job.mem.prepare /\ box.answer # None
  /\ box' = [box EXCEPT !.result = box.answer, !.pending = None, !.phase = None]
  /\ UNCHANGED <<world, source, cache, job, refused, published, rejected, disputed, attempts>>

\* What the call returned is written to the cache, a failure too.
KeepClaude ==
  /\ In("call")
  /\ \/ /\ box.result = "good"
        /\ Persist("verify", [job.mem EXCEPT !.claude = "good"])
        /\ UNCHANGED refused
     \/ /\ box.result # "good"
        /\ cache' = [job.mem EXCEPT !.claude = "failed"]
        /\ Fails
  /\ UNCHANGED <<world, source, box, published, rejected, disputed, attempts>>

(***************************************************************************)
(* The product: verified, scored, checked for delivery, archived.          *)
(***************************************************************************)
RuntimeKey == [suite |-> suite, prompt |-> job.mem.prepare, source |-> source]

\* A report stands for the inputs it was made from.  One of an earlier release
\* does while that release is there to prove it.
Stands(report) == Restored(report, RuntimeKey)
CurrentReport(report) == Stands(report) /\ report.release = release

\* The last receipt refused the delivery of this very score.  A score whose last
\* call was a patch is not recognised: its output file holds the patch alone.
RefusedScore(score) == refused # None /\ refused.score = score /\ ~ score.patched

\* It is reconsidered while its own report still stands for this release.
Reconsidered ==
  LET m == job.mem IN
  /\ m.score # None /\ RefusedScore(m.score)
  /\ m.runtime = m.score.runtime /\ m.runtime.release = release
  /\ m.runtime.key.prompt = m.prepare /\ m.runtime.key.source = source

WithoutScore(m) == [m EXCEPT !.score = None, !.delivery = None]

\* A refused score is dropped; its refusal advises the next one if the same
\* report still stands, which it does not for a question in dispute.
Verify ==
  /\ In("verify")
  /\ LET m == [IF Reconsidered THEN WithoutScore(job.mem) ELSE job.mem EXCEPT !.next = FALSE] IN
     \E reused \in BOOLEAN :
       /\ reused => ~ m.dispute /\ Stands(m.runtime)
       /\ ~ reused => m.dispute \/ ~ CurrentReport(m.runtime)
       /\ job' = [job EXCEPT !.pc = "score", !.reconsidered = Reconsidered,
                             !.advised = IF Reconsidered /\ reused THEN refused.by ELSE None,
                             !.mem = [m EXCEPT !.runtime =
                                        IF reused THEN @
                                        ELSE [key |-> RuntimeKey, release |-> release, by |-> attempts]]]
       /\ cache' = job'.mem
  /\ UNCHANGED <<world, source, box, refused, published, rejected, disputed, attempts>>

\* A verification that could not be carried out is kept as such.
VerifyBlocked ==
  /\ In("verify")
  /\ job.mem.dispute \/ ~ CurrentReport(job.mem.runtime)
  /\ cache' = [IF Reconsidered THEN WithoutScore(job.mem) ELSE job.mem
                 EXCEPT !.next = FALSE, !.runtime = None]
  /\ Fails
  /\ UNCHANGED <<world, source, box, published, rejected, disputed, attempts>>

ScoreRestored ==
  /\ In("score") /\ Restored(job.mem.score, ScoreKey)
  /\ Persist("deliver", job.mem)
  /\ UNCHANGED <<world, source, box, refused, published, rejected, disputed, attempts>>

StartScore ==
  /\ In("score") /\ ~ Restored(job.mem.score, ScoreKey)
  /\ job' = [job EXCEPT !.pc = "rate", !.review = FirstCall, !.mem.score = None]
  /\ UNCHANGED <<world, source, cache, box, refused, published, rejected, disputed, attempts>>

RateScore ==
  /\ In("rate") /\ job.review.step \notin Ends
  /\ \E a \in AnswersTo(ScoreKey, job.review) :
       /\ Rates(ScoreKey, job.review, a)
       /\ job' = [job EXCEPT !.review = Rated(job.review, a)]
  /\ UNCHANGED <<release, suite, source, cache, box, refused, published, rejected, disputed, attempts>>

\* A rating without a flaw is kept; one that ended in a throw fails (StageFails).
Score ==
  /\ In("rate") /\ job.review.step = "done"
  /\ LET answer == job.review.answer
         score == [key |-> ScoreKey, runtime |-> job.mem.runtime,
                   rating |-> answer.rating, patched |-> answer.patched]
     IN /\ cache' = [job.mem EXCEPT !.score = score]
        /\ job' = [job EXCEPT !.pc = "deliver", !.review = None, !.mem = cache']
  /\ UNCHANGED <<world, source, box, refused, published, rejected, disputed, attempts>>

\* A score whose evidence cannot be found again is dropped with its delivery.
ScoreUnfounded ==
  /\ In("score") /\ Restored(job.mem.score, ScoreKey)
  /\ cache' = WithoutScore(job.mem)
  /\ Fails
  /\ UNCHANGED <<world, source, box, published, rejected, disputed, attempts>>

\* What may be delivered: nothing of a question in dispute.
Deliverable == ~ job.mem.dispute

Delivered ==
  LET m == job.mem IN
  IF Restored(m.delivery, DeliveryKey) THEN m.delivery
  ELSE [key |-> DeliveryKey, score |-> m.score]

Deliver ==
  /\ In("deliver") /\ Deliverable
  /\ Persist("archive", [job.mem EXCEPT !.delivery = Delivered])
  /\ UNCHANGED <<world, source, box, refused, published, rejected, disputed, attempts>>

\* The check refuses, or passes a question in dispute: the receipt says so.
RefuseDelivery ==
  /\ In("deliver")
  /\ ~ Restored(job.mem.delivery, DeliveryKey)
  /\ job' = None
  /\ refused' = [score |-> job.mem.score, by |-> attempts]
  /\ UNCHANGED <<world, source, cache, box, published, rejected, disputed, attempts>>

EndDisputed ==
  /\ In("deliver") /\ ~ Deliverable
  /\ Fails
  /\ UNCHANGED <<world, source, cache, box, published, rejected, disputed, attempts>>

Archive ==
  /\ In("archive")
  /\ LET m == job.mem
         result == [prompt |-> m.prepare, source |-> source, snapshot |-> m.snapshot,
                    runtime |-> m.runtime, score |-> m.score, delivery |-> m.delivery]
     IN Persist("plan", [m EXCEPT !.completed = result])
  /\ UNCHANGED <<world, source, box, refused, published, rejected, disputed, attempts>>

\* The next question is planned, or why it could not be is noted.
Plan ==
  /\ In("plan")
  /\ \E planned \in BOOLEAN : cache' = [job.mem EXCEPT !.next = planned]
  /\ Fails
  /\ UNCHANGED <<world, source, box, published, rejected, disputed, attempts>>

(***************************************************************************)
(* What goes on around the turn.                                           *)
(***************************************************************************)
\* A new release runs the next attempt; the running one keeps its own.
Upgrade ==
  /\ job = None /\ release < MaxReleases
  /\ release' = release + 1
  /\ UNCHANGED <<suite, source, cache, box, job, refused, published, rejected, disputed, attempts,
                 scoreCheckpoints>>

\* An earlier turn of the question was validated again: other checks to repeat.
Extend ==
  /\ job = None /\ suite < MaxSuites
  /\ suite' = suite + 1
  /\ UNCHANGED <<release, source, cache, box, job, refused, published, rejected, disputed, attempts,
                 scoreCheckpoints>>

Next ==
  \/ Begin \/ BeginPlan \/ StageFails \/ Crash
  \/ CollectAnswer \/ CaptureStopped \/ KeepCaptured \/ EnsureContainer \/ Stop
  \/ Prepare \/ RecordDispute \/ PolicyRestored \/ PolicyAccepted \/ PolicyRejected
  \/ TakeSnapshot \/ PublishInitialCode \/ Reserve \/ TypePrompt \/ Answer \/ SaveResult \/ KeepClaude
  \/ Verify \/ VerifyBlocked \/ ScoreRestored \/ StartScore \/ RateScore \/ Score \/ ScoreUnfounded
  \/ Deliver \/ RefuseDelivery \/ EndDisputed \/ Archive \/ Plan
  \/ Upgrade \/ Extend

Spec == Init /\ [][Next]_vars

(***************************************************************************)
(* Properties.                                                             *)
(***************************************************************************)
\* The question of an interaction the cache or the container's record knows of
\* is never prepared again: not by an upgrade, a retry, a revision or a crash
\* (job-executor.mjs:240-261, question-cache.mjs).
KnownQuestionKept ==
  [][ (cache.claude # None \/ box.pending # None) /\ cache.prepare # None
        => cache'.prepare = cache.prepare ]_vars

\* The snapshot recorded as the initial state is of the code before Claude worked
\* on it, however often the snapshot is taken again after a crash, a failure or a
\* retry that finds the question sent (job-executor.mjs:992-1024).
SnapshotIsInitial == cache.snapshot \in {None, 0}

\* What is archived is of one piece: it counts from the state before Claude worked,
\* the report is of the code and question archived, the score was made from that
\* report, the delivery from that score, whatever was restored from earlier
\* attempts (job-executor.mjs:373-434).
ResultOfOnePiece ==
  LET r == cache.completed IN
  /\ SnapshotIsInitial
  /\ r # None =>
       /\ r.runtime.key.prompt = r.prompt /\ r.runtime.key.source = r.source
       /\ r.score.runtime = r.runtime /\ r.score.key.prompt = r.prompt
       /\ r.delivery.score = r.score

\* A rating that was refused is never offered again by the attempt that takes
\* the refusal up, although its calls are kept and answer for themselves
\* (job-executor.mjs:1112-1122, codex-stages.mjs:470-500).
RefusedNotOffered ==
  In("deliver") /\ job.reconsidered => job.mem.score.rating # refused.score.rating

\* Once an audit made over a kept answer has rejected its question, no result
\* of it is ever archived, whatever later audits would say
\* (submitted-policy.mjs, job-executor.mjs:1352-1357).
DisputedNeverArchived == disputed => cache.completed = None

=============================================================================
