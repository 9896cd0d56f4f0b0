-------------------------- MODULE JobPipelineProofs --------------------------
(***************************************************************************)
(* Proofs about JobPipeline, for any number of attempts, releases, suites  *)
(* and flaws: what is archived is of one piece, a question in dispute is   *)
(* never archived, a refused rating is not offered again by the attempt    *)
(* that takes the refusal up, a question that was sent stays, and the      *)
(* snapshot recorded as the initial state is of the code before Claude.    *)
(***************************************************************************)
EXTENDS JobPipeline, FiniteSetTheorems, TLAPS

-----------------------------------------------------------------------------
(* Types.                                                                  *)

Maybe(S) == S \cup {None}

Calls == FullRatings \cup Patches
Sources == {0, 1}

Report ==
  [key : [suite : Nat, prompt : Maybe(Nat), source : Sources], release : Nat, by : Nat]

Key ==
  [release : Nat, prompt : Maybe(Nat), source : Sources, runtime : Maybe(Report),
   advised : Maybe(Nat), dispute : BOOLEAN]

ScoreRecord == [key : Key, runtime : Maybe(Report), rating : Nat, patched : BOOLEAN]

Delivery == [key : [release : Nat, score : Maybe(ScoreRecord)], score : Maybe(ScoreRecord)]

Completed ==
  [prompt : Maybe(Nat), source : Sources, snapshot : Maybe(Sources), runtime : Maybe(Report),
   score : Maybe(ScoreRecord), delivery : Maybe(Delivery)]

PolicyRecord == [key : [release : Nat, prompt : Maybe(Nat), source : Sources]]

Cache ==
  [version : Nat, prepare : Maybe(Nat), revised : BOOLEAN, policy : Maybe(PolicyRecord),
   dispute : BOOLEAN, snapshot : Maybe(Sources),
   claude : Maybe({"good", "captured", "failed"}), runtime : Maybe(Report),
   score : Maybe(ScoreRecord), delivery : Maybe(Delivery), next : BOOLEAN,
   completed : Maybe(Completed)]

Box ==
  [status : {"none", "running", "stopped"}, pending : Maybe(Nat),
   phase : Maybe({"reserved", "sent"}), typed : Maybe(Nat), answer : Maybe({"good", "bad"}),
   result : Maybe({"good", "bad", "captured"})]

Reply == [rating : Nat, flaws : SUBSET Flaws, patched : BOOLEAN]
Review == [step : Calls \cup Ends, answer : Maybe(Reply)]
Checkpoint ==
  [input : [key : Key, step : Calls, base : Maybe(Reply)], answer : Reply]

Pcs == {"collect", "captured", "prepare", "audit", "snapshot", "publish", "call",
        "verify", "score", "rate", "deliver", "archive", "plan"}

Job ==
  [pc : Pcs, mem : Cache, preserve : BOOLEAN, reconsidered : BOOLEAN, advised : Maybe(Nat),
   review : Maybe(Review)]

Refusal == [score : ScoreRecord, by : Nat]

TypeInv ==
  /\ release \in Nat /\ suite \in Nat /\ attempts \in Nat /\ source \in Sources
  /\ cache \in Cache /\ box \in Box /\ job \in Maybe(Job) /\ refused \in Maybe(Refusal)
  /\ rejected \in BOOLEAN /\ disputed \in BOOLEAN
  /\ scoreCheckpoints \subseteq Checkpoint

-----------------------------------------------------------------------------
(* The inductive invariant.                                                *)

\* A rating of these was made for the inputs of key.
RatedAs(ratings, key, rating) ==
  \E c \in ratings : c.input.key = key /\ c.answer.rating = rating

\* Every rating has its own number, and a patch that of the rating it mends.
RatingInv ==
  /\ IsFiniteSet(scoreCheckpoints)
  /\ \A c \in Ratings : c.answer.rating <= Cardinality(Ratings)
  /\ \A c, e \in Ratings : c.answer.rating = e.answer.rating => c.input.key = e.input.key
  /\ \A c \in scoreCheckpoints : RatedAs(Ratings, c.input.key, c.answer.rating)

OnePiece(r) ==
  /\ r.runtime.key.prompt = r.prompt /\ r.runtime.key.source = r.source
  /\ r.score.runtime = r.runtime /\ r.score.key.prompt = r.prompt
  /\ r.delivery.score = r.score

\* What the cache holds fits together.
CacheInv ==
  /\ cache.score # None => /\ cache.score.runtime = cache.score.key.runtime
                           /\ RatedAs(Ratings, cache.score.key, cache.score.rating)
  /\ cache.delivery # None => cache.delivery.key.score = cache.delivery.score
  /\ cache.runtime # None => cache.runtime.by <= attempts
  /\ cache.completed # None => OnePiece(cache.completed)
  /\ Succeeded(cache) => box.result # None

Early == {"collect", "captured", "prepare", "audit"}
BeforeCall == Early \cup {"snapshot", "publish"}
InScore == {"score", "rate"}
Scored == {"deliver", "archive"}

\* Where the attempt is, and what it may rely on there.
StageInv ==
  job # None =>
    LET m == job.mem IN
    /\ m = IF job.pc = "rate" THEN [cache EXCEPT !.score = None] ELSE cache
    /\ job.pc # "plan" => m.completed = None
    /\ job.pc \in {"captured", "call"} => ~ Succeeded(m)
    /\ job.pc \in BeforeCall /\ ~ job.preserve => box.pending = None
    /\ job.pc \in InScore \cup Scored =>
         /\ m.runtime \in Report /\ m.runtime.by <= attempts
         /\ m.runtime.key.prompt = m.prepare /\ m.runtime.key.source = source
    /\ job.pc \in Scored =>
         /\ m.score \in ScoreRecord /\ m.score.key = ScoreKey /\ m.score.runtime = m.runtime
         /\ RatedAs(Ratings, ScoreKey, m.score.rating)
    /\ job.pc = "archive" => ~ m.dispute /\ m.delivery.score = m.score
    /\ job.pc = "rate" =>
         /\ job.review \in Review
         /\ job.review.step # "first" =>
              job.review.answer \in Reply /\ RatedAs(Ratings, ScoreKey, job.review.answer.rating)

\* A question whose audit was rejected over its answer stays in dispute.
DisputeInv ==
  disputed =>
    /\ rejected /\ Succeeded(cache) /\ cache.completed = None
    /\ job # None => job.pc \in Early \/ (job.pc # "plan" /\ job.mem.dispute)

\* A refusal is of an earlier attempt, and the score it refused was advised by
\* an even earlier one and made from a report no later than it.
RefusalInv ==
  /\ refused # None =>
       /\ refused.by <= attempts /\ (job # None => refused.by < attempts)
       /\ RatedAs(Ratings, refused.score.key, refused.score.rating)
       /\ refused.score.key.advised # refused.by
       /\ refused.score.key.runtime \in Report /\ refused.score.key.runtime.by <= refused.by
  /\ job # None =>
       /\ job.advised # None => job.advised < attempts
       /\ job.reconsidered =>
            /\ refused # None /\ job.pc \in InScore \cup Scored \cup {"plan"}
            /\ job.advised = refused.by \/ job.mem.runtime.by = attempts

JInv ==
  TypeInv /\ RatingInv /\ CacheInv /\ StageInv /\ DisputeInv /\ RefusalInv

-----------------------------------------------------------------------------
LEMMA NoneIsNone ==
  /\ None \notin Nat
  /\ None # "good" /\ None # "captured" /\ None # "failed" /\ None # "bad"
  /\ None # "reserved" /\ None # "sent"
BY PipelineAssumption

LEMMA JobTypes ==
  ASSUME TypeInv, job # None
  PROVE  /\ job \in Job /\ job.pc \in Pcs /\ job.mem \in Cache /\ job.preserve \in BOOLEAN
         /\ job.reconsidered \in BOOLEAN /\ job.advised \in Maybe(Nat)
         /\ job.review \in Maybe(Review)
<1>1. job \in Job
  BY DEF TypeInv, Maybe
<1> QED
  BY <1>1 DEF Job

\* The job that Persist and At leave: at pc, with m as its copy.
LEMMA JobMoves ==
  ASSUME TypeInv, job # None, NEW pc \in Pcs, NEW m \in Cache,
         job' = [job EXCEPT !.pc = pc, !.mem = m]
  PROVE  /\ job' \in Job /\ job'.pc = pc /\ job'.mem = m
         /\ job'.preserve = job.preserve /\ job'.reconsidered = job.reconsidered
         /\ job'.advised = job.advised /\ job'.review = job.review
<1>1. job \in Job
  BY JobTypes
<1> QED
  BY <1>1 DEF Job

\* A job that begins with a cache.
LEMMA JobBegins ==
  ASSUME NEW pc \in Pcs, NEW m \in Cache, NEW preserve \in BOOLEAN,
         job' = [pc |-> pc, mem |-> m, preserve |-> preserve, reconsidered |-> FALSE,
                 advised |-> None, review |-> None]
  PROVE  /\ job' \in Job /\ job'.pc = pc /\ job'.mem = m /\ job'.preserve = preserve
         /\ job'.reconsidered = FALSE /\ job'.advised = None
BY DEF Job, Maybe

-----------------------------------------------------------------------------
(* What keeps the parts of the invariant.                                  *)

LEMMA RatingKeeps ==
  ASSUME RatingInv, scoreCheckpoints' = scoreCheckpoints
  PROVE  RatingInv' /\ Ratings' = Ratings
BY DEF RatingInv, Ratings

\* Every part of the cache is what it was, none, or fits in.
LEMMA CacheKeeps ==
  ASSUME JInv, Ratings \subseteq Ratings', attempts' \in Nat, attempts <= attempts',
         \/ cache'.score \in {cache.score, None}
         \/ /\ cache'.score.runtime = cache'.score.key.runtime
            /\ RatedAs(Ratings', cache'.score.key, cache'.score.rating),
         \/ cache'.delivery \in {cache.delivery, None}
         \/ cache'.delivery.key.score = cache'.delivery.score,
         cache'.runtime \in {cache.runtime, None} \/ cache'.runtime.by <= attempts',
         cache'.completed = cache.completed \/ OnePiece(cache'.completed),
         Succeeded(cache') => box'.result # None
  PROVE  CacheInv'
<1>1. cache'.score # None => /\ cache'.score.runtime = cache'.score.key.runtime
                             /\ RatedAs(Ratings', cache'.score.key, cache'.score.rating)
  BY DEF JInv, CacheInv, RatedAs
<1>2. cache'.runtime # None => cache'.runtime.by <= attempts'
  <2>1. cache.runtime # None => cache.runtime \in Report
    BY DEF JInv, TypeInv, Cache, Maybe
  <2>2. cache.runtime # None => cache.runtime.by \in Nat /\ cache.runtime.by <= attempts
    BY <2>1 DEF Report, JInv, CacheInv
  <2>3. attempts \in Nat
    BY DEF JInv, TypeInv
  <2>4. cache.runtime # None => cache.runtime.by <= attempts'
    BY <2>2, <2>3
  <2> QED
    BY <2>4
<1> QED
  BY <1>1, <1>2 DEF JInv, CacheInv

\* Of an attempt that ends: what it leaves in the cache is what was there, or less.
LEMMA EndKeeps ==
  ASSUME JInv, job' = None, refused' \in {None, refused},
         UNCHANGED <<release, suite, source, box, rejected, disputed, attempts, scoreCheckpoints>>,
         cache' \in Cache, cache'.score \in {cache.score, None},
         cache'.delivery \in {cache.delivery, None},
         cache'.runtime \in {cache.runtime, None}, cache'.completed = cache.completed,
         Succeeded(cache') <=> Succeeded(cache)
  PROVE  JInv'
<1>1. RatingInv' /\ Ratings' = Ratings
  BY RatingKeeps DEF JInv
<1>2. CacheInv'
  BY <1>1, CacheKeeps DEF JInv, TypeInv, CacheInv
<1>3. TypeInv'
  BY DEF JInv, TypeInv, Maybe
<1>4. StageInv'
  BY DEF StageInv
<1>5. DisputeInv'
  BY DEF JInv, DisputeInv
<1>6. RefusalInv'
  BY <1>1 DEF JInv, RefusalInv
<1> QED
  BY <1>1, <1>2, <1>3, <1>4, <1>5, <1>6 DEF JInv

\* Of an attempt on its way to the answer: what it keeps concerns the question.
LEMMA EarlyKeeps ==
  ASSUME JInv, job # None, job.pc \in BeforeCall \cup {"call"},
         UNCHANGED <<release, suite, refused, rejected, disputed, attempts, scoreCheckpoints>>,
         cache' \in Cache, job' \in Job, box' \in Box, source' \in Sources,
         job'.mem = cache', job'.pc \in BeforeCall \cup {"call", "verify"},
         job'.advised = job.advised, job'.reconsidered = job.reconsidered,
         cache'.score = cache.score, cache'.delivery = cache.delivery,
         cache'.runtime = cache.runtime, cache'.completed = cache.completed,
         Succeeded(cache) => Succeeded(cache'), Succeeded(cache') => box'.result # None,
         job'.pc \in {"captured", "call"} => ~ Succeeded(cache'),
         job'.pc \in BeforeCall /\ ~ job'.preserve => box'.pending = None,
         disputed => job'.pc \in Early \/ cache'.dispute
  PROVE  JInv'
<1>1. RatingInv' /\ Ratings' = Ratings
  BY RatingKeeps DEF JInv
<1>2. CacheInv'
  BY <1>1, CacheKeeps DEF JInv, TypeInv
<1>3. TypeInv'
  BY DEF JInv, TypeInv, Maybe
<1>4. cache.completed = None
  <2>1. job.pc # "plan" /\ job.pc # "rate"
    BY DEF BeforeCall, Early
  <2> QED
    BY <2>1 DEF JInv, StageInv
<1>5. StageInv'
  BY <1>4 DEF StageInv, BeforeCall, Early, InScore, Scored
<1>6. DisputeInv'
  <2>1. job'.pc # "plan"
    BY DEF BeforeCall, Early
  <2> QED
    BY <2>1 DEF JInv, DisputeInv
<1>7. RefusalInv'
  <2>1. ~ job.reconsidered
    BY DEF JInv, RefusalInv, BeforeCall, Early, InScore, Scored
  <2> QED
    BY <1>1, <2>1 DEF JInv, RefusalInv
<1> QED
  BY <1>1, <1>2, <1>3, <1>5, <1>6, <1>7 DEF JInv

-----------------------------------------------------------------------------
(* The attempt on its way to the answer.                                   *)

\* Outside a rating the attempt's copy is what the cache holds.
LEMMA CopyIsCache ==
  ASSUME JInv, job # None, job.pc # "rate"
  PROVE  job.mem = cache /\ cache \in Cache
BY DEF JInv, StageInv, TypeInv

LEMMA CollectKeeps ==
  ASSUME JInv, CollectAnswer \/ CaptureStopped \/ EnsureContainer
  PROVE  JInv'
<1> USE DEF world
<1>1. /\ job # None /\ job.pc = "collect" /\ job.mem = cache /\ cache \in Cache
      /\ box \in Box /\ source \in Sources /\ (~ job.preserve => box.pending = None)
  BY CopyIsCache DEF In, CollectAnswer, CaptureStopped, EnsureContainer, JInv, TypeInv,
     StageInv, BeforeCall, Early
<1>2. UNCHANGED <<release, suite, source, refused, rejected, disputed, attempts, scoreCheckpoints>>
  BY DEF CollectAnswer, CaptureStopped, EnsureContainer
<1>3. CASE CollectAnswer
  <2> DEFINE m == [cache EXCEPT !.claude = "captured"]
  <2>1. /\ job' = [job EXCEPT !.pc = "prepare", !.mem = m] /\ cache' = m
        /\ box' = box /\ box.result = "captured" /\ ~ Succeeded(cache)
    BY <1>1, <1>3 DEF CollectAnswer, Persist
  <2>2. /\ m \in Cache /\ m.score = cache.score /\ m.delivery = cache.delivery
        /\ m.runtime = cache.runtime /\ m.completed = cache.completed
    BY <1>1 DEF Cache, Maybe
  <2> HIDE DEF m
  <2>3. /\ job' \in Job /\ job'.pc = "prepare" /\ job'.mem = m
        /\ job'.preserve = job.preserve /\ job'.reconsidered = job.reconsidered
        /\ job'.advised = job.advised
    BY <1>1, <2>1, <2>2, JobMoves DEF JInv, Pcs
  <2> QED
    BY <1>1, <1>2, <2>1, <2>2, <2>3, EarlyKeeps, NoneIsNone DEF BeforeCall, Early
<1>4. CASE CaptureStopped
  <2>1. /\ job' = [job EXCEPT !.pc = "captured"] /\ cache' = cache /\ ~ Succeeded(cache)
        /\ box' = [box EXCEPT !.result = IF box.answer = "good" THEN "captured" ELSE box.answer,
                              !.pending = None, !.phase = None]
        /\ box.answer # None
    BY <1>1, <1>4 DEF CaptureStopped
  <2>2. box' \in Box /\ box'.result # None /\ box'.pending = None
    <3>1. box.answer \in {"good", "bad"}
      BY <1>1, <2>1 DEF Box, Maybe
    <3> QED
      BY <1>1, <2>1, <3>1, NoneIsNone DEF Box, Maybe
  <2>3. job' = [job EXCEPT !.pc = "captured", !.mem = cache]
    BY <1>1, <2>1, JobTypes DEF JInv, Job
  <2>4. /\ job' \in Job /\ job'.pc = "captured" /\ job'.mem = cache
        /\ job'.preserve = job.preserve /\ job'.reconsidered = job.reconsidered
        /\ job'.advised = job.advised
    BY <1>1, <2>3, JobMoves DEF JInv, Pcs
  <2> QED
    BY <1>1, <1>2, <2>1, <2>2, <2>4, EarlyKeeps DEF BeforeCall, Early
<1>5. CASE EnsureContainer
  <2>1. /\ job' = [job EXCEPT !.pc = "prepare", !.mem = cache] /\ cache' = cache
        /\ box' = box \/ box' = [box EXCEPT !.status = "running"]
    BY <1>1, <1>5 DEF EnsureContainer, At
  <2>2. box' \in Box /\ box'.result = box.result /\ box'.pending = box.pending
    BY <1>1, <2>1 DEF Box
  <2>3. /\ job' \in Job /\ job'.pc = "prepare" /\ job'.mem = cache
        /\ job'.preserve = job.preserve /\ job'.reconsidered = job.reconsidered
        /\ job'.advised = job.advised
    BY <1>1, <2>1, JobMoves DEF JInv, Pcs
  <2>4. Succeeded(cache) => box.result # None
    BY DEF JInv, CacheInv
  <2> QED
    BY <1>1, <1>2, <2>1, <2>2, <2>3, <2>4, EarlyKeeps DEF BeforeCall, Early
<1> QED
  BY <1>3, <1>4, <1>5

\* What an attempt may rely on wherever it is on this way.
LEMMA EarlyFacts ==
  ASSUME JInv, job # None, job.pc \in BeforeCall \cup {"call"}
  PROVE  /\ job.mem = cache /\ cache \in Cache /\ box \in Box /\ source \in Sources
         /\ job.pc \in {"captured", "call"} => ~ Succeeded(cache)
         /\ job.pc \in BeforeCall /\ ~ job.preserve => box.pending = None
         /\ Succeeded(cache) => box.result # None
         /\ disputed => rejected /\ Succeeded(cache) /\ (job.pc \in Early \/ cache.dispute)
         /\ attempts \in Nat /\ release \in Nat
<1>1. job.pc # "rate"
  BY DEF BeforeCall, Early
<1> QED
  BY <1>1, CopyIsCache DEF JInv, TypeInv, StageInv, CacheInv, DisputeInv

\* Of a step within the question that leaves the container and the code alone.
LEMMA QuestionKeeps ==
  ASSUME JInv, job # None, job.pc \in BeforeCall \cup {"call"},
         UNCHANGED <<release, suite, source, box, refused, rejected, disputed, attempts,
                     scoreCheckpoints>>,
         NEW pc \in BeforeCall \cup {"call", "verify"}, NEW m \in Cache,
         job' = [job EXCEPT !.pc = pc, !.mem = m], cache' = m,
         m.score = cache.score, m.delivery = cache.delivery, m.runtime = cache.runtime,
         m.completed = cache.completed,
         Succeeded(cache) => Succeeded(m), Succeeded(m) => box.result # None,
         pc \in {"captured", "call"} => ~ Succeeded(m),
         pc \in BeforeCall => job.pc \in BeforeCall,
         disputed => pc \in Early \/ m.dispute
  PROVE  JInv'
<1>1. pc \in Pcs
  BY DEF Pcs, BeforeCall, Early
<1>2. /\ job' \in Job /\ job'.pc = pc /\ job'.mem = m
      /\ job'.preserve = job.preserve /\ job'.reconsidered = job.reconsidered
      /\ job'.advised = job.advised
  BY <1>1, JobMoves DEF JInv
<1> QED
  BY <1>2, EarlyFacts, EarlyKeeps

LEMMA QuestionSteps ==
  ASSUME JInv,
         \/ Prepare \/ RecordDispute \/ PolicyRestored \/ PolicyAccepted \/ TakeSnapshot
  PROVE  JInv'
<1> USE DEF world
<1>1. /\ job # None /\ job.pc \in {"prepare", "audit", "snapshot"}
      /\ UNCHANGED <<release, suite, source, box, refused, rejected, disputed, attempts,
                     scoreCheckpoints>>
  BY DEF In, Prepare, RecordDispute, PolicyRestored, PolicyAccepted, TakeSnapshot
<1>2. job.pc \in BeforeCall /\ job.pc # "captured"
  BY <1>1 DEF BeforeCall, Early
<1>3. /\ job.mem = cache /\ cache \in Cache /\ source \in Sources /\ attempts \in Nat
      /\ release \in Nat /\ (Succeeded(cache) => box.result # None)
      /\ disputed => rejected /\ Succeeded(cache) /\ (job.pc \in Early \/ cache.dispute)
  BY <1>1, <1>2, EarlyFacts
<1>4. ASSUME NEW pc \in BeforeCall \ {"captured"}, NEW m \in Cache,
             job' = [job EXCEPT !.pc = pc, !.mem = m], cache' = m,
             m.score = cache.score, m.delivery = cache.delivery, m.runtime = cache.runtime,
             m.completed = cache.completed, m.claude = cache.claude,
             disputed => pc \in Early \/ m.dispute
      PROVE  JInv'
  <2>1. Succeeded(m) <=> Succeeded(cache)
    BY <1>4 DEF Succeeded
  <2>2. pc # "call" /\ pc # "captured"
    BY <1>4 DEF BeforeCall, Early
  <2> QED
    BY <1>1, <1>2, <1>3, <1>4, <2>1, <2>2, QuestionKeeps
<1>5. CASE Prepare
  <2> DEFINE m == [cache EXCEPT !.prepare = IF cache.prepare # None THEN cache.prepare ELSE attempts]
  <2>1. job' = [job EXCEPT !.pc = "audit", !.mem = m] /\ cache' = m
    BY <1>3, <1>5 DEF Prepare, Persist
  <2>2. /\ m \in Cache /\ m.score = cache.score /\ m.delivery = cache.delivery
        /\ m.runtime = cache.runtime /\ m.completed = cache.completed /\ m.claude = cache.claude
    BY <1>3 DEF Cache, Maybe
  <2> HIDE DEF m
  <2> QED
    BY <1>4, <2>1, <2>2 DEF BeforeCall, Early
<1>6. CASE RecordDispute
  <2> DEFINE m == [cache EXCEPT !.dispute = TRUE]
  <2>1. job' = [job EXCEPT !.pc = "snapshot", !.mem = m] /\ cache' = m
    BY <1>3, <1>6 DEF RecordDispute, Persist
  <2>2. /\ m \in Cache /\ m.score = cache.score /\ m.delivery = cache.delivery
        /\ m.runtime = cache.runtime /\ m.completed = cache.completed /\ m.claude = cache.claude
        /\ m.dispute
    BY <1>3 DEF Cache
  <2> HIDE DEF m
  <2> QED
    BY <1>4, <2>1, <2>2 DEF BeforeCall, Early
<1>7. CASE PolicyRestored
  <2>1. job' = [job EXCEPT !.pc = "snapshot", !.mem = cache] /\ cache' = cache
    BY <1>3, <1>7 DEF PolicyRestored, Persist
  <2>2. ~ disputed
    BY <1>3, <1>7 DEF PolicyRestored, InDispute
  <2> QED
    BY <1>3, <1>4, <2>1, <2>2 DEF BeforeCall, Early
<1>8. CASE PolicyAccepted
  <2> DEFINE m == [cache EXCEPT !.policy = [key |-> PolicyKey]]
  <2>1. job' = [job EXCEPT !.pc = "snapshot", !.mem = m] /\ cache' = m
    BY <1>3, <1>8 DEF PolicyAccepted, Persist
  <2>2. ~ disputed
    BY <1>3, <1>8 DEF PolicyAccepted, InDispute
  <2>3. [key |-> PolicyKey] \in PolicyRecord
    <3>1. cache.policy # None => cache.policy \in PolicyRecord
      BY <1>3 DEF Cache, Maybe
    <3>2. cache.policy # None => cache.policy.key.source \in Sources
      BY <3>1 DEF PolicyRecord
    <3>3. cache.prepare \in Maybe(Nat)
      BY <1>3 DEF Cache
    <3> QED
      BY <1>3, <3>2, <3>3 DEF PolicyKey, PolicyRecord
  <2>4. /\ m \in Cache /\ m.score = cache.score /\ m.delivery = cache.delivery
        /\ m.runtime = cache.runtime /\ m.completed = cache.completed /\ m.claude = cache.claude
    BY <1>3, <2>3 DEF Cache, Maybe
  <2> HIDE DEF m
  <2> QED
    BY <1>4, <2>1, <2>2, <2>4 DEF BeforeCall, Early
<1>9. CASE TakeSnapshot
  <2> DEFINE code == IF AlreadySent THEN cache.snapshot ELSE source
             m == [cache EXCEPT !.snapshot = code]
  <2>1. job' = [job EXCEPT !.pc = "publish", !.mem = m] /\ cache' = m /\ job.pc = "snapshot"
    BY <1>3, <1>9 DEF TakeSnapshot, Persist, In
  <2>2. code \in Maybe(Sources)
    BY <1>3 DEF Cache, Maybe
  <2> HIDE DEF code
  <2>3. /\ m \in Cache /\ m.score = cache.score /\ m.delivery = cache.delivery
        /\ m.runtime = cache.runtime /\ m.completed = cache.completed /\ m.claude = cache.claude
        /\ m.dispute = cache.dispute
    BY <1>3, <2>2 DEF Cache
  <2>4. disputed => m.dispute
    BY <1>3, <2>1, <2>3 DEF Early
  <2> HIDE DEF m
  <2> QED
    BY <1>4, <2>1, <2>3, <2>4 DEF BeforeCall, Early
<1> QED
  BY <1>5, <1>6, <1>7, <1>8, <1>9

\* The call of Claude, in its terminal.
LEMMA CallSteps ==
  ASSUME JInv, Reserve \/ TypePrompt \/ SaveResult
  PROVE  JInv'
<1> USE DEF world
<1>1. /\ job # None /\ job.pc = "call" /\ cache' = cache /\ job' = job
      /\ UNCHANGED <<release, suite, refused, rejected, disputed, attempts, scoreCheckpoints>>
      /\ source' \in {source, 1}
  BY DEF In, Reserve, TypePrompt, SaveResult
<1>2. /\ job.mem = cache /\ cache \in Cache /\ box \in Box /\ source \in Sources
      /\ ~ Succeeded(cache) /\ (disputed => cache.dispute) /\ job \in Job
  BY <1>1, EarlyFacts, JobTypes DEF Early, JInv
<1>3. box' \in Box /\ (box.result # None => box'.result # None)
  <2>1. cache.prepare \in Maybe(Nat)
    BY <1>2 DEF Cache
  <2>2. CASE Reserve
    BY <1>2, <2>1, <2>2 DEF Reserve, Box, Maybe
  <2>3. CASE TypePrompt
    BY <1>2, <2>1, <2>3 DEF TypePrompt, Box, Maybe
  <2>4. CASE SaveResult
    BY <1>2, <2>4 DEF SaveResult, Box, Maybe
  <2> QED
    BY <2>2, <2>3, <2>4
<1>4. source' \in Sources
  BY <1>1, <1>2 DEF Sources
<1> QED
  BY <1>1, <1>2, <1>3, <1>4, EarlyKeeps DEF BeforeCall, Early

\* What a step hands on from the call, or from the stopped container, or ends with.
LEMMA HandOver ==
  ASSUME JInv, KeepCaptured \/ PublishInitialCode \/ KeepClaude
  PROVE  JInv'
<1> USE DEF world
<1>1. /\ job # None /\ job.pc \in {"captured", "publish", "call"}
      /\ UNCHANGED <<release, suite, source, box, rejected, disputed, attempts, scoreCheckpoints>>
  BY DEF In, KeepCaptured, PublishInitialCode, KeepClaude
<1>2. job.pc \in BeforeCall \cup {"call"}
  BY <1>1 DEF BeforeCall, Early
<1>3. /\ job.mem = cache /\ cache \in Cache /\ (Succeeded(cache) => box.result # None)
      /\ job.pc \in {"captured", "call"} => ~ Succeeded(cache)
      /\ disputed => rejected /\ Succeeded(cache) /\ (job.pc \in Early \/ cache.dispute)
  BY <1>1, <1>2, EarlyFacts
<1>4. ASSUME NEW a \in {"good", "captured", "failed"}
      PROVE  LET m == [cache EXCEPT !.claude = a] IN
             /\ m \in Cache /\ m.score = cache.score /\ m.delivery = cache.delivery
             /\ m.runtime = cache.runtime /\ m.completed = cache.completed /\ m.claude = a
             /\ Succeeded(m) <=> a # "failed"
  BY <1>3 DEF Cache, Maybe, Succeeded
<1>5. ASSUME job.pc \in {"captured", "call"}, job' = None, refused' = None,
             cache' = [cache EXCEPT !.claude = "failed"]
      PROVE  JInv'
  <2> DEFINE m == [cache EXCEPT !.claude = "failed"]
  <2>1. /\ m \in Cache /\ m.score = cache.score /\ m.delivery = cache.delivery
        /\ m.runtime = cache.runtime /\ m.completed = cache.completed /\ ~ Succeeded(m)
    BY <1>4
  <2>2. cache' = m
    BY <1>5
  <2> HIDE DEF m
  <2> QED
    BY <1>1, <1>3, <1>5, <2>1, <2>2, EndKeeps
<1>6. CASE KeepCaptured
  <2>1. job.pc = "captured"
    BY <1>6 DEF KeepCaptured, In
  <2>2. CASE box.result = "captured" /\ Persist("prepare", [job.mem EXCEPT !.claude = "captured"])
             /\ refused' = refused
    <3> DEFINE m == [cache EXCEPT !.claude = "captured"]
    <3>1. /\ m \in Cache /\ m.score = cache.score /\ m.delivery = cache.delivery
          /\ m.runtime = cache.runtime /\ m.completed = cache.completed /\ Succeeded(m)
      BY <1>4
    <3>2. job' = [job EXCEPT !.pc = "prepare", !.mem = m] /\ cache' = m
      BY <1>3, <2>2 DEF Persist
    <3> HIDE DEF m
    <3>3. "prepare" \in BeforeCall \cap Early /\ "captured" \in BeforeCall /\ box.result # None
      BY <2>2, NoneIsNone DEF BeforeCall, Early
    <3> QED
      BY <1>1, <1>2, <2>1, <2>2, <3>1, <3>2, <3>3, QuestionKeeps
  <2> QED
    BY <1>3, <1>5, <1>6, <2>1, <2>2 DEF KeepCaptured, Fails
<1>7. CASE PublishInitialCode
  <2>1. job.pc = "publish" /\ (disputed => cache.dispute)
    BY <1>3, <1>7 DEF PublishInitialCode, In, Early
  <2>2. CASE At(IF Succeeded(cache) THEN "verify" ELSE "call", cache) /\ refused' = refused
    <3> DEFINE pc == IF Succeeded(cache) THEN "verify" ELSE "call"
    <3>1. job' = [job EXCEPT !.pc = pc, !.mem = cache] /\ cache' = cache
      BY <2>2 DEF At
    <3>2. pc \in BeforeCall \cup {"call", "verify"} /\ pc # "captured" /\ pc \notin BeforeCall
          /\ (pc = "call" => ~ Succeeded(cache))
      BY DEF BeforeCall, Early
    <3> HIDE DEF pc
    <3> QED
      BY <1>1, <1>2, <1>3, <2>1, <2>2, <3>1, <3>2, QuestionKeeps
  <2>3. CASE Fails /\ cache' = cache
    BY <1>1, <1>3, <2>3, EndKeeps DEF Fails
  <2> QED
    BY <1>3, <1>7, <2>2, <2>3 DEF PublishInitialCode
<1>8. CASE KeepClaude
  <2>1. job.pc = "call" /\ (disputed => cache.dispute)
    BY <1>3, <1>8 DEF KeepClaude, In, Early
  <2>2. CASE box.result = "good" /\ Persist("verify", [job.mem EXCEPT !.claude = "good"])
             /\ refused' = refused
    <3> DEFINE m == [cache EXCEPT !.claude = "good"]
    <3>1. /\ m \in Cache /\ m.score = cache.score /\ m.delivery = cache.delivery
          /\ m.runtime = cache.runtime /\ m.completed = cache.completed /\ Succeeded(m)
      BY <1>4
    <3>2. job' = [job EXCEPT !.pc = "verify", !.mem = m] /\ cache' = m /\ m.dispute = cache.dispute
      BY <1>3, <2>2 DEF Persist, Cache
    <3>3. "verify" \notin BeforeCall
      BY DEF BeforeCall, Early
    <3> HIDE DEF m
    <3> QED
      BY <1>1, <1>2, <2>1, <2>2, <3>1, <3>2, <3>3, QuestionKeeps, NoneIsNone
  <2> QED
    BY <1>3, <1>5, <1>8, <2>1, <2>2 DEF KeepClaude, Fails
<1> QED
  BY <1>6, <1>7, <1>8

-----------------------------------------------------------------------------
(* Attempts end and begin, and what goes on around them.                   *)

LEMMA EndSteps ==
  ASSUME JInv, StageFails \/ Crash \/ VerifyBlocked \/ ScoreUnfounded \/ EndDisputed \/ Plan
  PROVE  JInv'
<1> USE DEF world
<1>1. /\ job # None /\ job' = None /\ refused' \in {None, refused}
      /\ UNCHANGED <<release, suite, source, box, rejected, disputed, attempts, scoreCheckpoints>>
  BY DEF In, StageFails, Crash, VerifyBlocked, ScoreUnfounded, EndDisputed, Plan, Fails
<1>2. cache \in Cache
  BY DEF JInv, TypeInv
<1>3. CASE StageFails \/ Crash \/ EndDisputed
  <2>1. cache' = cache
    BY <1>3 DEF StageFails, Crash, EndDisputed
  <2> QED
    BY <1>1, <1>2, <2>1, EndKeeps
<1>4. CASE Plan
  <2>1. job.mem = cache
    BY <1>1, <1>4, CopyIsCache DEF Plan, In
  <2>2. \E planned \in BOOLEAN : cache' = [cache EXCEPT !.next = planned]
    BY <1>4, <2>1 DEF Plan
  <2>3. /\ cache' \in Cache /\ cache'.score = cache.score /\ cache'.delivery = cache.delivery
        /\ cache'.runtime = cache.runtime /\ cache'.completed = cache.completed
        /\ cache'.claude = cache.claude
    BY <1>2, <2>2 DEF Cache
  <2> QED
    BY <1>1, <2>3, EndKeeps DEF Succeeded
<1>5. CASE ScoreUnfounded
  <2>1. job.mem = cache
    BY <1>1, <1>5, CopyIsCache DEF ScoreUnfounded, In
  <2>2. cache' = [cache EXCEPT !.score = None, !.delivery = None]
    BY <1>5, <2>1 DEF ScoreUnfounded, WithoutScore
  <2>3. /\ cache' \in Cache /\ cache'.score = None /\ cache'.delivery = None
        /\ cache'.runtime = cache.runtime /\ cache'.completed = cache.completed
        /\ cache'.claude = cache.claude
    BY <1>2, <2>2 DEF Cache, Maybe
  <2> QED
    BY <1>1, <2>3, EndKeeps DEF Succeeded
<1>6. CASE VerifyBlocked
  <2>1. job.mem = cache
    BY <1>1, <1>6, CopyIsCache DEF VerifyBlocked, In
  <2> DEFINE m == IF Reconsidered THEN [cache EXCEPT !.score = None, !.delivery = None] ELSE cache
  <2>2. cache' = [m EXCEPT !.next = FALSE, !.runtime = None]
    BY <1>6, <2>1 DEF VerifyBlocked, WithoutScore
  <2>3. /\ m \in Cache /\ m.score \in {cache.score, None} /\ m.delivery \in {cache.delivery, None}
        /\ m.completed = cache.completed /\ m.claude = cache.claude
    <3>1. CASE Reconsidered
      BY <1>2, <3>1 DEF Cache, Maybe
    <3>2. CASE ~ Reconsidered
      BY <1>2, <3>2
    <3> QED
      BY <3>1, <3>2
  <2> HIDE DEF m
  <2>4. /\ cache' \in Cache /\ cache'.score = m.score /\ cache'.delivery = m.delivery
        /\ cache'.runtime = None /\ cache'.completed = m.completed /\ cache'.claude = m.claude
    BY <2>2, <2>3 DEF Cache, Maybe
  <2> QED
    BY <1>1, <2>3, <2>4, EndKeeps DEF Succeeded
<1> QED
  BY <1>3, <1>4, <1>5, <1>6

\* What an attempt makes of the cache it reads.
LEMMA UpgradedCache ==
  ASSUME JInv, NEW preserve \in BOOLEAN
  PROVE  LET m == Upgraded(preserve) IN
         /\ m \in Cache /\ m.score \in {cache.score, None} /\ m.delivery \in {cache.delivery, None}
         /\ m.runtime = cache.runtime /\ m.completed = cache.completed /\ m.claude = cache.claude
<1>1. cache \in Cache /\ release \in Nat
  BY DEF JInv, TypeInv
<1>2. CASE cache.version = release
  BY <1>1, <1>2 DEF Upgraded
<1>3. CASE cache.version # release
  <2> DEFINE kept == IF preserve THEN cache.prepare ELSE None
             m == [cache EXCEPT !.version = release, !.prepare = kept,
                                !.score = None, !.delivery = None, !.next = FALSE]
  <2>1. kept \in Maybe(Nat) /\ None \in Maybe(ScoreRecord) /\ None \in Maybe(Delivery)
    BY <1>1 DEF Cache, Maybe
  <2>2. Upgraded(preserve) = m
    BY <1>3 DEF Upgraded
  <2> HIDE DEF kept
  <2>3. /\ m \in Cache /\ m.score = None /\ m.delivery = None
        /\ m.runtime = cache.runtime /\ m.completed = cache.completed /\ m.claude = cache.claude
    BY <1>1, <2>1 DEF Cache
  <2> QED
    BY <2>2, <2>3
<1> QED
  BY <1>2, <1>3

\* Of a step by which an attempt begins, at the question or at the next plan.
LEMMA StartKeeps ==
  ASSUME JInv,
         UNCHANGED <<release, suite, source, box, refused, scoreCheckpoints>>,
         attempts' = attempts + 1, rejected' \in BOOLEAN, disputed' \in BOOLEAN,
         NEW pc \in {"collect", "plan"}, NEW m \in Cache, NEW preserve \in BOOLEAN,
         job' = [pc |-> pc, mem |-> m, preserve |-> preserve, reconsidered |-> FALSE,
                 advised |-> None, review |-> None],
         cache' = m, m.score \in {cache.score, None}, m.delivery \in {cache.delivery, None},
         m.runtime = cache.runtime, m.completed = cache.completed, m.claude = cache.claude,
         pc = "collect" => m.completed = None /\ (~ preserve => box.pending = None),
         disputed' => rejected' /\ Succeeded(cache) /\ pc = "collect"
  PROVE  JInv'
<1>1. RatingInv' /\ Ratings' = Ratings
  BY RatingKeeps DEF JInv
<1>2. pc \in Pcs
  BY DEF Pcs
<1>3. /\ job' \in Job /\ job'.pc = pc /\ job'.mem = m /\ job'.preserve = preserve
      /\ job'.reconsidered = FALSE /\ job'.advised = None
  BY <1>2, JobBegins
<1>4. attempts \in Nat /\ attempts' \in Nat /\ attempts <= attempts'
  BY DEF JInv, TypeInv
<1>5. Succeeded(m) <=> Succeeded(cache)
  BY DEF Succeeded
<1>6. CacheInv'
  BY <1>1, <1>4, <1>5, CacheKeeps DEF JInv, CacheInv
<1>7. TypeInv'
  BY <1>3, <1>4 DEF JInv, TypeInv, Maybe
<1>8. StageInv'
  BY <1>3 DEF StageInv, BeforeCall, Early, InScore, Scored
<1>9. DisputeInv'
  BY <1>3, <1>5 DEF DisputeInv, Early
<1>10. RefusalInv'
  <2>1. refused # None => refused.by \in Nat
    BY DEF JInv, TypeInv, Maybe, Refusal
  <2> QED
    BY <1>1, <1>3, <1>4, <2>1 DEF JInv, RefusalInv
<1> QED
  BY <1>1, <1>6, <1>7, <1>8, <1>9, <1>10 DEF JInv

LEMMA BeginKeeps ==
  ASSUME JInv, Begin \/ BeginPlan
  PROVE  JInv'
<1> USE DEF world
<1>1. /\ attempts' = attempts + 1
      /\ UNCHANGED <<release, suite, source, box, refused, rejected, disputed, scoreCheckpoints>>
  BY DEF Begin, BeginPlan
<1>2. Preserved \in BOOLEAN /\ rejected \in BOOLEAN /\ disputed \in BOOLEAN
  BY DEF Preserved, JInv, TypeInv
<1> DEFINE m == Upgraded(Preserved)
<1>3. /\ m \in Cache /\ m.score \in {cache.score, None} /\ m.delivery \in {cache.delivery, None}
      /\ m.runtime = cache.runtime /\ m.completed = cache.completed /\ m.claude = cache.claude
  BY <1>2, UpgradedCache
<1>4. CASE Begin
  <2>1. /\ cache' = m /\ cache.completed = None
        /\ job' = [pc |-> "collect", mem |-> m, preserve |-> Preserved, reconsidered |-> FALSE,
                   advised |-> None, review |-> None]
    BY <1>4 DEF Begin, Start
  <2>2. ~ Preserved => box.pending = None
    BY DEF Preserved
  <2>3. disputed => rejected /\ Succeeded(cache)
    BY DEF JInv, DisputeInv
  <2> HIDE DEF m
  <2> QED
    BY <1>1, <1>2, <1>3, <2>1, <2>2, <2>3, StartKeeps
<1>5. CASE BeginPlan
  <2>1. /\ cache' = m /\ cache.completed # None
        /\ job' = [pc |-> "plan", mem |-> m, preserve |-> Preserved, reconsidered |-> FALSE,
                   advised |-> None, review |-> None]
    BY <1>5 DEF BeginPlan
  <2>2. ~ disputed
    BY <2>1 DEF JInv, DisputeInv
  <2> HIDE DEF m
  <2> QED
    BY <1>1, <1>2, <1>3, <2>1, <2>2, StartKeeps
<1> QED
  BY <1>4, <1>5

LEMMA RejectKeeps ==
  ASSUME JInv, PolicyRejected
  PROVE  JInv'
<1> USE DEF world
<1>1. /\ job # None /\ job.pc = "audit" /\ ~ InDispute
      /\ rejected' = (rejected \/ box.result # None)
      /\ disputed' = (disputed \/ Succeeded(job.mem))
      /\ UNCHANGED <<release, suite, source, box, scoreCheckpoints>>
  BY DEF PolicyRejected, In
<1>2. /\ job.mem = cache /\ cache \in Cache /\ box \in Box /\ source \in Sources
      /\ ~ job.preserve => box.pending = None
      /\ Succeeded(cache) => box.result # None
      /\ disputed => rejected /\ Succeeded(cache)
  BY <1>1, EarlyFacts DEF BeforeCall, Early
<1>3. ~ disputed /\ cache.completed = None
  BY <1>1, <1>2 DEF InDispute, JInv, StageInv
<1>4. rejected' \in BOOLEAN /\ disputed' \in BOOLEAN /\ (disputed' => rejected' /\ Succeeded(cache))
  BY <1>1, <1>2, <1>3
<1>5. CASE RevisionAllowed /\ attempts' = attempts + 1 /\ refused' = refused
           /\ cache' = [cache EXCEPT !.revised = TRUE, !.prepare = None, !.policy = None]
           /\ job' = [pc |-> "collect", mem |-> cache', preserve |-> FALSE,
                      reconsidered |-> FALSE, advised |-> None, review |-> None]
  <2> DEFINE m == [cache EXCEPT !.revised = TRUE, !.prepare = None, !.policy = None]
  <2>1. /\ m \in Cache /\ m.score = cache.score /\ m.delivery = cache.delivery
        /\ m.runtime = cache.runtime /\ m.completed = cache.completed /\ m.claude = cache.claude
    BY <1>2 DEF Cache, Maybe
  <2>2. /\ cache' = m /\ ~ job.preserve
        /\ job' = [pc |-> "collect", mem |-> m, preserve |-> FALSE, reconsidered |-> FALSE,
                   advised |-> None, review |-> None]
    BY <1>5 DEF RevisionAllowed
  <2> HIDE DEF m
  <2> QED
    BY <1>1, <1>2, <1>3, <1>4, <1>5, <2>1, <2>2, StartKeeps
<1>6. CASE job' = None /\ refused' = None /\ UNCHANGED <<cache, attempts>>
  <2>1. RatingInv' /\ Ratings' = Ratings
    BY <1>1, RatingKeeps DEF JInv
  <2>2. CacheInv'
    BY <1>1, <1>2, <1>6, <2>1, CacheKeeps DEF JInv, TypeInv
  <2>3. TypeInv'
    BY <1>1, <1>4, <1>6 DEF JInv, TypeInv, Maybe
  <2>4. StageInv' /\ RefusalInv'
    BY <1>6 DEF StageInv, RefusalInv
  <2>5. DisputeInv'
    BY <1>3, <1>4, <1>6 DEF DisputeInv
  <2> QED
    BY <2>1, <2>2, <2>3, <2>4, <2>5 DEF JInv
<1> QED
  <2>1. \/ /\ RevisionAllowed /\ attempts' = attempts + 1 /\ refused' = refused
           /\ cache' = [cache EXCEPT !.revised = TRUE, !.prepare = None, !.policy = None]
           /\ job' = [pc |-> "collect", mem |-> cache', preserve |-> FALSE,
                      reconsidered |-> FALSE, advised |-> None, review |-> None]
        \/ job' = None /\ refused' = None /\ UNCHANGED <<cache, attempts>>
    BY <1>2 DEF PolicyRejected, Fails
  <2> QED
    BY <1>5, <1>6, <2>1

\* The container lives on its own, and releases and suites come between attempts.
LEMMA AroundKeeps ==
  ASSUME JInv, Stop \/ Answer \/ Upgrade \/ Extend
  PROVE  JInv'
<1> USE DEF world
<1>1. /\ UNCHANGED <<source, cache, job, refused, rejected, disputed, attempts, scoreCheckpoints>>
      /\ UNCHANGED <<release, suite>> \/ job = None
      /\ release' \in {release, release + 1} /\ suite' \in {suite, suite + 1}
  BY DEF Stop, Answer, Upgrade, Extend
<1>2. box \in Box /\ cache \in Cache /\ attempts \in Nat
  BY DEF JInv, TypeInv
<1>3. box' \in Box /\ box'.result = box.result /\ box'.pending = box.pending
  BY <1>2 DEF Stop, Answer, Upgrade, Extend, Box, Maybe
<1>4. RatingInv' /\ Ratings' = Ratings
  BY <1>1, RatingKeeps DEF JInv
<1>5. CacheInv'
  BY <1>1, <1>2, <1>3, <1>4, CacheKeeps DEF JInv, CacheInv
<1>6. TypeInv'
  BY <1>1, <1>3 DEF JInv, TypeInv
<1>7. StageInv'
  <2>1. job # None => ScoreKey' = ScoreKey
    BY <1>1 DEF ScoreKey
  <2> QED
    BY <1>1, <1>3, <1>4, <2>1 DEF JInv, StageInv
<1>8. DisputeInv' /\ RefusalInv'
  BY <1>1, <1>4 DEF JInv, DisputeInv, RefusalInv
<1> QED
  BY <1>4, <1>5, <1>6, <1>7, <1>8 DEF JInv

-----------------------------------------------------------------------------
(* A call of a stage that rates.                                           *)

\* The step that follows an answer is never the first one again.
LEMMA NextStep ==
  ASSUME NEW step \in Calls, NEW a \in Reply
  PROVE  After(step, a) \in (Calls \cup Ends) \ {"first"}
<1> DEFINE Later == (Calls \cup Ends) \ {"first"}
<1>1. {"second", "wording", "secondWording", "clarity", "citations", "done", "thrown"} \subseteq Later
  BY DEF Calls, FullRatings, Patches, Ends
<1>2. \A issues, otherwise : otherwise \in Later => ThrowIf(issues, otherwise) \in Later
  BY <1>1 DEF ThrowIf
<1> HIDE DEF Later
<1>3. AtLast(a) \in Later
  BY <1>1, <1>2 DEF AtLast
<1>4. MendCitations(a) \in Later
  BY <1>1, <1>3 DEF MendCitations
<1>5. MendClarity(a) \in Later
  BY <1>1, <1>4 DEF MendClarity
<1>6. step \in {"first", "second", "wording", "secondWording", "clarity", "citations"}
  BY DEF Calls, FullRatings, Patches
<1>7. After(step, a) \in Later
  <2>1. CASE step = "first"
    BY <1>1, <2>1 DEF After
  <2>2. CASE step = "wording"
    BY <1>1, <1>2, <2>2 DEF After
  <2>3. CASE step = "second"
    BY <1>1, <1>5, <2>3 DEF After
  <2>4. CASE step = "secondWording"
    BY <1>2, <1>5, <2>4 DEF After
  <2>5. CASE step = "clarity"
    BY <1>2, <1>4, <2>5 DEF After
  <2>6. CASE step = "citations"
    BY <1>2, <1>3, <2>6 DEF After
  <2> QED
    BY <1>6, <2>1, <2>2, <2>3, <2>4, <2>5, <2>6
<1> QED
  BY <1>7 DEF Later

\* A finished call answers as it did; a new rating gets the next number, and a patch
\* keeps the number of the rating it starts from.
LEMMA CallKeeps ==
  ASSUME RatingInv, scoreCheckpoints \subseteq Checkpoint,
         NEW key \in Key, NEW at \in Review, at.step \in Calls,
         at.step # "first" => at.answer \in Reply /\ RatedAs(Ratings, key, at.answer.rating),
         NEW a \in AnswersTo(key, at), Rates(key, at, a)
  PROVE  /\ RatingInv' /\ scoreCheckpoints' \subseteq Checkpoint /\ Ratings \subseteq Ratings'
         /\ a \in Reply /\ RatedAs(Ratings', key, a.rating)
<1> DEFINE input == Input(key, at)
           call == [input |-> input, answer |-> a]
           kept == {c \in scoreCheckpoints : c.input = input}
<1>1. scoreCheckpoints' = scoreCheckpoints \cup {call}
  BY DEF Rates
<1>2. input.key = key /\ input.step = at.step
  BY DEF Input
<1>3. input \in [key : Key, step : Calls, base : Maybe(Reply)]
  BY DEF Input, Review
<1> HIDE DEF input
<1>4. call.input = input /\ call.answer = a
  OBVIOUS
<1>5. IsFiniteSet(scoreCheckpoints) /\ Ratings \subseteq scoreCheckpoints
  BY DEF RatingInv, Ratings
<1>6. IsFiniteSet(Ratings) /\ Cardinality(Ratings) \in Nat
  BY <1>5, FS_Subset, FS_CardinalityType
<1>7. CASE kept # {}
  <2>1. PICK c \in kept : a = c.answer
    BY <1>7 DEF AnswersTo, input
  <2>2. c \in scoreCheckpoints /\ c.input = input /\ c \in Checkpoint
    BY <2>1
  <2>3. c = call /\ a \in Reply
    BY <2>1, <2>2 DEF Checkpoint
  <2>4. scoreCheckpoints' = scoreCheckpoints
    BY <1>1, <2>2, <2>3
  <2>5. RatedAs(Ratings, key, a.rating)
    BY <1>2, <2>1, <2>2 DEF RatingInv
  <2>6. RatingInv' /\ Ratings' = Ratings
    BY <2>4, RatingKeeps
  <2> QED
    BY <2>3, <2>4, <2>5, <2>6
<1>8. CASE kept = {}
  <2>1. a \in Answers(at) /\ call \notin scoreCheckpoints
    BY <1>4, <1>8 DEF AnswersTo, input
  <2>2. /\ a.rating = IF at.step \in FullRatings THEN Cardinality(Ratings) + 1 ELSE at.answer.rating
        /\ a.flaws \in FlawSets /\ a.patched = (at.step \in Patches)
        /\ a = [rating |-> a.rating, flaws |-> a.flaws, patched |-> a.patched]
    BY <2>1 DEF Answers
  <2>3. at.step \notin FullRatings => at.step # "first"
    BY DEF FullRatings
  <2>4. a \in Reply
    <3>1. a.rating \in Nat
      <4>1. at.step \notin FullRatings => at.answer.rating \in Nat
        BY <2>3 DEF Reply
      <4> QED
        BY <1>6, <2>2, <4>1
    <3>2. a.flaws \in SUBSET Flaws
      BY <2>2, ScoringAssumption
    <3>3. a.patched \in BOOLEAN
      BY <2>2
    <3> QED
      BY <2>2, <3>1, <3>2, <3>3 DEF Reply
  <2>5. call \in Checkpoint
    BY <1>3, <2>4 DEF Checkpoint
  <2> HIDE DEF call
  <2>6. /\ IsFiniteSet(scoreCheckpoints') /\ scoreCheckpoints' \subseteq Checkpoint
        /\ Ratings \subseteq Ratings'
    BY <1>1, <1>5, <2>5, FS_AddElement DEF Ratings
  <2>7. Ratings' = IF at.step \in FullRatings THEN Ratings \cup {call} ELSE Ratings
    BY <1>1, <1>2, <1>4 DEF Ratings
  <2>8. CASE at.step \in FullRatings
    <3>1. Ratings' = Ratings \cup {call} /\ call \notin Ratings
      BY <1>5, <2>1, <2>7, <2>8
    <3>2. Cardinality(Ratings') = Cardinality(Ratings) + 1
      BY <1>6, <3>1, FS_AddElement
    <3>3. call.answer.rating = Cardinality(Ratings) + 1 /\ call.input.key = key
      BY <1>2, <1>4, <2>2, <2>8
    <3>4. \A c \in Ratings : c.answer.rating \in Nat /\ c.answer.rating <= Cardinality(Ratings)
      BY <1>5 DEF RatingInv, Checkpoint, Reply
    <3>5. \A c \in Ratings' : c.answer.rating <= Cardinality(Ratings')
      BY <1>6, <3>1, <3>2, <3>3, <3>4
    <3>6. \A c, e \in Ratings' : c.answer.rating = e.answer.rating => c.input.key = e.input.key
      BY <1>6, <3>1, <3>3, <3>4 DEF RatingInv
    <3>7. RatedAs(Ratings', key, a.rating)
      BY <1>4, <3>1, <3>3 DEF RatedAs
    <3>8. \A c \in scoreCheckpoints' : RatedAs(Ratings', c.input.key, c.answer.rating)
      BY <1>1, <1>4, <2>6, <3>3, <3>7 DEF RatingInv, RatedAs
    <3> QED
      BY <2>4, <2>6, <3>5, <3>6, <3>7, <3>8 DEF RatingInv
  <2>9. CASE at.step \notin FullRatings
    <3>1. Ratings' = Ratings
      BY <2>7, <2>9
    <3>2. RatedAs(Ratings, key, a.rating)
      BY <2>2, <2>3, <2>9
    <3>3. \A c \in scoreCheckpoints' : RatedAs(Ratings, c.input.key, c.answer.rating)
      BY <1>1, <1>2, <1>4, <3>2 DEF RatingInv
    <3> QED
      BY <2>4, <2>6, <3>1, <3>2, <3>3 DEF RatingInv
  <2> QED
    BY <2>8, <2>9
<1> QED
  BY <1>7, <1>8

-----------------------------------------------------------------------------
(* The product.                                                            *)

\* Of an attempt that goes on with the product.
LEMMA LateKeeps ==
  ASSUME JInv, job # None, TypeInv', RatingInv', CacheInv', Ratings \subseteq Ratings',
         UNCHANGED <<release, suite, source, box, refused, rejected, disputed, attempts>>,
         job'.pc \in InScore \cup Scored,
         job.pc \notin Early /\ job.pc # "plan",
         job'.mem.dispute = job.mem.dispute /\ cache'.claude = cache.claude,
         cache'.completed = None,
         job'.advised # None => job'.advised < attempts,
         job'.reconsidered => refused # None
                              /\ (job'.advised = refused.by \/ job'.mem.runtime.by = attempts),
         StageInv'
  PROVE  JInv'
<1>1. DisputeInv'
  BY DEF JInv, DisputeInv, InScore, Scored, Succeeded
<1>2. RefusalInv'
  BY DEF JInv, RefusalInv, RatedAs
<1> QED
  BY <1>1, <1>2 DEF JInv

\* What a rating or what follows it relies on.
LEMMA LateFacts ==
  ASSUME JInv, job # None, job.pc \in InScore \cup Scored \cup {"verify"}
  PROVE  /\ job \in Job /\ job.mem \in Cache /\ cache \in Cache /\ cache.completed = None
         /\ job.pc # "rate" => job.mem = cache
         /\ job.pc = "rate" => job.mem = [cache EXCEPT !.score = None]
         /\ job.pc # "verify" => /\ job.mem.runtime \in Report /\ job.mem.runtime.by <= attempts
                                /\ job.mem.runtime.key.prompt = job.mem.prepare
                                /\ job.mem.runtime.key.source = source
         /\ Succeeded(cache) => box.result # None
         /\ ScoreKey.prompt = job.mem.prepare /\ ScoreKey.runtime = job.mem.runtime
         /\ ScoreKey.advised = job.advised /\ ScoreKey \in Key
         /\ job.pc \notin Early /\ job.pc # "plan"
         /\ job.advised # None => job.advised < attempts
         /\ job.pc # "verify" /\ job.reconsidered => refused # None
                              /\ (job.advised = refused.by \/ job.mem.runtime.by = attempts)
         /\ attempts \in Nat /\ source \in Sources /\ release \in Nat /\ suite \in Nat
<1>1. /\ job \in Job /\ job.mem \in Cache /\ cache \in Cache /\ job.advised \in Maybe(Nat)
      /\ attempts \in Nat /\ source \in Sources /\ release \in Nat /\ suite \in Nat
  BY JobTypes DEF JInv, TypeInv
<1>2. ScoreKey \in Key
  BY <1>1 DEF ScoreKey, Key, Cache
<1>3. cache.completed = None
  <2>1. job.mem.completed = None
    BY DEF JInv, StageInv, InScore, Scored
  <2>2. job.mem = cache \/ job.mem = [cache EXCEPT !.score = None]
    BY DEF JInv, StageInv
  <2> QED
    BY <1>1, <2>1, <2>2 DEF Cache
<1>4. job.pc \notin Early /\ job.pc # "plan"
  BY DEF InScore, Scored, Early
<1> QED
  BY <1>1, <1>2, <1>3, <1>4 DEF JInv, StageInv, CacheInv, RefusalInv, ScoreKey

LEMMA VerifyKeeps ==
  ASSUME JInv, Verify
  PROVE  JInv'
<1> USE DEF world
<1>1. /\ job # None /\ job.pc = "verify"
      /\ UNCHANGED <<release, suite, source, box, refused, rejected, disputed, attempts,
                     scoreCheckpoints>>
  BY DEF In, Verify
<1>2. /\ job \in Job /\ job.mem = cache /\ cache \in Cache /\ cache.completed = None
      /\ Succeeded(cache) => box.result # None
      /\ attempts \in Nat /\ source \in Sources /\ release \in Nat /\ suite \in Nat
      /\ job.pc \notin Early /\ job.pc # "plan"
  BY <1>1, LateFacts
<1>3. /\ RatingInv' /\ Ratings' = Ratings
  BY <1>1, RatingKeeps DEF JInv
<1> DEFINE base == IF Reconsidered THEN WithoutScore(job.mem) ELSE job.mem
           m == [base EXCEPT !.next = FALSE]
<1>4. PICK reused \in BOOLEAN :
        /\ reused => Stands(m.runtime)
        /\ job' = [job EXCEPT !.pc = "score", !.reconsidered = Reconsidered,
                              !.advised = IF Reconsidered /\ reused THEN refused.by ELSE None,
                              !.mem = [m EXCEPT !.runtime =
                                         IF reused THEN m.runtime
                                         ELSE [key |-> RuntimeKey, release |-> release,
                                               by |-> attempts]]]
        /\ cache' = job'.mem
  BY <1>2 DEF Verify
<1>5. /\ base \in Cache /\ base.score \in {cache.score, None}
      /\ base.delivery \in {cache.delivery, None} /\ base.runtime = cache.runtime
      /\ base.completed = None /\ base.claude = cache.claude /\ base.dispute = cache.dispute
      /\ base.prepare = cache.prepare
  <2>1. CASE Reconsidered
    <3> DEFINE dropped == [cache EXCEPT !.score = None, !.delivery = None]
    <3>1. base = dropped
      BY <1>2, <2>1 DEF WithoutScore
    <3>2. /\ dropped \in Cache /\ dropped.score = None /\ dropped.delivery = None
          /\ dropped.runtime = cache.runtime /\ dropped.completed = cache.completed
          /\ dropped.claude = cache.claude /\ dropped.dispute = cache.dispute
          /\ dropped.prepare = cache.prepare
      <4>1. None \in Maybe(ScoreRecord) /\ None \in Maybe(Delivery)
        BY DEF Maybe
      <4> HIDE DEF base, m
      <4> QED
        BY <1>2, <4>1 DEF Cache
    <3> HIDE DEF base, dropped
    <3> QED
      BY <1>2, <3>1, <3>2
  <2>2. CASE ~ Reconsidered
    BY <1>2, <2>2
  <2> QED
    BY <2>1, <2>2
<1> HIDE DEF base
<1>6. /\ m \in Cache /\ m.score = base.score /\ m.delivery = base.delivery
      /\ m.runtime = cache.runtime /\ m.completed = None /\ m.claude = cache.claude
      /\ m.dispute = cache.dispute /\ m.prepare = cache.prepare
  BY <1>5 DEF Cache
<1> HIDE DEF m
<1> DEFINE report == IF reused THEN m.runtime
                     ELSE [key |-> RuntimeKey, release |-> release, by |-> attempts]
           full == [m EXCEPT !.runtime = report]
           advice == IF Reconsidered /\ reused THEN refused.by ELSE None
<1>7. /\ report \in Report /\ report.by <= attempts
      /\ report.key.prompt = cache.prepare /\ report.key.source = source
      /\ reused \/ report.by = attempts
  <2>1. RuntimeKey = [suite |-> suite, prompt |-> cache.prepare, source |-> source]
    BY <1>2 DEF RuntimeKey
  <2>2. cache.prepare \in Maybe(Nat) /\ cache.runtime \in Maybe(Report)
    BY <1>2 DEF Cache
  <2>3. CASE reused
    <3>1. cache.runtime # None /\ cache.runtime.key = RuntimeKey
      BY <1>4, <1>6, <2>3 DEF Stands, Restored
    <3>2. cache.runtime.by <= attempts
      BY <3>1 DEF JInv, CacheInv
    <3> QED
      BY <1>6, <2>1, <2>2, <2>3, <3>1, <3>2 DEF Maybe
  <2>4. CASE ~ reused
    <3>1. RuntimeKey \in [suite : Nat, prompt : Maybe(Nat), source : Sources]
      BY <1>2, <2>1, <2>2
    <3>2. report = [key |-> RuntimeKey, release |-> release, by |-> attempts]
      BY <2>4
    <3> QED
      BY <1>2, <2>1, <3>1, <3>2 DEF Report
  <2> QED
    BY <2>3, <2>4
<1>8. /\ advice \in Maybe(Nat) /\ (advice # None => advice < attempts)
      /\ Reconsidered => refused # None /\ (advice = refused.by \/ report.by = attempts)
  <2>1. Reconsidered => refused # None
    BY DEF Reconsidered, RefusedScore
  <2>2. refused # None => refused.by \in Nat /\ refused.by < attempts
    BY <1>1 DEF JInv, TypeInv, RefusalInv, Maybe, Refusal
  <2> QED
    BY <1>7, <2>1, <2>2 DEF Maybe
<1>9. job' = [job EXCEPT !.pc = "score", !.reconsidered = Reconsidered,
                         !.advised = advice, !.mem = full]
      /\ cache' = job'.mem
  BY <1>4
<1> HIDE DEF report, advice
<1>10. /\ full \in Cache /\ full.score = m.score /\ full.delivery = m.delivery
       /\ full.runtime = report /\ full.completed = None /\ full.claude = cache.claude
       /\ full.dispute = cache.dispute /\ full.prepare = cache.prepare
  BY <1>6, <1>7 DEF Cache, Maybe
<1> HIDE DEF full
<1>11. /\ job' \in Job /\ job'.pc = "score" /\ job'.mem = full
       /\ job'.reconsidered = Reconsidered /\ job'.advised = advice /\ cache' = full
  <2>1. Reconsidered \in BOOLEAN /\ "score" \in Pcs
    BY DEF Reconsidered, Pcs, RefusedScore
  <2> QED
    BY <1>2, <1>8, <1>9, <1>10, <2>1 DEF Job
<1>12. TypeInv'
  BY <1>1, <1>10, <1>11 DEF JInv, TypeInv, Maybe
<1>13. CacheInv'
  BY <1>1, <1>2, <1>3, <1>5, <1>6, <1>7, <1>10, <1>11, CacheKeeps DEF Succeeded
<1>14. StageInv'
  BY <1>1, <1>7, <1>10, <1>11 DEF StageInv, BeforeCall, Early, InScore, Scored
<1> QED
  BY <1>1, <1>2, <1>3, <1>7, <1>8, <1>10, <1>11, <1>12, <1>13, <1>14, LateKeeps DEF InScore


\* Of a step that goes on with what the cache holds.
LEMMA GoesOn ==
  ASSUME JInv, ScoreRestored \/ StartScore
  PROVE  JInv'
<1> USE DEF world
<1>1. /\ job # None /\ job.pc = "score" /\ cache' = cache
      /\ UNCHANGED <<release, suite, source, box, refused, rejected, disputed, attempts,
                     scoreCheckpoints>>
  BY LateFacts DEF In, ScoreRestored, StartScore, Persist, InScore
<1>2. /\ job \in Job /\ job.mem = cache /\ cache \in Cache /\ cache.completed = None
      /\ cache.runtime \in Report /\ cache.runtime.by <= attempts
      /\ cache.runtime.key.prompt = cache.prepare /\ cache.runtime.key.source = source
      /\ ScoreKey.runtime = cache.runtime
      /\ job.pc \notin Early /\ job.pc # "plan"
      /\ job.advised # None => job.advised < attempts
      /\ job.reconsidered => refused # None
                             /\ (job.advised = refused.by \/ job.mem.runtime.by = attempts)
  BY <1>1, LateFacts DEF InScore
<1>3. RatingInv' /\ Ratings' = Ratings
  BY <1>1, RatingKeeps DEF JInv
<1>4. CacheInv'
  BY <1>1, <1>3 DEF JInv, CacheInv, Succeeded
<1>5. CASE ScoreRestored
  <2>1. job' = [job EXCEPT !.pc = "deliver", !.mem = cache]
    BY <1>2, <1>5 DEF ScoreRestored, Persist
  <2>2. /\ job' \in Job /\ job'.pc = "deliver" /\ job'.mem = cache /\ job'.advised = job.advised
        /\ job'.reconsidered = job.reconsidered
    BY <1>1, <1>2, <2>1, JobMoves DEF JInv, Pcs
  <2>3. cache.score # None /\ cache.score.key = ScoreKey
    BY <1>2, <1>5 DEF ScoreRestored, Restored
  <2>4. cache.score \in ScoreRecord
    BY <1>2, <2>3 DEF Cache, Maybe
  <2>5. cache.score.runtime = cache.runtime /\ RatedAs(Ratings, ScoreKey, cache.score.rating)
    BY <1>2, <2>3 DEF JInv, CacheInv
  <2>6. ScoreKey' = ScoreKey
    BY <1>1, <1>2, <2>2 DEF ScoreKey
  <2>7. StageInv'
    BY <1>1, <1>2, <1>3, <2>2, <2>3, <2>4, <2>5, <2>6
       DEF StageInv, BeforeCall, Early, InScore, Scored
  <2>8. TypeInv'
    BY <1>1, <2>2 DEF JInv, TypeInv, Maybe
  <2> QED
    BY <1>1, <1>2, <1>3, <1>4, <2>2, <2>7, <2>8, LateKeeps DEF Scored
<1>6. CASE StartScore
  <2> DEFINE m == [cache EXCEPT !.score = None]
  <2>1. job' = [job EXCEPT !.pc = "rate", !.review = FirstCall, !.mem.score = None]
    BY <1>6 DEF StartScore
  <2>2. /\ m \in Cache /\ m.runtime = cache.runtime /\ m.prepare = cache.prepare
        /\ m.completed = None /\ m.dispute = cache.dispute
    BY <1>2 DEF Cache, Maybe
  <2>3. FirstCall \in Review /\ FirstCall.step = "first"
    BY DEF FirstCall, Review, Maybe, Calls, FullRatings
  <2>4. job' = [job EXCEPT !.pc = "rate", !.review = FirstCall, !.mem = m]
    BY <1>2, <2>1 DEF Job
  <2> HIDE DEF m
  <2>5. /\ job' \in Job /\ job'.pc = "rate" /\ job'.mem = m /\ job'.advised = job.advised
        /\ job'.reconsidered = job.reconsidered /\ job'.review = FirstCall
    BY <1>2, <2>2, <2>3, <2>4 DEF Job, Pcs, Maybe
  <2>6. m = [cache EXCEPT !.score = None]
    BY DEF m
  <2>7. StageInv'
    BY <1>1, <1>2, <2>2, <2>3, <2>5, <2>6 DEF StageInv, BeforeCall, Early, InScore, Scored
  <2>8. TypeInv'
    BY <1>1, <2>5 DEF JInv, TypeInv, Maybe
  <2> QED
    BY <1>1, <1>2, <1>3, <1>4, <2>2, <2>5, <2>7, <2>8, LateKeeps DEF InScore
<1> QED
  BY <1>5, <1>6

\* What a rating that is under way relies on.
LEMMA RateFacts ==
  ASSUME JInv, In("rate")
  PROVE  /\ job # None /\ job.pc = "rate" /\ job.review \in Review
         /\ job.review.step # "first" =>
              job.review.answer \in Reply /\ RatedAs(Ratings, ScoreKey, job.review.answer.rating)
         /\ job \in Job /\ job.mem \in Cache /\ cache \in Cache /\ cache.completed = None
         /\ job.mem = [cache EXCEPT !.score = None]
         /\ job.mem.runtime \in Report /\ job.mem.runtime.by <= attempts
         /\ job.mem.runtime.key.prompt = job.mem.prepare /\ job.mem.runtime.key.source = source
         /\ ScoreKey \in Key /\ ScoreKey.runtime = job.mem.runtime
         /\ job.advised # None => job.advised < attempts
         /\ job.reconsidered => refused # None
                                /\ (job.advised = refused.by \/ job.mem.runtime.by = attempts)
<1>1. job # None /\ job.pc = "rate"
  BY DEF In
<1>2. /\ job.review \in Review
      /\ job.review.step # "first" =>
           job.review.answer \in Reply /\ RatedAs(Ratings, ScoreKey, job.review.answer.rating)
  BY <1>1 DEF JInv, StageInv
<1> QED
  BY <1>1, <1>2, LateFacts DEF InScore

LEMMA RateKeeps ==
  ASSUME JInv, RateScore
  PROVE  JInv'
<1>1. /\ In("rate") /\ job.review.step \notin Ends /\ cache' = cache
      /\ UNCHANGED <<release, suite, source, box, refused, rejected, disputed, attempts>>
  BY DEF RateScore
<1>2. job.pc = "rate" /\ job # None
  BY <1>1 DEF In
<1>3. PICK a \in AnswersTo(ScoreKey, job.review) :
        /\ Rates(ScoreKey, job.review, a)
        /\ job' = [job EXCEPT !.review = Rated(job.review, a)]
  BY DEF RateScore
<1>4. /\ job.review \in Review /\ job.review.step \in Calls
      /\ job.review.step # "first" =>
           job.review.answer \in Reply /\ RatedAs(Ratings, ScoreKey, job.review.answer.rating)
      /\ ScoreKey \in Key /\ job \in Job
  BY <1>1, RateFacts DEF Review
<1>5. /\ RatingInv' /\ scoreCheckpoints' \subseteq Checkpoint /\ Ratings \subseteq Ratings'
      /\ a \in Reply /\ RatedAs(Ratings', ScoreKey, a.rating)
  <2>1. RatingInv /\ scoreCheckpoints \subseteq Checkpoint
    BY DEF JInv, TypeInv
  <2> QED
    BY <1>3, <1>4, <2>1, CallKeeps
<1> DEFINE at == Rated(job.review, a)
<1>6. at \in Review /\ at.answer = a
  <2>1. After(job.review.step, a) \in Calls \cup Ends
    BY <1>4, <1>5, NextStep
  <2> QED
    BY <1>5, <2>1 DEF Rated, Review, Maybe
<1>7. job' = [job EXCEPT !.review = at]
  BY <1>3
<1> HIDE DEF at
<1>8. /\ job' \in Job /\ job'.pc = "rate" /\ job'.mem = job.mem /\ job'.advised = job.advised
      /\ job'.reconsidered = job.reconsidered /\ job'.review = at
  BY <1>2, <1>4, <1>6, <1>7 DEF Job, Maybe
<1>9. ScoreKey' = ScoreKey
  BY <1>1, <1>8 DEF ScoreKey
<1>10. TypeInv'
  BY <1>1, <1>5, <1>8 DEF JInv, TypeInv, Maybe
<1>11. CacheInv'
  BY <1>1, <1>5, CacheKeeps DEF JInv, CacheInv, TypeInv
<1>12. StageInv'
  <2>1. /\ job.mem = [cache EXCEPT !.score = None] /\ cache.completed = None
        /\ job.mem \in Cache /\ cache \in Cache
        /\ job.mem.runtime \in Report /\ job.mem.runtime.by <= attempts
        /\ job.mem.runtime.key.prompt = job.mem.prepare /\ job.mem.runtime.key.source = source
    BY <1>1, RateFacts
  <2>2. job.mem.completed = None
    BY <1>2 DEF JInv, StageInv
  <2>3. RatedAs(Ratings', ScoreKey', at.answer.rating)
    BY <1>5, <1>6, <1>9
  <2> QED
    BY <1>1, <1>5, <1>6, <1>8, <2>1, <2>2, <2>3
       DEF StageInv, BeforeCall, Early, InScore, Scored
<1> QED
  <2>1. /\ cache.completed = None
        /\ job.advised # None => job.advised < attempts
        /\ job.reconsidered => refused # None
                               /\ (job.advised = refused.by \/ job.mem.runtime.by = attempts)
    BY <1>1, RateFacts
  <2> QED
    BY <1>1, <1>2, <1>5, <1>8, <1>10, <1>11, <1>12, <2>1, LateKeeps DEF InScore, Early

LEMMA ScoreKeeps ==
  ASSUME JInv, Score
  PROVE  JInv'
<1> USE DEF world
<1>1. /\ In("rate") /\ job.review.step = "done"
      /\ UNCHANGED <<release, suite, source, box, refused, rejected, disputed, attempts,
                     scoreCheckpoints>>
  BY DEF Score
<1>2. job.pc = "rate" /\ job # None
  BY <1>1 DEF In
<1> DEFINE answer == job.review.answer
           score == [key |-> ScoreKey, runtime |-> job.mem.runtime,
                     rating |-> answer.rating, patched |-> answer.patched]
           m == [job.mem EXCEPT !.score = score]
<1>3. /\ cache' = m
      /\ job' = [job EXCEPT !.pc = "deliver", !.review = None, !.mem = m]
  BY DEF Score
<1>4. /\ job \in Job /\ job.mem \in Cache /\ cache \in Cache /\ cache.completed = None
      /\ job.mem.runtime \in Report /\ job.mem.runtime.by <= attempts
      /\ job.mem.runtime.key.prompt = job.mem.prepare /\ job.mem.runtime.key.source = source
      /\ ScoreKey \in Key /\ ScoreKey.runtime = job.mem.runtime
      /\ job.advised # None => job.advised < attempts
      /\ job.reconsidered => refused # None
                             /\ (job.advised = refused.by \/ job.mem.runtime.by = attempts)
  BY <1>1, RateFacts
<1>5. answer \in Reply /\ RatedAs(Ratings, ScoreKey, answer.rating)
  BY <1>1, RateFacts
<1>6. RatingInv' /\ Ratings' = Ratings
  BY <1>1, RatingKeeps DEF JInv
<1>7. /\ score \in ScoreRecord /\ score.key = ScoreKey /\ score.runtime = job.mem.runtime
      /\ score.rating = answer.rating
  BY <1>4, <1>5 DEF ScoreRecord, Maybe, Reply
<1> HIDE DEF answer, score
<1>8. job.mem.completed = None /\ job.mem.delivery = cache.delivery
      /\ job.mem.runtime = cache.runtime /\ job.mem.claude = cache.claude
  <2>1. job.mem = [cache EXCEPT !.score = None]
    BY <1>1, RateFacts
  <2> QED
    BY <1>4, <2>1 DEF Cache
<1>9. /\ m \in Cache /\ m.score = score /\ m.delivery = cache.delivery
      /\ m.runtime = job.mem.runtime /\ m.completed = None /\ m.claude = cache.claude
      /\ m.dispute = job.mem.dispute /\ m.prepare = job.mem.prepare
  BY <1>4, <1>7, <1>8 DEF Cache, Maybe
<1> HIDE DEF m
<1>10. /\ job' \in Job /\ job'.pc = "deliver" /\ job'.mem = m /\ job'.advised = job.advised
       /\ job'.reconsidered = job.reconsidered
  BY <1>3, <1>4, <1>9 DEF Job, Pcs, Maybe
<1>11. ScoreKey' = ScoreKey
  BY <1>1, <1>9, <1>10 DEF ScoreKey
<1>12. TypeInv'
  BY <1>1, <1>3, <1>9, <1>10 DEF JInv, TypeInv, Maybe
<1>13. CacheInv'
  <2>1. Succeeded(m) => box'.result # None
    BY <1>1, <1>9 DEF Succeeded, JInv, CacheInv
  <2>2. /\ cache'.score.runtime = cache'.score.key.runtime
        /\ RatedAs(Ratings', cache'.score.key, cache'.score.rating)
    BY <1>3, <1>4, <1>5, <1>6, <1>7, <1>9
  <2>3. attempts' \in Nat /\ attempts <= attempts'
    BY <1>1 DEF JInv, TypeInv
  <2>4. cache'.delivery = cache.delivery /\ cache'.completed = cache.completed
        /\ cache'.runtime = cache.runtime
    BY <1>3, <1>4, <1>8, <1>9
  <2> QED
    BY <1>3, <1>6, <2>1, <2>2, <2>3, <2>4, CacheKeeps
<1>14. StageInv'
  BY <1>1, <1>3, <1>4, <1>5, <1>6, <1>7, <1>9, <1>10, <1>11
     DEF StageInv, BeforeCall, Early, InScore, Scored
<1> QED
  BY <1>1, <1>2, <1>3, <1>4, <1>6, <1>9, <1>10, <1>12, <1>13, <1>14, LateKeeps DEF Scored, Early


LEMMA DeliverKeeps ==
  ASSUME JInv, Deliver
  PROVE  JInv'
<1> USE DEF world
<1>1. /\ job # None /\ job.pc = "deliver" /\ ~ job.mem.dispute
      /\ UNCHANGED <<release, suite, source, box, refused, rejected, disputed, attempts,
                     scoreCheckpoints>>
  BY DEF In, Deliver, Deliverable
<1>2. /\ job \in Job /\ job.mem = cache /\ cache \in Cache /\ cache.completed = None
      /\ cache.runtime \in Report /\ cache.runtime.by <= attempts
      /\ cache.runtime.key.prompt = cache.prepare /\ cache.runtime.key.source = source
      /\ job.pc \notin Early /\ job.pc # "plan"
      /\ job.advised # None => job.advised < attempts
      /\ job.reconsidered => refused # None
                             /\ (job.advised = refused.by \/ job.mem.runtime.by = attempts)
      /\ release \in Nat
  BY <1>1, LateFacts DEF Scored
<1>3. RatingInv' /\ Ratings' = Ratings
  BY <1>1, RatingKeeps DEF JInv
<1>4. /\ cache.score \in ScoreRecord /\ cache.score.key = ScoreKey
      /\ cache.score.runtime = cache.runtime
      /\ RatedAs(Ratings, ScoreKey, cache.score.rating)
  BY <1>1, <1>2 DEF JInv, StageInv, Scored
<1> DEFINE m == [cache EXCEPT !.delivery = Delivered]
<1>5. job' = [job EXCEPT !.pc = "archive", !.mem = m] /\ cache' = m
  BY <1>2 DEF Deliver, Persist
<1>6. /\ Delivered \in Delivery /\ Delivered.score = cache.score
      /\ Delivered.key.score = Delivered.score
  <2>1. DeliveryKey = [release |-> release, score |-> cache.score]
    BY <1>2 DEF DeliveryKey
  <2>2. CASE Restored(cache.delivery, DeliveryKey)
    <3>1. cache.delivery # None /\ cache.delivery.key = DeliveryKey /\ Delivered = cache.delivery
      BY <1>2, <2>2 DEF Restored, Delivered
    <3>2. cache.delivery \in Delivery /\ cache.delivery.key.score = cache.delivery.score
      BY <1>2, <3>1 DEF JInv, CacheInv, Cache, Maybe
    <3> QED
      BY <2>1, <3>1, <3>2
  <2>3. CASE ~ Restored(cache.delivery, DeliveryKey)
    <3>1. Delivered = [key |-> DeliveryKey, score |-> cache.score]
      BY <1>2, <2>3 DEF Delivered
    <3> QED
      BY <1>2, <1>4, <2>1, <3>1 DEF Delivery, Maybe
  <2> QED
    BY <2>2, <2>3
<1>7. /\ m \in Cache /\ m.score = cache.score /\ m.delivery = Delivered
      /\ m.runtime = cache.runtime /\ m.completed = None /\ m.claude = cache.claude
      /\ m.dispute = cache.dispute /\ m.prepare = cache.prepare
  BY <1>2, <1>6 DEF Cache, Maybe
<1> HIDE DEF m
<1>8. /\ job' \in Job /\ job'.pc = "archive" /\ job'.mem = m /\ job'.advised = job.advised
      /\ job'.reconsidered = job.reconsidered
  BY <1>1, <1>5, <1>7, JobMoves DEF JInv, Pcs
<1>9. ScoreKey' = ScoreKey
  BY <1>1, <1>2, <1>7, <1>8 DEF ScoreKey
<1>10. TypeInv'
  BY <1>1, <1>5, <1>7, <1>8 DEF JInv, TypeInv, Maybe
<1>11. CacheInv'
  <2>1. Succeeded(m) => box'.result # None
    BY <1>1, <1>7 DEF Succeeded, JInv, CacheInv
  <2>2. attempts' \in Nat /\ attempts <= attempts'
    BY <1>1 DEF JInv, TypeInv
  <2>3. /\ cache'.delivery.key.score = cache'.delivery.score
        /\ cache'.completed = cache.completed /\ cache'.runtime = cache.runtime
        /\ cache'.score = cache.score
    BY <1>2, <1>5, <1>6, <1>7
  <2> QED
    BY <1>3, <1>5, <2>1, <2>2, <2>3, CacheKeeps
<1>12. StageInv'
  BY <1>1, <1>2, <1>3, <1>4, <1>5, <1>6, <1>7, <1>8, <1>9
     DEF StageInv, BeforeCall, Early, InScore, Scored
<1> QED
  BY <1>1, <1>2, <1>3, <1>5, <1>7, <1>8, <1>10, <1>11, <1>12, LateKeeps DEF Scored

LEMMA RefuseKeeps ==
  ASSUME JInv, RefuseDelivery
  PROVE  JInv'
<1> USE DEF world
<1>1. /\ job # None /\ job.pc = "deliver" /\ job' = None /\ cache' = cache
      /\ refused' = [score |-> job.mem.score, by |-> attempts]
      /\ UNCHANGED <<release, suite, source, box, rejected, disputed, attempts, scoreCheckpoints>>
  BY DEF In, RefuseDelivery
<1>2. /\ job.mem = cache /\ cache.runtime \in Report /\ cache.runtime.by <= attempts
      /\ job.advised # None => job.advised < attempts
      /\ ScoreKey.runtime = cache.runtime /\ ScoreKey.advised = job.advised
      /\ job.advised \in Maybe(Nat) /\ attempts \in Nat
  BY <1>1, LateFacts DEF Scored, Job
<1>3. RatingInv' /\ Ratings' = Ratings
  BY <1>1, RatingKeeps DEF JInv
<1>4. /\ cache.score \in ScoreRecord /\ cache.score.key = ScoreKey
      /\ RatedAs(Ratings, ScoreKey, cache.score.rating)
  BY <1>1, <1>2 DEF JInv, StageInv, Scored
<1>5. refused' \in Refusal /\ refused'.score = cache.score /\ refused'.by = attempts
  BY <1>1, <1>2, <1>4 DEF Refusal
<1>6. TypeInv'
  BY <1>1, <1>5 DEF JInv, TypeInv, Maybe
<1>7. CacheInv' /\ StageInv' /\ DisputeInv'
  BY <1>1, <1>3 DEF JInv, CacheInv, StageInv, DisputeInv, Succeeded
<1>8. RefusalInv'
  <2>1. job.advised # attempts
    BY <1>2, NoneIsNone DEF Maybe
  <2> QED
    BY <1>1, <1>2, <1>3, <1>4, <1>5, <2>1 DEF RefusalInv
<1> QED
  BY <1>3, <1>6, <1>7, <1>8 DEF JInv

LEMMA ArchiveKeeps ==
  ASSUME JInv, Archive
  PROVE  JInv'
<1> USE DEF world
<1>1. /\ job # None /\ job.pc = "archive"
      /\ UNCHANGED <<release, suite, source, box, refused, rejected, disputed, attempts,
                     scoreCheckpoints>>
  BY DEF In, Archive
<1>2. /\ job \in Job /\ job.mem = cache /\ cache \in Cache /\ source \in Sources
      /\ cache.runtime \in Report
      /\ cache.runtime.key.prompt = cache.prepare /\ cache.runtime.key.source = source
      /\ ScoreKey.prompt = cache.prepare
      /\ job.advised # None => job.advised < attempts
      /\ job.reconsidered => refused # None
                             /\ (job.advised = refused.by \/ job.mem.runtime.by = attempts)
  BY <1>1, LateFacts DEF Scored
<1>3. RatingInv' /\ Ratings' = Ratings
  BY <1>1, RatingKeeps DEF JInv
<1>4. /\ cache.score \in ScoreRecord /\ cache.score.key = ScoreKey
      /\ cache.score.runtime = cache.runtime
      /\ ~ cache.dispute /\ cache.delivery.score = cache.score
  BY <1>1, <1>2 DEF JInv, StageInv, Scored
<1> DEFINE result == [prompt |-> cache.prepare, source |-> source, snapshot |-> cache.snapshot,
                      runtime |-> cache.runtime, score |-> cache.score,
                      delivery |-> cache.delivery]
           m == [cache EXCEPT !.completed = result]
<1>5. job' = [job EXCEPT !.pc = "plan", !.mem = m] /\ cache' = m
  BY <1>2 DEF Archive, Persist
<1>6. result \in Completed /\ OnePiece(result)
  BY <1>2, <1>4 DEF Completed, OnePiece, Cache
<1> HIDE DEF result
<1>7. /\ m \in Cache /\ m.score = cache.score /\ m.delivery = cache.delivery
      /\ m.runtime = cache.runtime /\ m.completed = result /\ m.claude = cache.claude
  BY <1>2, <1>6 DEF Cache, Maybe
<1> HIDE DEF m
<1>8. /\ job' \in Job /\ job'.pc = "plan" /\ job'.mem = m /\ job'.advised = job.advised
      /\ job'.reconsidered = job.reconsidered
  BY <1>1, <1>5, <1>7, JobMoves DEF JInv, Pcs
<1>9. TypeInv'
  BY <1>1, <1>5, <1>7, <1>8 DEF JInv, TypeInv, Maybe
<1>10. CacheInv'
  <2>1. Succeeded(m) => box'.result # None
    BY <1>1, <1>7 DEF Succeeded, JInv, CacheInv
  <2>2. attempts' \in Nat /\ attempts <= attempts'
    BY <1>1 DEF JInv, TypeInv
  <2> QED
    BY <1>3, <1>5, <1>6, <1>7, <2>1, <2>2, CacheKeeps
<1>11. StageInv'
  BY <1>5, <1>8 DEF StageInv, BeforeCall, Early, InScore, Scored
<1>12. DisputeInv'
  BY <1>1, <1>2, <1>4 DEF JInv, DisputeInv, Early
<1>13. RefusalInv'
  BY <1>1, <1>2, <1>3, <1>7, <1>8 DEF JInv, RefusalInv
<1> QED
  BY <1>3, <1>9, <1>10, <1>11, <1>12, <1>13 DEF JInv

-----------------------------------------------------------------------------
(* The invariant is inductive.                                             *)

LEMMA InitInvariant == Init => JInv
<1> SUFFICES ASSUME Init PROVE JInv
  OBVIOUS
<1> USE DEF Init, scoringInit
<1>1. EmptyCache \in Cache
  BY DEF EmptyCache, Cache, Maybe
<1>2. EmptyBox \in Box
  BY DEF EmptyBox, Box, Maybe
<1>3. TypeInv
  BY <1>1, <1>2 DEF TypeInv, Maybe, Sources
<1>4. RatingInv
  BY FS_EmptySet DEF RatingInv, Ratings
<1>5. CacheInv
  BY NoneIsNone DEF CacheInv, EmptyCache, Succeeded
<1>6. StageInv /\ DisputeInv /\ RefusalInv
  BY DEF StageInv, DisputeInv, RefusalInv
<1> QED
  BY <1>3, <1>4, <1>5, <1>6 DEF JInv

LEMMA StutterKeeps ==
  ASSUME JInv, UNCHANGED vars
  PROVE  JInv'
<1>1. /\ TypeInv' /\ RatingInv' /\ CacheInv' /\ DisputeInv' /\ RefusalInv'
  BY ZenonT(40) DEF JInv, vars, TypeInv, RatingInv, Ratings, CacheInv, Succeeded, DisputeInv, RefusalInv
<1>2. Ratings' = Ratings /\ ScoreKey' = ScoreKey
  BY DEF vars, Ratings, ScoreKey
<1>3. StageInv'
  BY <1>2 DEF JInv, vars, StageInv
<1> QED
  BY <1>1, <1>3 DEF JInv

LEMMA StepInvariant == JInv /\ [Next]_vars => JInv'
<1> SUFFICES ASSUME JInv, [Next]_vars PROVE JInv'
  OBVIOUS
<1>1. CASE UNCHANGED vars
  BY <1>1, StutterKeeps
<1>2. CASE Begin \/ BeginPlan
  BY <1>2, BeginKeeps
<1>3. CASE StageFails \/ Crash \/ VerifyBlocked \/ ScoreUnfounded \/ EndDisputed \/ Plan
  BY <1>3, EndSteps
<1>4. CASE CollectAnswer \/ CaptureStopped \/ EnsureContainer
  BY <1>4, CollectKeeps
<1>5. CASE Prepare \/ RecordDispute \/ PolicyRestored \/ PolicyAccepted \/ TakeSnapshot
  BY <1>5, QuestionSteps
<1>6. CASE KeepCaptured \/ PublishInitialCode \/ KeepClaude
  BY <1>6, HandOver
<1>7. CASE PolicyRejected
  BY <1>7, RejectKeeps
<1>8. CASE Reserve \/ TypePrompt \/ SaveResult
  BY <1>8, CallSteps
<1>9. CASE Stop \/ Answer \/ Upgrade \/ Extend
  BY <1>9, AroundKeeps
<1>10. CASE Verify
  BY <1>10, VerifyKeeps
<1>11. CASE ScoreRestored \/ StartScore
  BY <1>11, GoesOn
<1>12. CASE RateScore
  BY <1>12, RateKeeps
<1>13. CASE Score
  BY <1>13, ScoreKeeps
<1>14. CASE Deliver
  BY <1>14, DeliverKeeps
<1>15. CASE RefuseDelivery
  BY <1>15, RefuseKeeps
<1>16. CASE Archive
  BY <1>16, ArchiveKeeps
<1> QED
  BY <1>1, <1>2, <1>3, <1>4, <1>5, <1>6, <1>7, <1>8, <1>9, <1>10, <1>11, <1>12, <1>13,
     <1>14, <1>15, <1>16 DEF Next

-----------------------------------------------------------------------------
(* The theorems.                                                           *)

\* What the cache, the running attempt, the calls and the receipt hold fits
\* together at every step, whatever was restored (job-executor.mjs).
THEOREM PipelineInductive == Spec => []JInv
<1>1. Init => JInv
  BY InitInvariant
<1>2. JInv /\ [Next]_vars => JInv'
  BY StepInvariant
<1> QED
  BY <1>1, <1>2, PTL DEF Spec

\* A question that an audit rejected over its kept answer is never archived
\* (submitted-policy.mjs, job-executor.mjs:1352-1357).
THEOREM DisputesEnd == Spec => []DisputedNeverArchived
<1>1. JInv => DisputedNeverArchived
  BY DEF JInv, DisputeInv, DisputedNeverArchived
<1> QED
  BY <1>1, PipelineInductive, PTL

\* The attempt that takes a refusal up offers another rating than the refused
\* one, although finished calls answer as they did: its inputs differ, by the
\* advice or by a report made again (job-executor.mjs:1112-1122,
\* codex-stages.mjs:470-500).
THEOREM RefusalHeeded == Spec => []RefusedNotOffered
<1>1. JInv => RefusedNotOffered
  <2> SUFFICES ASSUME JInv, In("deliver"), job.reconsidered,
                      job.mem.score.rating = refused.score.rating
               PROVE  FALSE
    BY DEF RefusedNotOffered
  <2>1. /\ job # None /\ job.pc = "deliver"
    BY DEF In
  <2>2. /\ job.mem.runtime \in Report /\ ScoreKey.runtime = job.mem.runtime
        /\ ScoreKey.advised = job.advised /\ refused # None
        /\ job.advised = refused.by \/ job.mem.runtime.by = attempts
        /\ attempts \in Nat
    BY <2>1, LateFacts DEF Scored
  <2>3. /\ RatedAs(Ratings, ScoreKey, job.mem.score.rating)
        /\ RatedAs(Ratings, refused.score.key, refused.score.rating)
    BY <2>1, <2>2 DEF JInv, StageInv, RefusalInv, Scored
  <2>4. ScoreKey = refused.score.key
    BY <2>3 DEF JInv, RatingInv, RatedAs
  <2>5. /\ refused.by \in Nat /\ refused.by < attempts
        /\ refused.score.key.advised # refused.by
        /\ refused.score.key.runtime.by <= refused.by
        /\ refused.score.key.runtime \in Report
    BY <2>1, <2>2 DEF JInv, TypeInv, RefusalInv, Maybe, Refusal
  <2>6. job.mem.runtime.by \in Nat
    BY <2>2 DEF Report
  <2> QED
    BY <2>2, <2>4, <2>5, <2>6
<1> QED
  BY <1>1, PipelineInductive, PTL

-----------------------------------------------------------------------------
(* The question of a known interaction.                                    *)

LEMMA QuestionStays ==
  ASSUME JInv, [Next]_vars, cache.claude # None \/ box.pending # None, cache.prepare # None
  PROVE  cache'.prepare = cache.prepare
<1>1. cache \in Cache
  BY DEF JInv, TypeInv
<1>3. job # None /\ job.pc # "rate" => job.mem = cache
  BY CopyIsCache
<1>4. CASE Begin \/ BeginPlan
  <2>1. Preserved /\ cache' = Upgraded(Preserved)
    BY <1>4 DEF Preserved, Begin, BeginPlan, Start
  <2>2. CASE cache.version = release
    BY <2>1, <2>2 DEF Upgraded
  <2>3. CASE cache.version # release
    <3>1. cache' = [cache EXCEPT !.version = release, !.prepare = cache.prepare,
                                 !.score = None, !.delivery = None, !.next = FALSE]
      BY <2>1, <2>3 DEF Upgraded
    <3> QED
      BY <1>1, <3>1 DEF Cache
  <2> QED
    BY <2>2, <2>3
<1>5. CASE PolicyRejected
  <2>1. job # None /\ job.pc = "audit" /\ job.mem = cache
    BY <1>3, <1>5 DEF PolicyRejected, In
  <2>2. ~ RevisionAllowed
    <3>1. ~ job.preserve => box.pending = None
      BY <2>1, EarlyFacts DEF BeforeCall, Early
    <3> QED
      BY <2>1, <3>1 DEF RevisionAllowed
  <2> QED
    BY <1>5, <2>2 DEF PolicyRejected
<1>6. CASE Prepare
  <2>1. job.mem = cache
    BY <1>3, <1>6 DEF Prepare, In
  <2>2. cache' = [cache EXCEPT !.prepare = cache.prepare]
    BY <1>6, <2>1 DEF Prepare, Persist
  <2> QED
    BY <1>1, <2>2 DEF Cache
<1>7. CASE CollectAnswer \/ KeepCaptured \/ KeepClaude
  <2>1. job.mem = cache
    BY <1>3, <1>7 DEF CollectAnswer, KeepCaptured, KeepClaude, In
  <2>2. \E a : cache' = [cache EXCEPT !.claude = a]
    BY <1>7, <2>1 DEF CollectAnswer, KeepCaptured, KeepClaude, Persist
  <2> QED
    BY <1>1, <2>2 DEF Cache
<1>8. CASE RecordDispute \/ PolicyRestored \/ PolicyAccepted \/ TakeSnapshot
  <2>1. job.mem = cache
    BY <1>3, <1>8 DEF RecordDispute, PolicyRestored, PolicyAccepted, TakeSnapshot, In
  <2>2. \/ cache' = cache \/ \E x : cache' = [cache EXCEPT !.dispute = x]
        \/ \E x : cache' = [cache EXCEPT !.policy = x]
        \/ \E x : cache' = [cache EXCEPT !.snapshot = x]
    BY <1>8, <2>1 DEF RecordDispute, PolicyRestored, PolicyAccepted, TakeSnapshot, Persist
  <2> QED
    BY <1>1, <2>2 DEF Cache
<1>9. CASE Verify \/ VerifyBlocked \/ ScoreUnfounded
  <2>1. job # None /\ job.mem = cache
    BY <1>3, <1>9 DEF Verify, VerifyBlocked, ScoreUnfounded, In
  <2>2. job \in Job
    BY <2>1, JobTypes DEF JInv
  <2> DEFINE dropped == [cache EXCEPT !.score = None, !.delivery = None]
             base == IF Reconsidered THEN WithoutScore(job.mem) ELSE job.mem
  <2>3. WithoutScore(job.mem) = dropped
    BY <2>1 DEF WithoutScore
  <2>4. dropped \in Cache /\ dropped.prepare = cache.prepare
    <3>1. None \in Maybe(ScoreRecord) /\ None \in Maybe(Delivery)
      BY DEF Maybe
    <3> QED
      BY <1>1, <3>1 DEF Cache
  <2> HIDE DEF dropped
  <2>6. base \in Cache /\ base.prepare = cache.prepare
    BY <1>1, <2>1, <2>3, <2>4
  <2>7. CASE ScoreUnfounded
    BY <2>3, <2>4, <2>7 DEF ScoreUnfounded
  <2>8. CASE VerifyBlocked
    <3>1. cache' = [base EXCEPT !.next = FALSE, !.runtime = None]
      BY <2>8 DEF VerifyBlocked
    <3> HIDE DEF base
    <3> QED
      BY <2>6, <3>1 DEF Cache
  <2>9. CASE Verify
    <3> DEFINE m == [base EXCEPT !.next = FALSE]
    <3>1. PICK reused \in BOOLEAN :
            /\ job' = [job EXCEPT !.pc = "score", !.reconsidered = Reconsidered,
                                  !.advised = IF Reconsidered /\ reused THEN refused.by ELSE None,
                                  !.mem = [m EXCEPT !.runtime =
                                             IF reused THEN m.runtime
                                             ELSE [key |-> RuntimeKey, release |-> release,
                                                   by |-> attempts]]]
            /\ cache' = job'.mem
      BY <2>9 DEF Verify
    <3> HIDE DEF base
    <3>2. m \in Cache /\ m.prepare = cache.prepare
      BY <2>6 DEF Cache
    <3> HIDE DEF m
    <3> DEFINE report == IF reused THEN m.runtime
                         ELSE [key |-> RuntimeKey, release |-> release, by |-> attempts]
               advice == IF Reconsidered /\ reused THEN refused.by ELSE None
               full == [m EXCEPT !.runtime = report]
    <3>3. /\ job' = [job EXCEPT !.pc = "score", !.reconsidered = Reconsidered,
                                !.advised = advice, !.mem = full]
          /\ cache' = job'.mem
      BY <3>1
    <3>4. full.prepare = m.prepare
      BY <3>2 DEF Cache
    <3> HIDE DEF advice, full
    <3>5. cache' = full
      BY <2>2, <3>3 DEF Job
    <3> QED
      BY <3>2, <3>4, <3>5
  <2> QED
    BY <1>9, <2>7, <2>8, <2>9
<1>10. CASE Deliver \/ Archive
  <2>1. job.mem = cache
    BY <1>3, <1>10 DEF Deliver, Archive, In
  <2>2. \/ \E x : cache' = [cache EXCEPT !.delivery = x]
        \/ \E x : cache' = [cache EXCEPT !.completed = x]
    BY <1>10, <2>1 DEF Deliver, Archive, Persist
  <2> QED
    BY <1>1, <2>2 DEF Cache
<1>11. CASE Plan
  <2>1. job.mem = cache
    BY <1>3, <1>11 DEF Plan, In
  <2>2. \E x : cache' = [cache EXCEPT !.next = x]
    BY <1>11, <2>1 DEF Plan
  <2> QED
    BY <1>1, <2>2 DEF Cache
<1>12. CASE Score
  <2>1. job \in Job /\ job.mem \in Cache /\ job.mem = [cache EXCEPT !.score = None]
    BY <1>12, RateFacts DEF Score
  <2>2. job.mem.prepare = cache.prepare
    BY <1>1, <2>1 DEF Cache
  <2>3. \E x : cache' = [job.mem EXCEPT !.score = x]
    BY <1>12 DEF Score
  <2> QED
    BY <2>1, <2>2, <2>3 DEF Cache
<1>13. CASE ScoreRestored
  BY <1>3, <1>13 DEF ScoreRestored, Persist, In
<1>14. CASE \/ StageFails \/ Crash \/ CaptureStopped \/ Stop \/ Reserve \/ TypePrompt \/ Answer
            \/ SaveResult \/ StartScore \/ RateScore \/ RefuseDelivery \/ EndDisputed
            \/ Upgrade \/ Extend
  BY <1>14 DEF StageFails, Crash, CaptureStopped, Stop, Reserve, TypePrompt, Answer, SaveResult,
     StartScore, RateScore, RefuseDelivery, EndDisputed, Upgrade, Extend
<1>15. CASE EnsureContainer \/ PublishInitialCode
  BY <1>15 DEF EnsureContainer, PublishInitialCode, At
<1>16. CASE UNCHANGED vars
  BY <1>16 DEF vars
<1> QED
  BY <1>4, <1>5, <1>6, <1>7, <1>8, <1>9, <1>10, <1>11, <1>12, <1>13, <1>14, <1>15, <1>16 DEF Next

\* The question of an interaction that the cache or the container's record knows
\* of is never prepared again: not by an upgrade, a retry, a revision or a crash
\* (job-executor.mjs:240-261, question-cache.mjs).
THEOREM SentQuestionStays == Spec => KnownQuestionKept
<1>1. JInv /\ [Next]_vars =>
        [ (cache.claude # None \/ box.pending # None) /\ cache.prepare # None
            => cache'.prepare = cache.prepare ]_vars
  BY QuestionStays
<1> QED
  BY <1>1, PipelineInductive, PTL DEF Spec, KnownQuestionKept

-----------------------------------------------------------------------------
(* The initial state.                                                      *)

\* The product changes only after the prompt is marked as sent, the record keeps
\* that mark until it has the answer, and what is recorded is of the code before.
SentInv ==
  /\ source # 0 => box.result # None \/ box.phase = "sent"
  /\ box.phase # None => box.pending # None
  /\ job # None /\ job.pc \in {"audit", "snapshot", "publish", "call"} => job.mem.prepare # None
  /\ SnapshotIsInitial

\* Only one step takes a snapshot.
LEMMA SnapshotStays ==
  ASSUME JInv, [Next]_vars, ~ TakeSnapshot
  PROVE  cache'.snapshot = cache.snapshot
<1>1. cache \in Cache
  BY DEF JInv, TypeInv
<1>3. job # None /\ job.pc # "rate" => job.mem = cache
  BY CopyIsCache
<1>4. CASE Begin \/ BeginPlan
  <2>1. cache' = Upgraded(Preserved)
    BY <1>4 DEF Begin, BeginPlan, Start
  <2>2. CASE cache.version = release
    BY <2>1, <2>2 DEF Upgraded
  <2>3. CASE cache.version # release
    <3>1. \E x : cache' = [cache EXCEPT !.version = release, !.prepare = x,
                                      !.score = None, !.delivery = None, !.next = FALSE]
      BY <2>1, <2>3 DEF Upgraded
    <3> QED
      BY <1>1, <3>1 DEF Cache
  <2> QED
    BY <2>2, <2>3
<1>5. CASE PolicyRejected
  <2>1. job.mem = cache
    BY <1>3, <1>5 DEF PolicyRejected, In
  <2>2. \/ cache' = cache
        \/ cache' = [cache EXCEPT !.revised = TRUE, !.prepare = None, !.policy = None]
    BY <1>5, <2>1 DEF PolicyRejected
  <2> QED
    BY <1>1, <2>2 DEF Cache
<1>6. CASE Prepare
  <2>1. job.mem = cache
    BY <1>3, <1>6 DEF Prepare, In
  <2>2. \E x : cache' = [cache EXCEPT !.prepare = x]
    BY <1>6, <2>1 DEF Prepare, Persist
  <2> QED
    BY <1>1, <2>2 DEF Cache
<1>7. CASE CollectAnswer \/ KeepCaptured \/ KeepClaude
  <2>1. job.mem = cache
    BY <1>3, <1>7 DEF CollectAnswer, KeepCaptured, KeepClaude, In
  <2>2. \E a : cache' = [cache EXCEPT !.claude = a]
    BY <1>7, <2>1 DEF CollectAnswer, KeepCaptured, KeepClaude, Persist
  <2> QED
    BY <1>1, <2>2 DEF Cache
<1>8. CASE RecordDispute \/ PolicyRestored \/ PolicyAccepted
  <2>1. job.mem = cache
    BY <1>3, <1>8 DEF RecordDispute, PolicyRestored, PolicyAccepted, In
  <2>2. \/ cache' = cache \/ \E x : cache' = [cache EXCEPT !.dispute = x]
        \/ \E x : cache' = [cache EXCEPT !.policy = x]
    BY <1>8, <2>1 DEF RecordDispute, PolicyRestored, PolicyAccepted, Persist
  <2> QED
    BY <1>1, <2>2 DEF Cache
<1>9. CASE Verify \/ VerifyBlocked \/ ScoreUnfounded
  <2>1. job # None /\ job.mem = cache
    BY <1>3, <1>9 DEF Verify, VerifyBlocked, ScoreUnfounded, In
  <2>2. job \in Job
    BY <2>1, JobTypes DEF JInv
  <2> DEFINE dropped == [cache EXCEPT !.score = None, !.delivery = None]
             base == IF Reconsidered THEN WithoutScore(job.mem) ELSE job.mem
  <2>3. WithoutScore(job.mem) = dropped
    BY <2>1 DEF WithoutScore
  <2>4. dropped \in Cache /\ dropped.snapshot = cache.snapshot
    <3>1. None \in Maybe(ScoreRecord) /\ None \in Maybe(Delivery)
      BY DEF Maybe
    <3> QED
      BY <1>1, <3>1 DEF Cache
  <2> HIDE DEF dropped
  <2>6. base \in Cache /\ base.snapshot = cache.snapshot
    BY <1>1, <2>1, <2>3, <2>4
  <2>7. CASE ScoreUnfounded
    BY <2>3, <2>4, <2>7 DEF ScoreUnfounded
  <2>8. CASE VerifyBlocked
    <3>1. cache' = [base EXCEPT !.next = FALSE, !.runtime = None]
      BY <2>8 DEF VerifyBlocked
    <3> HIDE DEF base
    <3> QED
      BY <2>6, <3>1 DEF Cache
  <2>9. CASE Verify
    <3> DEFINE m == [base EXCEPT !.next = FALSE]
    <3>1. PICK reused \in BOOLEAN :
            /\ job' = [job EXCEPT !.pc = "score", !.reconsidered = Reconsidered,
                                  !.advised = IF Reconsidered /\ reused THEN refused.by ELSE None,
                                  !.mem = [m EXCEPT !.runtime =
                                             IF reused THEN m.runtime
                                             ELSE [key |-> RuntimeKey, release |-> release,
                                                   by |-> attempts]]]
            /\ cache' = job'.mem
      BY <2>9 DEF Verify
    <3> HIDE DEF base
    <3>2. m \in Cache /\ m.snapshot = cache.snapshot
      BY <2>6 DEF Cache
    <3> HIDE DEF m
    <3> DEFINE report == IF reused THEN m.runtime
                         ELSE [key |-> RuntimeKey, release |-> release, by |-> attempts]
               advice == IF Reconsidered /\ reused THEN refused.by ELSE None
               full == [m EXCEPT !.runtime = report]
    <3>3. /\ job' = [job EXCEPT !.pc = "score", !.reconsidered = Reconsidered,
                                !.advised = advice, !.mem = full]
          /\ cache' = job'.mem
      BY <3>1
    <3>4. full.snapshot = m.snapshot
      BY <3>2 DEF Cache
    <3> HIDE DEF advice, full
    <3>5. cache' = full
      BY <2>2, <3>3 DEF Job
    <3> QED
      BY <3>2, <3>4, <3>5
  <2> QED
    BY <1>9, <2>7, <2>8, <2>9
<1>10. CASE Deliver \/ Archive
  <2>1. job.mem = cache
    BY <1>3, <1>10 DEF Deliver, Archive, In
  <2>2. \/ \E x : cache' = [cache EXCEPT !.delivery = x]
        \/ \E x : cache' = [cache EXCEPT !.completed = x]
    BY <1>10, <2>1 DEF Deliver, Archive, Persist
  <2> QED
    BY <1>1, <2>2 DEF Cache
<1>11. CASE Plan
  <2>1. job.mem = cache
    BY <1>3, <1>11 DEF Plan, In
  <2>2. \E x : cache' = [cache EXCEPT !.next = x]
    BY <1>11, <2>1 DEF Plan
  <2> QED
    BY <1>1, <2>2 DEF Cache
<1>12. CASE Score
  <2>1. job \in Job /\ job.mem \in Cache /\ job.mem = [cache EXCEPT !.score = None]
    BY <1>12, RateFacts DEF Score
  <2>2. job.mem.snapshot = cache.snapshot
    BY <1>1, <2>1 DEF Cache
  <2>3. \E x : cache' = [job.mem EXCEPT !.score = x]
    BY <1>12 DEF Score
  <2> QED
    BY <2>1, <2>2, <2>3 DEF Cache
<1>13. CASE ScoreRestored
  BY <1>3, <1>13 DEF ScoreRestored, Persist, In
<1>14. CASE \/ StageFails \/ Crash \/ CaptureStopped \/ Stop \/ Reserve \/ TypePrompt \/ Answer
            \/ SaveResult \/ StartScore \/ RateScore \/ RefuseDelivery \/ EndDisputed
            \/ Upgrade \/ Extend
  BY <1>14 DEF StageFails, Crash, CaptureStopped, Stop, Reserve, TypePrompt, Answer, SaveResult,
     StartScore, RateScore, RefuseDelivery, EndDisputed, Upgrade, Extend
<1>15. CASE EnsureContainer \/ PublishInitialCode
  BY <1>15 DEF EnsureContainer, PublishInitialCode, At
<1>16. CASE UNCHANGED vars
  BY <1>16 DEF vars
<1> QED
  BY <1>4, <1>5, <1>6, <1>7, <1>8, <1>9, <1>10, <1>11, <1>12, <1>13, <1>14, <1>15, <1>16 DEF Next

\* A box step keeps the mark, or leaves an answer in its place.
LEMMA BoxKeepsMark ==
  ASSUME JInv, SentInv, [Next]_vars
  PROVE  /\ source' # 0 => box'.result # None \/ box'.phase = "sent"
         /\ box'.phase # None => box'.pending # None
<1>1. box \in Box
  BY DEF JInv, TypeInv
<1>2. CASE Reserve
  <2>1. job # None /\ job.pc = "call" /\ job.mem.prepare # None
    BY <1>2 DEF Reserve, In, SentInv
  <2>2. box' = [box EXCEPT !.pending = job.mem.prepare, !.phase = "reserved"] /\ source' = source
        /\ box.pending = None
    BY <1>2 DEF Reserve
  <2>3. source' # 0 => box.result # None
    BY <2>2, NoneIsNone DEF SentInv
  <2> QED
    BY <1>1, <2>1, <2>2, <2>3 DEF Box
<1>3. CASE TypePrompt
  <2>1. /\ box' = [box EXCEPT !.phase = "sent", !.typed = job.mem.prepare]
        /\ box.phase = "reserved"
    BY <1>3 DEF TypePrompt
  <2>2. box.pending # None
    BY <2>1, NoneIsNone DEF SentInv
  <2> QED
    BY <1>1, <2>1, <2>2 DEF Box
<1>4. CASE SaveResult
  <2>1. box' = [box EXCEPT !.result = box.answer, !.pending = None, !.phase = None]
        /\ box.answer # None
    BY <1>4 DEF SaveResult
  <2> QED
    BY <1>1, <2>1 DEF Box
<1>5. CASE CaptureStopped
  <2>1. \E x : /\ box' = [box EXCEPT !.result = x, !.pending = None, !.phase = None]
               /\ x # None
    BY <1>5, NoneIsNone DEF CaptureStopped
  <2> QED
    BY <1>1, <2>1 DEF Box
<1>6. CASE Answer \/ Stop \/ EnsureContainer
  <2>1. source' = source
    BY <1>6 DEF Answer, Stop, EnsureContainer
  <2>2. \/ box' = box \/ \E x : box' = [box EXCEPT !.status = x]
        \/ \E x : box' = [box EXCEPT !.answer = x]
    BY <1>6 DEF Answer, Stop, EnsureContainer
  <2>3. box'.result = box.result /\ box'.phase = box.phase /\ box'.pending = box.pending
    BY <1>1, <2>2 DEF Box
  <2> QED
    BY <2>1, <2>3 DEF SentInv
<1>7. CASE UNCHANGED <<box, source>>
  BY <1>7 DEF SentInv
<1>8. \/ Reserve \/ TypePrompt \/ SaveResult \/ CaptureStopped \/ Answer \/ Stop
      \/ EnsureContainer \/ UNCHANGED <<box, source>>
  BY DEF Next, vars, Begin, BeginPlan, StageFails, Crash, CollectAnswer, KeepCaptured, Prepare,
     RecordDispute, PolicyRestored, PolicyAccepted, PolicyRejected, TakeSnapshot,
     PublishInitialCode, KeepClaude, Verify, VerifyBlocked, ScoreRestored, StartScore, RateScore,
     Score, ScoreUnfounded, Deliver, RefuseDelivery, EndDisputed, Archive, Plan, Upgrade, Extend
<1> QED
  BY <1>2, <1>3, <1>4, <1>5, <1>6, <1>7, <1>8

\* From the audit to the call the attempt has its question.
LEMMA QuestionAtHand ==
  ASSUME JInv, SentInv, [Next]_vars, job' # None,
         job'.pc \in {"audit", "snapshot", "publish", "call"}
  PROVE  job'.mem.prepare # None
<1>1. job # None => job \in Job /\ job.mem \in Cache
  BY JobTypes DEF JInv
<1>2. attempts # None
  BY NoneIsNone DEF JInv, TypeInv
<1>3. CASE job' = job
  BY <1>3 DEF SentInv
<1>4. CASE Prepare
  <2>1. job # None /\ job' = [job EXCEPT !.pc = "audit",
                                !.mem = [job.mem EXCEPT !.prepare = IF job.mem.prepare # None
                                                       THEN job.mem.prepare ELSE attempts]]
    BY <1>4 DEF Prepare, Persist, In
  <2>2. job'.mem = [job.mem EXCEPT !.prepare = IF job.mem.prepare # None
                                               THEN job.mem.prepare ELSE attempts]
    BY <1>1, <2>1 DEF Job
  <2>3. job'.mem.prepare = IF job.mem.prepare # None THEN job.mem.prepare ELSE attempts
    BY <1>1, <2>1, <2>2 DEF Cache
  <2> QED
    BY <1>2, <2>3
<1>5. CASE RecordDispute \/ PolicyRestored \/ PolicyAccepted \/ TakeSnapshot
  <2>1. job # None /\ job.pc \in {"audit", "snapshot"}
    BY <1>5 DEF RecordDispute, PolicyRestored, PolicyAccepted, TakeSnapshot, In
  <2> DEFINE Moved(m) == \E pc : job' = [job EXCEPT !.pc = pc, !.mem = m]
  <2>2. \E m : Moved(m) /\ m.prepare = job.mem.prepare
    <3>1. CASE PolicyRestored
      BY <3>1 DEF PolicyRestored, Persist
    <3>2. CASE RecordDispute
      <4>1. Moved([job.mem EXCEPT !.dispute = TRUE])
        BY <3>2 DEF RecordDispute, Persist
      <4> QED
        BY <1>1, <2>1, <4>1 DEF Cache
    <3>3. CASE PolicyAccepted
      <4> DEFINE m == [job.mem EXCEPT !.policy = [key |-> PolicyKey]]
      <4>1. Moved(m)
        BY <3>3 DEF PolicyAccepted, Persist
      <4>2. m.prepare = job.mem.prepare
        BY <1>1, <2>1 DEF Cache
      <4> HIDE DEF m, Moved
      <4> QED
        BY <4>1, <4>2
    <3>4. CASE TakeSnapshot
      <4> DEFINE taken == IF AlreadySent THEN job.mem.snapshot ELSE source
                 m == [job.mem EXCEPT !.snapshot = taken]
      <4>1. Moved(m)
        BY <3>4 DEF TakeSnapshot, Persist
      <4> HIDE DEF taken
      <4>2. m.prepare = job.mem.prepare
        BY <1>1, <2>1 DEF Cache
      <4> HIDE DEF m, Moved
      <4> QED
        BY <4>1, <4>2
    <3> QED
      BY <1>5, <3>1, <3>2, <3>3, <3>4
  <2>3. PICK m : Moved(m) /\ m.prepare = job.mem.prepare
    BY <2>2
  <2>4. job'.mem = m
    BY <1>1, <2>1, <2>3 DEF Job
  <2> QED
    BY <2>1, <2>3, <2>4 DEF SentInv
<1>6. CASE PublishInitialCode
  <2>1. job # None /\ job.pc = "publish"
        /\ (job' = None \/ \E pc : job' = [job EXCEPT !.pc = pc, !.mem = job.mem])
    BY <1>6 DEF PublishInitialCode, At, Fails, In
  <2>2. job'.mem = job.mem
    BY <1>1, <2>1 DEF Job
  <2> QED
    BY <2>1, <2>2 DEF SentInv
<1>7. CASE Begin \/ BeginPlan \/ PolicyRejected
  <2>1. job' # None => job'.pc \in {"collect", "plan"}
    BY <1>7 DEF Begin, BeginPlan, Start, PolicyRejected, Fails
  <2> QED
    BY <2>1
<1>8. CASE CaptureStopped
  BY <1>1, <1>8 DEF CaptureStopped, Job, In
<1>9. CASE \/ CollectAnswer \/ KeepCaptured \/ EnsureContainer \/ KeepClaude \/ ScoreRestored
           \/ Deliver \/ Archive
  <2>1. job # None
    BY <1>9 DEF CollectAnswer, KeepCaptured, EnsureContainer, KeepClaude, ScoreRestored, Deliver,
       Archive, In
  <2>2. \/ job' = None
        \/ \E pc \in {"prepare", "verify", "deliver", "archive", "plan"} : \E m :
             job' = [job EXCEPT !.pc = pc, !.mem = m]
    BY <1>9 DEF CollectAnswer, KeepCaptured, EnsureContainer, KeepClaude, ScoreRestored, Deliver,
       Archive, Persist, At, Fails
  <2> QED
    BY <1>1, <2>1, <2>2 DEF Job
<1>10. CASE Verify \/ StartScore \/ RateScore \/ Score
  <2>1. job # None
    BY <1>10 DEF Verify, StartScore, RateScore, Score, In
  <2>2. job'.pc \in {"score", "rate", "deliver"}
    <3>1. CASE Verify
      <4>1. \E reused \in BOOLEAN : \E m :
              job' = [job EXCEPT !.pc = "score", !.reconsidered = Reconsidered,
                                 !.advised = IF Reconsidered /\ reused THEN refused.by ELSE None,
                                 !.mem = m]
        BY <3>1 DEF Verify
      <4> QED
        BY <1>1, <2>1, <4>1 DEF Job
    <3>2. CASE StartScore
      <4>1. job'.pc = "rate"
        BY <1>1, <2>1, <3>2 DEF StartScore, Job
      <4> QED
        BY <4>1
    <3>3. CASE RateScore
      <4>1. job'.pc = job.pc
        BY <1>1, <2>1, <3>3 DEF RateScore, Job
      <4> QED
        BY <3>3, <4>1 DEF RateScore, In
    <3>4. CASE Score
      <4>1. \E m : job' = [job EXCEPT !.pc = "deliver", !.review = None, !.mem = m]
        BY <3>4 DEF Score
      <4> QED
        BY <1>1, <2>1, <4>1 DEF Job
    <3> QED
      BY <1>10, <3>1, <3>2, <3>3, <3>4
  <2> QED
    BY <2>2
<1>11. CASE \/ StageFails \/ Crash \/ VerifyBlocked \/ ScoreUnfounded \/ RefuseDelivery
            \/ EndDisputed \/ Plan
  BY <1>11 DEF StageFails, Crash, VerifyBlocked, ScoreUnfounded, RefuseDelivery, EndDisputed,
     Plan, Fails
<1>12. CASE \/ Stop \/ Reserve \/ TypePrompt \/ Answer \/ SaveResult \/ Upgrade \/ Extend
            \/ UNCHANGED vars
  BY <1>3, <1>12 DEF Stop, Reserve, TypePrompt, Answer, SaveResult, Upgrade, Extend, vars
<1> QED
  BY <1>4, <1>5, <1>6, <1>7, <1>8, <1>9, <1>10, <1>11, <1>12 DEF Next

\* A snapshot is taken only of code that no prompt was sent for.
LEMMA SnapshotOfInitial == JInv /\ SentInv /\ TakeSnapshot => SnapshotIsInitial'
<1> SUFFICES ASSUME JInv, SentInv, TakeSnapshot PROVE SnapshotIsInitial'
  OBVIOUS
<1>1. job # None /\ job.mem = cache /\ cache \in Cache
  BY CopyIsCache DEF TakeSnapshot, In, JInv, TypeInv
<1>2. cache' = [cache EXCEPT !.snapshot = IF AlreadySent THEN cache.snapshot ELSE source]
  BY <1>1 DEF TakeSnapshot, Persist
<1>3. cache'.snapshot = IF AlreadySent THEN cache.snapshot ELSE source
  BY <1>1, <1>2 DEF Cache
<1>4. ~ AlreadySent => source = 0
  BY NoneIsNone DEF AlreadySent, SentInv
<1> QED
  BY <1>3, <1>4 DEF SnapshotIsInitial, SentInv

\* The snapshot recorded as the initial state is of the code before Claude worked
\* on it, whatever was cut off or tried again since (job-executor.mjs:992-1024).
THEOREM SnapshotStaysInitial == Spec => []SnapshotIsInitial
<1>1. Init => SentInv
  BY DEF Init, EmptyCache, EmptyBox, SentInv, SnapshotIsInitial
<1>2. JInv /\ SentInv /\ [Next]_vars => SentInv'
  <2> SUFFICES ASSUME JInv, SentInv, [Next]_vars PROVE SentInv'
    OBVIOUS
  <2>1. SnapshotIsInitial'
    BY SnapshotOfInitial, SnapshotStays DEF SentInv, SnapshotIsInitial
  <2> QED
    BY <2>1, BoxKeepsMark, QuestionAtHand DEF SentInv
<1>3. SentInv => SnapshotIsInitial
  BY DEF SentInv
<1> QED
  BY <1>1, <1>2, <1>3, PipelineInductive, PTL DEF Spec

\* What is archived is of one piece: it counts from the initial state, and holds
\* the report of the code and question archived, the score of that report and the
\* delivery of that score (job-executor.mjs:373-434).
THEOREM ArchivedIsWhole == Spec => []ResultOfOnePiece
<1>1. JInv /\ SnapshotIsInitial => ResultOfOnePiece
  BY DEF JInv, CacheInv, OnePiece, ResultOfOnePiece
<1> QED
  BY <1>1, PipelineInductive, SnapshotStaysInitial, PTL

=============================================================================
