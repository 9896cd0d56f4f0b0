------------------------------ MODULE Scoring ------------------------------
(***************************************************************************)
(* How a turn is scored: one full rating, then a bounded number of repairs *)
(* of what the checks find in it.  A finished call is kept in a file named *)
(* by its inputs, so that a later attempt at the turn gets the same answer *)
(* without another call; the attempt's number is no part of that name.     *)
(* Code: codexStage and runStage of scripts/codex-stages.mjs, with         *)
(* score-clarity-repair.mjs, score-citation-repair.mjs and the checks in   *)
(* evidence.mjs and lib/score-*.mjs.                                       *)
(***************************************************************************)
EXTENDS Naturals, FiniteSets

CONSTANTS
  None,
  FlawSets,       \* bound: what may be wrong with one answer, sets of Flaws
  MaxFlawed       \* bound: flawed answers among the finished calls

\* What the checks of an answer may find: its expression; a full mark whose text
\* tells of a problem; references that lead nowhere; texts that repeat earlier
\* ones; problems told without what came of them; lines that do not exist.
Flaws == {"wording", "signals", "citations", "repeated", "vague", "lines"}

ASSUME ScoringAssumption ==
  FlawSets \subseteq SUBSET Flaws /\ {} \in FlawSets /\ MaxFlawed \in Nat

VARIABLE
  scoreCheckpoints  \* finished calls, each an input and its answer

scoringInit == scoreCheckpoints = {}

\* The calls, in the order in which they may be made.
FullRatings == {"first", "second"}
Patches == {"wording", "secondWording", "clarity", "citations"}

\* Mutant: the advice on a refused score is no part of a call's inputs.
InputUnadvised(key, at) ==
  [key |-> [key EXCEPT !.advised = None], step |-> at.step, base |-> at.answer]

\* What a call is asked: the stage's inputs, and the answer it starts from.
Input(key, at) == [key |-> key, step |-> at.step, base |-> at.answer]

(***************************************************************************)
(* What may be answered.                                                   *)
(***************************************************************************)
Ratings == {c \in scoreCheckpoints : c.input.step \in FullRatings}
Flawed == {c \in scoreCheckpoints : c.answer.flaws # {}}

\* A patch replaces the texts it was asked to, and nothing else of the rating:
\* only the texts of the references can mend, and only they can break, citations.
PatchKeeps(step, base, flaws) ==
  IF step = "citations" THEN flaws \ {"citations"} = base.flaws \ {"citations"}
  ELSE ("citations" \in flaws) = ("citations" \in base.flaws)

Answers(at) ==
  {a \in [rating : {IF at.step \in FullRatings THEN Cardinality(Ratings) + 1 ELSE at.answer.rating},
          flaws : FlawSets, patched : {at.step \in Patches}] :
     /\ at.step \in Patches => PatchKeeps(at.step, at.answer, a.flaws)
     /\ a.flaws # {} => Cardinality(Flawed) < MaxFlawed}

\* A call that was finished is not made again.
AnswersTo(key, at) ==
  LET kept == {c \in scoreCheckpoints : c.input = Input(key, at)} IN
  IF kept # {} THEN {c.answer : c \in kept} ELSE Answers(at)

(***************************************************************************)
(* What follows an answer.                                                 *)
(***************************************************************************)
checkWriting(a) == a.flaws \cap {"wording"}
scoreConsistencyIssues(a) == a.flaws \cap {"signals"}
verifyScoreEvidence(a) == a.flaws \cap {"citations"}
scoreDescriptionIssues(a) == a.flaws \cap {"repeated"}
scoreDescriptionGroundingIssues(a) == a.flaws \cap {"vague"}
verifyMentionedScoreLines(a) == a.flaws \cap {"lines"}

scoreReviewIssues(a) ==
  UNION {scoreConsistencyIssues(a), scoreDescriptionIssues(a), scoreDescriptionGroundingIssues(a),
         verifyScoreEvidence(a), verifyMentionedScoreLines(a)}

Ends == {"done", "thrown"}
ThrowIf(issues, otherwise) == IF issues # {} THEN "thrown" ELSE otherwise

\* The second rating is mended in this order; what is found in it at last throws.
AtLast(a) ==
  ThrowIf(UNION {verifyMentionedScoreLines(a), checkWriting(a), scoreDescriptionIssues(a),
                 scoreDescriptionGroundingIssues(a)}, "done")
MendCitations(a) == IF verifyScoreEvidence(a) # {} THEN "citations" ELSE AtLast(a)
MendClarity(a) == IF scoreConsistencyIssues(a) # {} THEN "clarity" ELSE MendCitations(a)

\* The step after an answer.  A flaw that its own repair leaves ends the stage.
After(step, a) ==
  CASE step = "first" ->
         IF scoreReviewIssues(a) # {} THEN "second"
         ELSE IF checkWriting(a) # {} THEN "wording" ELSE "done"
    [] step = "wording" ->
         ThrowIf(checkWriting(a), IF scoreReviewIssues(a) # {} THEN "second" ELSE "done")
    [] step = "second" -> IF checkWriting(a) # {} THEN "secondWording" ELSE MendClarity(a)
    [] step = "secondWording" -> ThrowIf(checkWriting(a), MendClarity(a))
    [] step = "clarity" -> ThrowIf(scoreConsistencyIssues(a), MendCitations(a))
    [] step = "citations" -> ThrowIf(verifyScoreEvidence(a), AtLast(a))

FirstCall == [step |-> "first", answer |-> None]

\* One call of a stage that is at a step, with the inputs the key stands for.
Rates(key, at, a) ==
  /\ a \in AnswersTo(key, at)
  /\ scoreCheckpoints' = scoreCheckpoints \cup {[input |-> Input(key, at), answer |-> a]}

Rated(at, a) == [step |-> After(at.step, a), answer |-> a]

=============================================================================
