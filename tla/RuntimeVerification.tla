------------------------ MODULE RuntimeVerification ------------------------
(***************************************************************************)
(* The independent verification of one turn's product: a plan of checks,   *)
(* each business case executed in a fresh container and copy of the        *)
(* source, a diagnosis of the logs, a report.  The plan checkpoint, the    *)
(* receipts of the cases, the diagnosis checkpoint and the last report are *)
(* files; a later attempt at the same turn goes on from them, possibly     *)
(* after the source has changed, or the context of regressions, which the  *)
(* reports of earlier turns give it.  Code: scripts/                       *)
(* runtime-verification.mjs, runtime-case-execution.mjs,                   *)
(* runtime-plan-checkpoint.mjs, runtime-plan-preflight.mjs,                *)
(* runtime-retry-context.mjs, project-regression-context.mjs and the       *)
(* verification part of job-executor.mjs.                                  *)
(***************************************************************************)
EXTENDS Naturals, Sequences, FiniteSets

CONSTANTS
  Checks,         \* the business checks, in the order of the plan
  Setup,          \* the setup steps, run before each of them
  Texts,          \* what each step may say
  None,           \* no plan, no report
  MaxSource,      \* bound: versions of the product's source
  MaxRegression,  \* bound: versions of the regression context
  MaxExecutions,  \* bound: executions of a case
  MaxChanges      \* bound: changes of the source or of the regression context

Case == {Checks[i] : i \in DOMAIN Checks}
Scripts == UNION {Texts[c] : c \in Case \cup {Setup}}
Plan == {p \in [setup : Texts[Setup], check : [Case -> Scripts]] :
           \A c \in Case : p.check[c] \in Texts[c]}

\* What an attempt verifies: the source and the context of regressions.
Input == [source : 1..MaxSource, regression : 1..MaxRegression]
FirstInput == [source |-> 1, regression |-> 1]

PlanCheckpoint == [input : Input, plan : Plan]

\* The steps of a plan have distinct ids.
ASSUME RuntimeVerificationAssumption ==
  /\ Checks \in Seq(Case)
  /\ \A i, j \in DOMAIN Checks : Checks[i] = Checks[j] => i = j
  /\ None \notin PlanCheckpoint
  /\ MaxSource \in Nat \ {0} /\ MaxRegression \in Nat \ {0}
  /\ MaxExecutions \in Nat /\ MaxChanges \in Nat

\* "0" and "1": the check's own exit code; "open": neither, a timeout, an output
\* limit or a change of the source; "setup": a setup step failed before the check.
Exit == {"0", "1", "open", "setup"}

\* What was executed, and how it ended.
Run == [source : 1..MaxSource, setup : Scripts, case : Case, check : Scripts, exit : Exit]

\* What the receipts of a case are filed under; not the context of regressions.
KeyWithoutSetup(s, p, c) == <<s, c, p.check[c]>>
Key(s, p, c) == <<s, p.setup, c, p.check[c]>>

Completed(r) == r.exit \in {"0", "1"}

VARIABLES
  input,          \* the product's source and the regression context, as they are now
  planned,        \* cached.runtimePlanCheckpoint
  good,           \* runtime-progress/: runs that completed, by key
  stuck,          \* runtime-blocked/: runs that did not, by key
  checkpoint,     \* cached.runtimeDiagnosisCheckpoint, and whether its report exists
  report,         \* cached.runtimeVerification
  stage,          \* where the attempt is
  frozen,         \* the source its manifest lists, the regression context it was given
  plan,           \* its plan
  position,       \* the business check it has come to
  runs,           \* the runs of its execution
  written,        \* the report it has written
  executions,     \* how many cases have been executed
  changes,        \* how often the input has changed
  unseen,         \* history: keys filed as stuck, the log shown to no maker of a plan since
  lost            \* history: those of them before which a plan was made from nothing

files == <<planned, good, stuck, checkpoint, report>>
memory == <<stage, frozen, plan, position, runs, written>>
used == <<executions, changes>>
history == <<unseen, lost>>
vars == <<input, files, memory, used, history>>

Evidence == [input : Input, plan : Plan, runs : SUBSET Run, reported : BOOLEAN]
Report == [input : Input, plan : Plan, runs : SUBSET Run,
           status : {"passed", "bugs", "blocked"}, blocked : SUBSET (Case \cup {Setup})]

RuntimeTypeOK ==
  /\ input \in Input
  /\ planned \in {None} \cup PlanCheckpoint
  /\ \A g \in good : g.run \in Run /\ Completed(g.run)
  /\ \A t \in stuck : t.run \in Run
  /\ checkpoint \in {None} \cup Evidence
  /\ {report, written} \subseteq {None} \cup Report
  /\ stage \in {"idle", "planning", "cases", "ran", "diagnosing", "written", "verified"}
  /\ frozen \in Input
  /\ position \in 1..(Len(Checks) + 1)
  /\ runs \subseteq Run

Idle ==
  /\ stage = "idle" /\ frozen = FirstInput /\ plan = None
  /\ position = 1 /\ runs = {} /\ written = None

GoIdle ==
  /\ stage' = "idle" /\ frozen' = FirstInput /\ plan' = None
  /\ position' = 1 /\ runs' = {} /\ written' = None

Init ==
  /\ input = FirstInput
  /\ planned = None /\ good = {} /\ stuck = {} /\ checkpoint = None /\ report = None
  /\ Idle
  /\ executions = 0 /\ changes = 0 /\ unseen = {} /\ lost = {}

(***************************************************************************)
(* What an attempt starts from.                                            *)
(***************************************************************************)
Reusable == report # None /\ report.status # "blocked" /\ report.input = input

Resumable == checkpoint # None /\ ~checkpoint.reported /\ checkpoint.input = input

\* The checks the last report found blocked, when it speaks of this source; "Valid old
\* failure feedback remains useful after adding regression coverage".
Feedback ==
  IF report # None /\ report.status = "blocked" /\ report.input.source = frozen.source
  THEN report.blocked ELSE {}

Reuse ==
  /\ stage = "idle" /\ Reusable
  /\ stage' = "verified"
  /\ checkpoint' = None
  /\ UNCHANGED <<input, planned, good, stuck, report, frozen, plan, position, runs,
                 written, used, history>>

Resume ==
  /\ stage = "idle" /\ ~Reusable /\ Resumable
  /\ stage' = "diagnosing"
  /\ frozen' = checkpoint.input /\ plan' = checkpoint.plan /\ runs' = checkpoint.runs
  /\ UNCHANGED <<input, files, position, written, used, history>>

\* A fresh directory with the manifest of the source as it is now.
Verify ==
  /\ stage = "idle" /\ ~Reusable /\ ~Resumable
  /\ checkpoint' = None
  /\ stage' = "planning" /\ frozen' = input
  /\ UNCHANGED <<input, planned, good, stuck, report, plan, position, runs, written,
                 used, history>>

(***************************************************************************)
(* The plan: the saved one, one with its blocked steps rewritten, or a new *)
(* one.  A plan that fails its two preflights is an Interrupt.             *)
(***************************************************************************)
Saved == planned # None /\ planned.input = frozen

Receipts(k) == {g \in good : g.key = k}

IncompleteForgotten == {}
Incomplete ==
  {t \in stuck : /\ t.key \in {Key(frozen.source, planned.plan, c) : c \in Case}
                 /\ Receipts(t.key) = {}}

ToRepair ==
  Feedback \cup {t.run.case : t \in Incomplete}
           \cup {Setup : t \in {i \in Incomplete : i.run.exit = "setup"}}

\* Only the blocked steps are rewritten, and not all of them need be.
Repairs(p) ==
  {q \in Plan : /\ Setup \in ToRepair \/ q.setup = p.setup
                /\ \A c \in Case \ ToRepair : q.check[c] = p.check[c]}

\* The blocked runs whose logs whoever makes the plan is given: those of the saved plan
\* that did not complete, and those the last report found blocked.
Shown ==
  {t.key : t \in {i \in stuck : Saved /\ i \in Incomplete}}
    \cup {Key(frozen.source, report.plan, c) : c \in Feedback \cap Case}

Planned(p) ==
  /\ planned' = [input |-> frozen, plan |-> p]
  /\ plan' = p
  /\ stage' = "cases"
  /\ UNCHANGED <<input, good, stuck, checkpoint, report, frozen, position, runs, written,
                 used>>

KeepPlan ==
  /\ stage = "planning" /\ Saved /\ ToRepair = {}
  /\ Planned(planned.plan)
  /\ UNCHANGED history

RepairPlan ==
  /\ stage = "planning" /\ Saved /\ ToRepair # {}
  /\ \E p \in Repairs(planned.plan) : Planned(p)
  /\ unseen' = unseen \ Shown /\ lost' = lost \ Shown

\* Nothing of the incomplete runs is shown to whoever makes a new plan, who may take its
\* checks from the project's suite as they are.
NewPlan ==
  /\ stage = "planning" /\ ~Saved
  /\ \E p \in Plan : Planned(p)
  /\ unseen' = unseen \ Shown /\ lost' = unseen \ Shown

(***************************************************************************)
(* The cases, each in its own container.                                   *)
(***************************************************************************)
Here == Checks[position]
HereKey == Key(frozen.source, plan, Here)
Left == position <= Len(Checks)

MayRestore == Here \notin Feedback /\ Receipts(HereKey) # {}

Restore ==
  /\ stage = "cases" /\ Left /\ MayRestore
  /\ runs' = runs \cup {g.run : g \in Receipts(HereKey)}
  /\ position' = position + 1
  /\ UNCHANGED <<input, files, stage, frozen, plan, written, used, history>>

\* The container starts from the source the manifest lists, or not at all.
Unchanged == input.source = frozen.source

Execute ==
  /\ stage = "cases" /\ Left /\ ~MayRestore
  /\ Unchanged
  /\ executions < MaxExecutions
  /\ executions' = executions + 1
  /\ \E e \in Exit :
       runs' = runs \cup {[source |-> input.source, setup |-> plan.setup, case |-> Here,
                          check |-> plan.check[Here], exit |-> e]}
  /\ stage' = "ran"
  /\ UNCHANGED <<input, files, frozen, plan, position, written, changes, history>>

JustRan == CHOOSE r \in runs : r.case = Here
Filed == [key |-> HereKey, run |-> JustRan]

Kept(removed) == Completed(JustRan) /\ removed

\* The container is removed and the outcome filed; a removal that fails ends the attempt.
File ==
  /\ stage = "ran"
  /\ \E removed \in BOOLEAN :
       LET kept == Kept(removed)
       IN /\ good' = IF kept THEN (good \ Receipts(HereKey)) \cup {Filed} ELSE good
          /\ stuck' = IF kept THEN stuck
                      ELSE {t \in stuck : t.key # HereKey} \cup {Filed}
          /\ unseen' = IF kept THEN unseen ELSE unseen \cup {HereKey}
          /\ lost' = IF kept THEN lost ELSE lost \ {HereKey}
          /\ IF removed THEN /\ stage' = "cases"
                             /\ position' = position + 1
                             /\ UNCHANGED <<frozen, plan, runs, written>>
                        ELSE GoIdle
  /\ UNCHANGED <<input, planned, checkpoint, report, used>>

\* All cases done, or the budget used up before the next one.
Conclude ==
  /\ stage = "cases" /\ runs # {}
  /\ stage' = "diagnosing"
  /\ checkpoint' =
       IF /\ \A c \in Case : \E r \in runs : r.case = c
          /\ \A r \in runs : Completed(r)
          /\ Unchanged
       THEN [input |-> frozen, plan |-> plan, runs |-> runs, reported |-> FALSE]
       ELSE checkpoint
  /\ UNCHANGED <<input, planned, good, stuck, report, frozen, plan, position, runs, written,
                 used, history>>

(***************************************************************************)
(* The diagnosis and the report.                                           *)
(***************************************************************************)
\* Whatever did not complete can only be called blocked.
Verdicts ==
  LET seen == {r.case : r \in {x \in runs : x.exit # "setup"}}
  IN {b \in SUBSET (seen \cup {Setup}) : \A r \in runs : r.exit = "open" => r.case \in b}

Status(b) ==
  IF b # {} \/ \E c \in Case : ~\E r \in runs : r.case = c /\ r.exit # "setup"
  THEN "blocked"
  ELSE IF \E r \in runs : r.exit = "1" THEN "bugs" ELSE "passed"

WriteReport ==
  /\ stage = "diagnosing"
  /\ Unchanged
  /\ \E b \in Verdicts :
       written' = [input |-> frozen, plan |-> plan, runs |-> runs,
                   status |-> Status(b), blocked |-> b]
  /\ checkpoint' = IF checkpoint = None THEN None ELSE [checkpoint EXCEPT !.reported = TRUE]
  /\ stage' = "written"
  /\ UNCHANGED <<input, planned, good, stuck, report, frozen, plan, position, runs,
                 used, history>>

Adopt ==
  /\ stage = "written"
  /\ report' = written
  /\ checkpoint' = None
  /\ IF written.status = "blocked" THEN GoIdle
     ELSE stage' = "verified" /\ UNCHANGED <<frozen, plan, position, runs, written>>
  /\ UNCHANGED <<input, planned, good, stuck, used, history>>

\* The later stages of the job are done with the report, or have failed.
Leave ==
  /\ stage = "verified"
  /\ GoIdle
  /\ UNCHANGED <<input, files, used, history>>

\* An exception, a failed stage or the death of the runner.
Interrupt ==
  /\ stage \notin {"idle", "verified"}
  /\ GoIdle
  /\ UNCHANGED <<input, files, used, history>>

\* Whoever has the working directory changes the product, or changes it back.
SourceChanges ==
  /\ changes < MaxChanges /\ changes' = changes + 1
  /\ \E s \in 1..MaxSource \ {input.source} : input' = [input EXCEPT !.source = s]
  /\ UNCHANGED <<files, memory, executions, history>>

\* The reports of earlier turns, or the checks this one is to repair, are others now.
RegressionChanges ==
  /\ changes < MaxChanges /\ changes' = changes + 1
  /\ \E g \in 1..MaxRegression \ {input.regression} :
       input' = [input EXCEPT !.regression = g]
  /\ UNCHANGED <<files, memory, executions, history>>

Next ==
  \/ Reuse \/ Resume \/ Verify
  \/ KeepPlan \/ RepairPlan \/ NewPlan
  \/ Restore \/ Execute \/ File \/ Conclude
  \/ WriteReport \/ Adopt \/ Leave \/ Interrupt
  \/ SourceChanges \/ RegressionChanges

Spec == Init /\ [][Next]_vars

(***************************************************************************)
(* Properties.                                                             *)
(***************************************************************************)
\* A report that is not blocked, and a checkpoint that may become one, rests on one
\* completed run of every business check, with the plan's own command after the plan's
\* own setup, on the very source the report is about; whatever was restored, resumed or
\* repaired on the way.
Backed(e) ==
  /\ {r.case : r \in e.runs} = Case
  /\ \A r \in e.runs : /\ Completed(r)
                       /\ r.source = e.input.source
                       /\ r.setup = e.plan.setup
                       /\ r.check = e.plan.check[r.case]
                       /\ \A q \in e.runs : q.case = r.case => q = r

ReportsBacked ==
  /\ checkpoint # None => Backed(checkpoint)
  /\ \A e \in {report, written} \ {None} : e.status # "blocked" => Backed(e)

\* A command that was filed as not completed is not executed again, in any later attempt,
\* before its log was shown to whoever makes the plans; unless a plan was since made from
\* nothing, or the command has completed at another time.
NoBlindReplay ==
  [][stage = "cases" /\ stage' = "ran" /\ HereKey \in unseen
       => HereKey \in lost \/ Receipts(HereKey) # {}]_vars

=============================================================================
