----------------------------- MODULE CodexProcess -----------------------------
(***************************************************************************)
(* One evaluator process after another (scripts/codex-process.mjs), called *)
(* by executeStage (scripts/codex-stages.mjs).  A call is identified by    *)
(* its exact input; a receipt of that name records the process, its thread *)
(* and a digest of the trace copied so far.  The process may outlive the   *)
(* runner that started it, and the runner may stop between any two writes: *)
(* the next call of the same input refuses, resumes or starts afresh.      *)
(***************************************************************************)
EXTENDS Integers

CONSTANT Inputs     \* stage and prompt of the calls: the key of a receipt

VARIABLES
    receipts,   \* receipts[i]: status, whether it names a thread, and whether
                \* its digest is that of the trace file
    call,       \* the call this runner waits for, in memory
    living      \* processes of an input that were given its prompt and live

NoReceipt == [status |-> "none", thread |-> FALSE, trace |-> FALSE]
NoCall == [at |-> "none"]
NoProcesses == [i \in Inputs |-> 0]
NoReceipts == [i \in Inputs |-> NoReceipt]

ProcessTypeOK ==
    /\ receipts \in [Inputs -> [status : {"none", "running", "interrupted", "complete"},
                                thread : BOOLEAN, trace : BOOLEAN]]
    /\ \/ call = NoCall
       \/ call \in [at : {"spawned", "working", "appended", "answered", "failed"},
                    input : Inputs, chunks : 0 .. 2]
    /\ living \in [Inputs -> Nat]

ProcessInit == receipts = NoReceipts /\ call = NoCall /\ living = NoProcesses

(* The receipt's pid still has the identity it had.                        *)
NeverAlive(i) == FALSE      \* mutant: a living process is not looked for
Alive(i) == receipts[i].status # "none" /\ living[i] > 0

Resumable(i) == receipts[i].status \in {"running", "interrupted"} /\ receipts[i].thread

(* A resumed trace must be the one recorded.                               *)
Torn(i) == Resumable(i) /\ ~receipts[i].trace
Refused(i) == Alive(i) \/ Torn(i)

(* The process is started and recorded, keeping the thread it resumes; it  *)
(* is given its prompt last.  One that is not given any ends by itself.    *)
Launch(i) ==
    /\ call = NoCall /\ ~Refused(i)
    /\ receipts' = [receipts EXCEPT ![i] =
           [status |-> "running", thread |-> Resumable(i), trace |-> FALSE]]
    /\ call' = [at |-> "spawned", input |-> i, chunks |-> 0]
    /\ UNCHANGED living

SendPrompt ==
    /\ call.at = "spawned"
    /\ call' = [call EXCEPT !.at = "working"]
    /\ living' = [living EXCEPT ![call.input] = @ + 1]
    /\ UNCHANGED receipts

(* Output is appended to the trace and then recorded; two pieces stand for *)
(* the first, which names the thread, and any later one.                   *)
AppendOutput ==
    /\ call.at = "working" /\ call.chunks < 2
    /\ call' = [call EXCEPT !.at = "appended", !.chunks = @ + 1]
    /\ receipts' = [receipts EXCEPT ![call.input].trace = FALSE]
    /\ UNCHANGED living

RecordOutput ==
    /\ call.at = "appended"
    /\ call' = [call EXCEPT !.at = "working"]
    /\ receipts' = [receipts EXCEPT ![call.input].thread = TRUE, ![call.input].trace = TRUE]
    /\ UNCHANGED living

Ended(status, at) ==
    /\ call.at = "working"
    /\ call' = [call EXCEPT !.at = at]
    /\ receipts' = [receipts EXCEPT ![call.input].status = status, ![call.input].trace = TRUE]
    /\ living' = [living EXCEPT ![call.input] = @ - 1]

ExitWell == call.at = "working" /\ call.chunks > 0 /\ Ended("complete", "answered")

(* An exit code, no progress for long, or another thread than resumed.     *)
ExitBadly == Ended("interrupted", "failed")

ProcessStep == SendPrompt \/ AppendOutput \/ RecordOutput \/ ExitWell

(* The runner died: its processes go on for a while without being heard.   *)
Outlive == call' = NoCall /\ UNCHANGED <<receipts, living>>

ExitUnheard(i) ==
    /\ living[i] > (IF call.at \in {"working", "appended"} /\ call.input = i THEN 1 ELSE 0)
    /\ living' = [living EXCEPT ![i] = @ - 1]
    /\ UNCHANGED <<receipts, call>>

=============================================================================
