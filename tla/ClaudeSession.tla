--------------------------- MODULE ClaudeSession ---------------------------
(***************************************************************************)
(* The Claude sessions of one task: its container record, the executor     *)
(* that types prompts, the close that exports and removes a container, the *)
(* Terminal bridge that outlives the runner, and the quota of the store.   *)
(*                                                                         *)
(* A question has one container, created for its first turn and used by    *)
(* its repairs and continuations; it is named by its first turn.  The      *)
(* runner keeps container.json (rec), and one of its calls at a time works *)
(* on it (job): an attempt at a turn or a finalization, which the runner   *)
(* keeps apart.  The call saves rec with every change it makes, so that an *)
(* exception in it and the death of the runner are the same step,          *)
(* Interrupt, possible everywhere.  The container, the bridge and what     *)
(* Docker was asked to do go on.                                           *)
(***************************************************************************)
EXTENDS Naturals, Sequences, FiniteSets

CONSTANTS LastTurn,    \* the turns of the task are 1 .. LastTurn
          Root,        \* the turn that opened the question of a turn
          Text,        \* what a turn's prompt says: turns may say the same
          Gateway,     \* turns that continue after a gateway error
          MaxLogical,  \* sessionLimits.maxLogicalTurns
          MaxCalls,    \* sessionLimits.maxCalls
          MaxRequests  \* bound: requests waiting at the bridge

Turns == 1 .. LastTurn
NoTurn == 0
MaybeTurn == Turns \cup {NoTurn}
First(u) == Root[u] = u

ASSUME SessionAssumption ==
  /\ LastTurn \in Nat \ {0}
  /\ Root \in [Turns -> Turns]
  /\ \A u \in Turns : Root[u] <= u /\ First(Root[u])
  /\ \A u, v \in Turns : u <= v => Root[u] <= Root[v]
  /\ DOMAIN Text = Turns
  /\ Gateway \subseteq {u \in Turns : ~First(u)}
  /\ MaxLogical \in Nat /\ MaxCalls \in Nat /\ MaxRequests \in Nat

VARIABLES rec,       \* <task>/container.json
          archive,   \* container-<question>.json: the results of earlier questions
          job,       \* the call in progress: its step and, of an attempt, its turn
          latest,    \* the last turn claimed: the store goes through them in order
          calls,     \* the store's claudeAttempts
          launching, \* the question whose Terminal was opened, its container not up yet
          box,       \* the container of each question
          native,    \* the prompts in each container's native trace
          copied,    \* the trace in the newest copy the bridge made
          bridge,    \* the Terminal of rec.question
          typed      \* history: the turns whose prompt was pasted

files   == <<rec, archive>>
docker  == <<launching, box, native>>
vars    == <<files, job, latest, calls, docker, copied, bridge, typed>>

-----------------------------------------------------------------------------
(* Values *)

\* turn NoTurn: nothing pending; before: the prompts the trace held already
Pending == [turn : MaybeTurn, sent : BOOLEAN, before : 0 .. LastTurn]
NothingPending == [turn |-> NoTurn, sent |-> FALSE, before |-> 0]

\* the answer kept for a turn is that of the prompt-th prompt of the trace
Result == [turn : Turns, prompt : Turns]

\* what the record knows of the newest copy or removal it asked the bridge for
Known == {"none", "pending", "uncertain", "failed"}

ContainerRecord ==
  [question  : MaybeTurn,
   status    : {"absent", "running", "error", "stopped", "exported", "removed"},
   pending   : Pending,
   results   : SUBSET Result,
   asked     : [{"copy", "removal"} -> Known],
   finalized : BOOLEAN]

NothingAsked == [copy |-> "none", removal |-> "none"]

NewRecord(q) ==
  [question |-> q, status |-> IF q = NoTurn THEN "absent" ELSE "running",
   pending |-> NothingPending, results |-> {}, asked |-> NothingAsked, finalized |-> FALSE]

\* queue: the requests at its socket; receipt: of the newest copy and removal;
\* started: docker rm was begun; late: Docker may still do one that timed out
Bridge ==
  [status  : {"none", "up", "dead", "ended"},
   queue   : Seq({"copy", "removal"}),
   receipt : [{"copy", "removal"} -> {"none", "succeeded", "uncertain", "failed"}],
   started : BOOLEAN,
   late    : BOOLEAN]

NewBridge(status) ==
  [status |-> status, queue |-> <<>>, receipt |-> NothingAsked,
   started |-> FALSE, late |-> FALSE]

Prompt == [turn : Turns, state : {"asked", "answered", "failed"}]

Steps == {"idle", "ensure", "launch", "await", "execute", "reserve", "paste", "enter",
          "observe", "close", "export", "copy", "remove", "removal", "complete"}
NoJob == [step |-> "idle", turn |-> NoTurn]

SessionInit ==
  /\ rec = NewRecord(NoTurn) /\ archive = {}
  /\ job = NoJob
  /\ latest = NoTurn /\ calls = {}
  /\ launching = NoTurn
  /\ box = [q \in Turns |-> "none"]
  /\ native = [q \in Turns |-> <<>>]
  /\ copied = [q \in Turns |-> <<>>]
  /\ bridge = NewBridge("none")
  /\ typed = {}

-----------------------------------------------------------------------------
(* The record, the container and the trace. *)

At(step) == job.step = step
Goto(step) == job' = [job EXCEPT !.step = step]
EndJob == job' = NoJob

Here == rec.question
HereIs(state) == rec.status # "absent" /\ box[Here] = state
Recorded(results) == {r.turn : r \in results}

\* readNativeTurn: the first prompt that says what the turn's says, of those
\* that were not there before it was reserved
Matches(u) == {i \in (rec.pending.before + 1) .. Len(native[Here]) :
                 Text[native[Here][i].turn] = Text[u]}
Answered(u) == \E i \in Matches(u) :
  /\ \A j \in Matches(u) : i <= j
  /\ native[Here][i].state # "asked"

\* saveNativeResult
SaveResult(u, status) ==
  \E i \in Matches(u) :
    /\ \A j \in Matches(u) : i <= j
    /\ rec' = [rec EXCEPT !.results = @ \cup {[turn |-> u, prompt |-> i]},
                          !.pending = NothingPending,
                          !.status = status]

\* assertNativeSessionIdle: the last prompt is answered and the answer kept; a
\* failed one only closes the session whose plan names it
Quiet(states) ==
  LET last == Len(native[Here]) IN
  last > 0 => /\ native[Here][last].state \in states
              /\ \E r \in rec.results : r.prompt = last

-----------------------------------------------------------------------------
(* Attempts: the container. *)

\* the store claims the turns in order; a turn may be attempted again
Begin(u) ==
  /\ job = NoJob /\ u >= latest
  /\ job' = [step |-> "ensure", turn |-> u]
  /\ latest' = u
  /\ UNCHANGED <<files, calls, docker, copied, bridge, typed>>

\* a turn whose container has stopped under its prompt
Stopped(u) == rec.pending.turn = u /\ rec.status # "removed" /\ box[Here] # "running"

CaptureStopped(u) ==
  /\ At("ensure") /\ job.turn = u
  /\ Stopped(u) /\ rec.pending.sent /\ Here = Root[u]
  /\ box[Here] = "stopped" /\ Answered(u)
  /\ SaveResult(u, "stopped")
  /\ EndJob
  /\ UNCHANGED <<archive, latest, calls, docker, copied, bridge, typed>>

Departed == rec.status = "absent" \/ (rec.status = "removed" /\ rec.finalized)

\* the intent is saved before the container exists
Intend(u) ==
  /\ At("ensure") /\ job.turn = u
  /\ Departed /\ Here # Root[u] /\ (First(u) \/ rec.status = "absent")
  /\ archive' = archive \cup rec.results
  /\ rec' = NewRecord(Root[u])
  /\ bridge' = NewBridge("none")
  /\ Goto("launch")
  /\ UNCHANGED <<latest, calls, docker, copied, typed>>

\* another question's container has to be closed first
Rotate(u) ==
  /\ At("ensure") /\ job.turn = u
  /\ ~Departed /\ First(u) /\ Here # u
  /\ Goto("close")
  /\ UNCHANGED <<files, latest, calls, docker, copied, bridge, typed>>

Attach(u) ==
  /\ At("ensure") /\ job.turn = u
  /\ Here = Root[u] /\ rec.status # "removed"
  /\ HereIs("running") /\ bridge.status = "up"
  /\ Goto("execute")
  /\ UNCHANGED <<files, latest, calls, docker, copied, bridge, typed>>

Launch(u) ==
  /\ At("launch") /\ job.turn = u
  /\ launching' = Here
  /\ bridge' = NewBridge("up")
  /\ Goto("await")
  /\ UNCHANGED <<files, latest, calls, box, native, copied, typed>>

Await(u) ==
  /\ At("await") /\ job.turn = u
  /\ HereIs("running") /\ bridge.status = "up"
  /\ Goto("execute")
  /\ UNCHANGED <<files, latest, calls, docker, copied, bridge, typed>>

\* the Terminal or the container does not come up in time; it may do so later
CreationFailed(u) ==
  /\ At("launch") \/ At("await")
  /\ job.turn = u
  /\ rec' = [rec EXCEPT !.status = "error"]
  /\ EndJob
  /\ UNCHANGED <<archive, latest, calls, docker, copied, bridge, typed>>

-----------------------------------------------------------------------------
(* Attempts: the prompt. *)

\* the turns of a session that count as questions or repairs
Logical == Recorded(rec.results) \ Gateway

\* assertGatewayIdle: the last prompt is the one that failed
GatewayIdle == HereIs("running") /\ native[Here] # <<>> /\ Quiet({"failed"})

MayPrepare(u) ==
  /\ HereIs("running")
  /\ IF u \in Gateway THEN GatewayIdle ELSE Cardinality(Logical) < MaxLogical
  /\ rec.results # {} => ~First(u)
  /\ rec.results = {} => native[Here] = <<>>

\* mutant: the prompts that are there already are not remembered
NoneBefore == 0

Before == Len(native[Here])

\* mutant: what another turn left pending is not minded
PendingIgnored == TRUE

NothingIsPending == rec.pending.turn = NoTurn

Prepare(u) ==
  /\ At("execute") /\ job.turn = u
  /\ u \notin Recorded(rec.results) /\ rec.pending.turn # u /\ NothingIsPending
  /\ MayPrepare(u)
  /\ rec' = [rec EXCEPT !.pending = [turn |-> u, sent |-> FALSE, before |-> Before]]
  /\ Goto("reserve")
  /\ UNCHANGED <<archive, latest, calls, docker, copied, bridge, typed>>

\* the answer is kept already, or the prompt was prepared or sent before
Resume(u) ==
  /\ At("execute") /\ job.turn = u
  /\ \/ u \in Recorded(rec.results) /\ EndJob
     \/ /\ u \notin Recorded(rec.results) /\ rec.pending.turn = u
        /\ Goto(IF rec.pending.sent THEN "observe" ELSE "reserve")
  /\ UNCHANGED <<files, latest, calls, docker, copied, bridge, typed>>

CallsOf(q) == {v \in calls : Root[v] = q}

\* reserve-claude: an attempt that has its call gets the same answer again
QuotaLeft(u) == u \in calls \/ Cardinality(CallsOf(Root[u])) < MaxCalls

Marked == [rec EXCEPT !.pending.sent = TRUE]

Reserve(u) ==
  /\ At("reserve") /\ job.turn = u /\ QuotaLeft(u)
  /\ u \in Gateway => GatewayIdle
  /\ calls' = calls \cup {u}
  /\ rec' = Marked
  /\ Goto("paste")
  /\ UNCHANGED <<archive, latest, docker, copied, bridge, typed>>

\* the answer is lost, or what follows it fails
ReserveLost(u) ==
  /\ At("reserve") /\ job.turn = u /\ QuotaLeft(u)
  /\ calls' = calls \cup {u}
  /\ EndJob
  /\ UNCHANGED <<files, latest, docker, copied, bridge, typed>>

\* the session has no call left, or the project no question of this kind
ReserveRefused(u) ==
  /\ At("reserve") /\ job.turn = u
  /\ u \notin calls /\ (~QuotaLeft(u) \/ First(u))
  /\ rec' = [rec EXCEPT !.pending = NothingPending]
  /\ EndJob
  /\ UNCHANGED <<archive, latest, calls, docker, copied, bridge, typed>>

\* the bridge hands input to Claude while its container runs
TakesInput == HereIs("running") /\ bridge.status = "up"

Paste(u) ==
  /\ At("paste") /\ job.turn = u /\ TakesInput
  /\ typed' = typed \cup {u}
  /\ Goto("enter")
  /\ UNCHANGED <<files, latest, calls, docker, copied, bridge>>

Enter(u) ==
  /\ At("enter") /\ job.turn = u /\ TakesInput
  /\ native' = [native EXCEPT ![Here] = Append(@, [turn |-> u, state |-> "asked"])]
  /\ Goto("observe")
  /\ UNCHANGED <<files, latest, calls, launching, box, copied, bridge, typed>>

Observe(u) ==
  /\ At("observe") /\ job.turn = u
  /\ HereIs("running") /\ Answered(u)
  /\ SaveResult(u, rec.status)
  /\ EndJob
  /\ UNCHANGED <<archive, latest, calls, docker, copied, bridge, typed>>

-----------------------------------------------------------------------------
(* Closing a container: exit, export, remove, complete. *)

\* the queue of finalizations, on a plan that may be stale
Finalize ==
  /\ job = NoJob
  /\ rec.status # "absent" /\ ~rec.finalized /\ rec.pending.turn = NoTurn
  /\ job' = [step |-> "close", turn |-> NoTurn]
  /\ UNCHANGED <<files, latest, calls, docker, copied, bridge, typed>>

\* mutant: the trace alone is asked whether the session is idle
MayExitQuiet == Quiet({"answered", "failed"})

MayExit ==
  /\ rec.pending.turn = NoTurn
  /\ Quiet(IF job.turn = NoTurn THEN {"answered", "failed"} ELSE {"answered"})

ExitTerminal ==
  /\ At("close") /\ rec.status # "removed"
  /\ TakesInput /\ MayExit
  /\ box' = [box EXCEPT ![Here] = "stopped"]
  /\ UNCHANGED <<files, job, latest, calls, launching, native, copied, bridge, typed>>

MarkStopped ==
  /\ At("close") /\ rec.status # "removed" /\ HereIs("stopped")
  /\ rec' = [rec EXCEPT !.status = "stopped"]
  /\ Goto("export")
  /\ UNCHANGED <<archive, latest, calls, docker, copied, bridge, typed>>

\* the container is gone or the record says so: what is left is done again
CloseAgain ==
  /\ At("close")
  /\ \/ rec.status = "removed" /\ Goto("complete")
     \/ rec.status = "exported" /\ HereIs("gone") /\ Goto("remove")
  /\ UNCHANGED <<files, latest, calls, docker, copied, bridge, typed>>

\* a command known to have failed is asked for anew, any other under its old
\* operation id, whose receipt answers it
Ask(command) ==
  LET anew == rec.asked[command] = "failed" IN
  /\ bridge.status = "up" /\ Len(bridge.queue) < MaxRequests
  /\ rec' = [rec EXCEPT !.asked[command] = "pending"]
  /\ bridge' = [bridge EXCEPT
       !.queue = Append(@, command),
       !.receipt[command] = IF anew THEN "none" ELSE @,
       !.started = IF anew /\ command = "removal" THEN FALSE ELSE @]
  /\ Goto(command)
  /\ UNCHANGED <<archive, latest, calls, docker, copied, typed>>

Export == At("export") /\ HereIs("stopped") /\ Ask("copy")

\* the bridge is done with our request, the last one: its receipt is the answer
Replied(command) == At(command) /\ bridge.queue = <<>>

TraceRequired == rec.results # {} \/ rec.pending.sent

\* mutant: whatever was copied is good
CopyAccepted == TRUE

CopyVerified ==
  /\ bridge.receipt.copy = "succeeded"
  /\ TraceRequired => copied[Here] # <<>>

CopyDone ==
  /\ Replied("copy") /\ CopyVerified
  /\ rec' = [rec EXCEPT !.status = "exported"]
  /\ Goto("remove")
  /\ UNCHANGED <<archive, latest, calls, docker, copied, bridge, typed>>

CommandFailed(command) ==
  /\ Replied(command) /\ bridge.receipt[command] \in {"uncertain", "failed"}
  /\ rec' = [rec EXCEPT !.asked[command] = bridge.receipt[command]]
  /\ EndJob
  /\ UNCHANGED <<archive, latest, calls, docker, copied, bridge, typed>>

Remove == At("remove") /\ box[Here] \in {"stopped", "gone"} /\ Ask("removal")

RemovalDone ==
  /\ Replied("removal") /\ bridge.receipt.removal = "succeeded"
  /\ rec' = [rec EXCEPT !.status = "removed"]
  /\ Goto("complete")
  /\ UNCHANGED <<archive, latest, calls, docker, copied, bridge, typed>>

\* the bridge's own check before it ends
MayEnd ==
  /\ bridge.status = "up" /\ bridge.queue = <<>>
  /\ bridge.receipt.copy = "succeeded" /\ bridge.receipt.removal = "succeeded"
  /\ HereIs("gone")

\* finalizeTerminal: the Terminal ends, and an attempt that closed its
\* predecessor's container goes on
Complete ==
  /\ At("complete")
  /\ \/ bridge.status = "ended" /\ UNCHANGED bridge
     \/ MayEnd /\ bridge' = [bridge EXCEPT !.status = "ended"]
  /\ rec' = [rec EXCEPT !.finalized = TRUE]
  /\ IF job.turn = NoTurn THEN EndJob ELSE Goto("ensure")
  /\ UNCHANGED <<archive, latest, calls, docker, copied, typed>>

CompleteLost ==
  /\ At("complete") /\ MayEnd
  /\ bridge' = [bridge EXCEPT !.status = "ended"]
  /\ EndJob
  /\ UNCHANGED <<files, latest, calls, docker, copied, typed>>

\* an exception in the call, or the death of the runner
Interrupt ==
  /\ job # NoJob /\ EndJob
  /\ UNCHANGED <<files, latest, calls, docker, copied, bridge, typed>>

-----------------------------------------------------------------------------
(* The bridge (terminal-session.py): one request after the other, once the *)
(* container has stopped.  A receipt, once final, answers every repetition.*)

Serves(command) ==
  /\ bridge.status = "up" /\ ~HereIs("running")
  /\ bridge.queue # <<>> /\ Head(bridge.queue) = command

Served(command, receipt) ==
  bridge' = [bridge EXCEPT !.queue = Tail(@), !.receipt[command] = receipt]

ServeCopy ==
  /\ Serves("copy")
  /\ \/ /\ bridge.receipt.copy = "none" /\ HereIs("stopped")
        /\ Served("copy", "succeeded")
        /\ copied' = [copied EXCEPT ![Here] = native[Here]]
     \/ /\ bridge.receipt.copy = "none"
        /\ \/ Served("copy", "failed")
           \/ HereIs("stopped") /\ Served("copy", "uncertain")
        /\ UNCHANGED copied
     \/ /\ bridge.receipt.copy # "none"
        /\ Served("copy", bridge.receipt.copy)
        /\ UNCHANGED copied
  /\ UNCHANGED <<files, job, latest, calls, docker, typed>>

ExportVerified == bridge.receipt.copy = "succeeded"

Removable == ExportVerified /\ HereIs("stopped")

StartRemoval ==
  /\ Serves("removal") /\ bridge.receipt.removal = "none" /\ ~bridge.started
  /\ Removable
  /\ bridge' = [bridge EXCEPT !.started = TRUE]
  /\ UNCHANGED <<files, job, latest, calls, docker, copied, typed>>

\* docker rm removes the container, fails, or takes too long
EndRemoval ==
  /\ Serves("removal") /\ bridge.receipt.removal = "none" /\ bridge.started
  /\ \/ /\ box' = [box EXCEPT ![Here] = "gone"]
        /\ Served("removal", "succeeded")
     \/ /\ Served("removal", "failed")
        /\ UNCHANGED box
     \/ /\ bridge' = [bridge EXCEPT !.queue = Tail(@), !.receipt.removal = "uncertain",
                                    !.late = TRUE]
        /\ UNCHANGED box
  /\ UNCHANGED <<files, job, latest, calls, launching, native, copied, typed>>

\* a repeated request: an uncertain removal is looked at, and not done again
ServeRemoval ==
  /\ Serves("removal")
  /\ LET receipt == bridge.receipt.removal IN
     \/ /\ receipt = "none" /\ ~bridge.started /\ ~Removable
        /\ Served("removal", "failed")
     \/ /\ receipt = "uncertain"
        /\ Served("removal", IF HereIs("gone") THEN "succeeded" ELSE "uncertain")
     \/ /\ receipt \in {"succeeded", "failed"}
        /\ Served("removal", receipt)
  /\ UNCHANGED <<files, job, latest, calls, docker, copied, typed>>

-----------------------------------------------------------------------------
(* Claude, Docker and the Terminal's window. *)

Appear(q) ==
  /\ launching = q /\ launching' = NoTurn
  /\ box' = [box EXCEPT ![q] = "running"]
  /\ UNCHANGED <<files, job, latest, calls, native, copied, bridge, typed>>

Answer(q) ==
  /\ box[q] = "running" /\ native[q] # <<>>
  /\ LET last == Len(native[q]) IN
     /\ native[q][last].state = "asked"
     /\ \E state \in {"answered", "failed"} :
          native' = [native EXCEPT ![q][last].state = state]
  /\ UNCHANGED <<files, job, latest, calls, launching, box, copied, bridge, typed>>

ContainerStops(q) ==
  /\ box[q] = "running"
  /\ box' = [box EXCEPT ![q] = "stopped"]
  /\ UNCHANGED <<files, job, latest, calls, launching, native, copied, bridge, typed>>

RemovedLate ==
  /\ bridge.late /\ HereIs("stopped")
  /\ box' = [box EXCEPT ![Here] = "gone"]
  /\ UNCHANGED <<files, job, latest, calls, launching, native, copied, bridge, typed>>

\* its window is closed: a docker rm it began goes on
BridgeDies ==
  /\ bridge.status = "up"
  /\ bridge' = [bridge EXCEPT !.status = "dead", !.queue = <<>>,
                  !.late = @ \/ (bridge.started /\ bridge.receipt.removal = "none")]
  /\ UNCHANGED <<files, job, latest, calls, docker, copied, typed>>

-----------------------------------------------------------------------------
Attempt(u) ==
  \/ Begin(u) \/ CaptureStopped(u)
  \/ Intend(u) \/ Rotate(u) \/ Attach(u) \/ Launch(u) \/ Await(u) \/ CreationFailed(u)
  \/ Prepare(u) \/ Resume(u) \/ Reserve(u) \/ ReserveLost(u) \/ ReserveRefused(u)
  \/ Paste(u) \/ Enter(u) \/ Observe(u)

Closing ==
  \/ Finalize \/ ExitTerminal \/ MarkStopped \/ CloseAgain
  \/ Export \/ CopyDone \/ Remove \/ RemovalDone
  \/ \E command \in {"copy", "removal"} : CommandFailed(command)
  \/ Complete \/ CompleteLost

Terminal == ServeCopy \/ StartRemoval \/ EndRemoval \/ ServeRemoval \/ BridgeDies

Container == \E q \in Turns : Appear(q) \/ Answer(q) \/ ContainerStops(q)

SessionNext ==
  \/ \E u \in Turns : Attempt(u)
  \/ Closing \/ Interrupt
  \/ Terminal \/ Container \/ RemovedLate

SessionSpec == SessionInit /\ [][SessionNext]_vars

-----------------------------------------------------------------------------
(* Properties *)

SessionTypeOK ==
  /\ rec \in ContainerRecord /\ archive \subseteq Result
  /\ job \in [step : Steps, turn : MaybeTurn]
  /\ latest \in MaybeTurn /\ calls \subseteq Turns /\ launching \in MaybeTurn
  /\ box \in [Turns -> {"none", "running", "stopped", "gone"}]
  /\ native \in [Turns -> Seq(Prompt)] /\ copied \in [Turns -> Seq(Prompt)]
  /\ \A q \in Turns : Len(native[q]) <= LastTurn
  /\ bridge \in Bridge
  /\ typed \subseteq Turns

\* The answer kept for a turn is the answer to its own prompt, also where
\* several turns of the session say the same.
ResultsAttributed ==
  /\ \A r \in rec.results : native[Here][r.prompt].turn = r.turn
  /\ \A r \in archive : native[Root[r.turn]][r.prompt].turn = r.turn

\* When the owner ends a session, the answer to every prompt typed in it is kept.
ExitLosesNothing ==
  [][ExitTerminal => {u \in typed : Root[u] = Here} \subseteq Recorded(rec.results)]_vars

\* The record of a container says that it is exported only when its whole trace
\* has been copied, and only then a container is removed.
RemovedAfterExport ==
  /\ \A q \in Turns : box[q] = "gone" => copied[q] = native[q]
  /\ rec.status \in {"exported", "removed"} => copied[Here] = native[Here]

\* What is promised of prompts (see Prompts): an answer is recorded once it is
\* kept, also where its record was archived, and a question is closed when its
\* container is gone.
Answers == Recorded(archive \cup rec.results)
Closed  == {q \in Turns : box[q] = "gone"}

Promise == INSTANCE Prompts WITH sent <- typed, recorded <- Answers, closed <- Closed
ImplementsPrompts == Promise!Spec

=============================================================================
