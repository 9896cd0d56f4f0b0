------------------------- MODULE ClaudeSessionProofs -------------------------
(***************************************************************************)
(* Proofs about ClaudeSession, for any turns, questions, texts and limits: *)
(* answers are kept for the turns they answer, a container is removed only *)
(* after its whole trace was copied, and the prompts live as Prompts says. *)
(***************************************************************************)
EXTENDS ClaudeSession, TLAPS

\* The steps of an attempt that work on the container of its question, and those
\* that work on its prompt.
Prompting == {"reserve", "paste", "enter", "observe"}
Attending == {"launch", "await", "execute"} \cup Prompting

\* Turns are claimed in order, and questions opened in order.  A container of
\* another question than the record's is gone or was never made.
OrderInv ==
  /\ rec.status = "absent" <=> Here = NoTurn
  /\ Here # NoTurn => First(Here) /\ latest # NoTurn /\ Here <= Root[latest]
  /\ \A q \in Turns : q # Here => box[q] \in {"none", "gone"}
  /\ \A q \in Turns : q > Here => box[q] = "none" /\ native[q] = <<>>
  /\ \A u \in typed : u <= latest /\ Root[u] <= Here
  /\ launching # NoTurn => launching = Here /\ box[Here] = "none"

\* What the bridge and the record say of copy and removal is so, and was done in
\* this order.
ExportInv ==
  /\ bridge.receipt["copy"] = "succeeded" =>
       Here # NoTurn /\ box[Here] \in {"stopped", "gone"} /\ copied[Here] = native[Here]
  /\ bridge.started \/ bridge.late => bridge.receipt["copy"] = "succeeded"
  /\ bridge.receipt["removal"] = "succeeded" =>
       Here # NoTurn /\ box[Here] = "gone" /\ bridge.receipt["copy"] = "succeeded"
  /\ bridge.receipt["removal"] = "uncertain" => bridge.late
  /\ \A command \in {"copy", "removal"} :
       rec.asked[command] = "failed" => bridge.receipt[command] = "failed"
  /\ rec.status \in {"exported", "removed"} => bridge.receipt["copy"] = "succeeded"
  /\ rec.status = "removed" => box[Here] = "gone"
  /\ \A q \in Turns : box[q] = "gone" => copied[q] = native[q]

\* The prompts of a trace were typed for its question, in the order of the turns.
TraceInv ==
  \A q \in Turns : \A i \in 1 .. Len(native[q]) :
    LET u == native[q][i].turn IN
    i <= u /\ u <= latest /\ Root[u] = q /\ u \in typed

\* Of the pending prompt, at most one is in the trace, behind those answered.
PendingInv ==
  LET p == rec.pending IN
  p.turn # NoTurn =>
    /\ Here # NoTurn /\ Root[p.turn] = Here /\ p.turn <= latest
    /\ \/ Len(native[Here]) = p.before
       \/ /\ Len(native[Here]) = p.before + 1 /\ p.sent
          /\ native[Here][p.before + 1].turn = p.turn
    /\ \A i \in 1 .. p.before : native[Here][i].turn < p.turn
    /\ ~p.sent => p.turn \notin typed

\* The answers kept are those of the prompts before the pending one, each with
\* the turn it was typed for.
Kept == IF rec.pending.turn = NoTurn THEN Len(native[Here]) ELSE rec.pending.before

ResultsInv ==
  /\ Here = NoTurn => rec.pending.turn = NoTurn /\ rec.results = {} /\ archive = {}
  /\ Here # NoTurn =>
       /\ \A r \in rec.results : r.prompt <= Kept /\ native[Here][r.prompt].turn = r.turn
       /\ \A i \in 1 .. Kept : [turn |-> native[Here][i].turn, prompt |-> i] \in rec.results
  /\ \A u \in typed : Root[u] = Here => u \in Recorded(rec.results) \/ rec.pending.turn = u

ArchiveInv ==
  \A r \in archive : /\ Root[r.turn] < Here
                     /\ r.prompt <= Len(native[Root[r.turn]])
                     /\ native[Root[r.turn]][r.prompt].turn = r.turn

\* Where the call in progress is, and what it may rely on there.
JobInv ==
  /\ job.turn \in {NoTurn, latest}
  /\ job.step \in Attending => job.turn # NoTurn /\ Here = Root[job.turn]
  /\ job.step = "launch" => /\ launching = NoTurn /\ box[Here] = "none"
                            /\ rec.status = "running" /\ rec.asked = NothingAsked
  /\ job.step \in Prompting =>
       rec.pending.turn = job.turn /\ (rec.pending.sent <=> job.step # "reserve")
  /\ job.step \in {"paste", "enter"} => Len(native[Here]) = rec.pending.before
  /\ job.step = "paste" => job.turn \notin typed
  /\ job.step = "enter" => job.turn \in typed

CInv ==
  /\ SessionTypeOK
  /\ OrderInv /\ ExportInv /\ TraceInv /\ PendingInv /\ ResultsInv /\ ArchiveInv /\ JobInv

-----------------------------------------------------------------------------
LEMMA Order ==
  /\ Turns \subseteq Nat \ {0} /\ LastTurn \in Nat \ {0} /\ LastTurn \in Turns
  /\ NoTurn = 0 /\ MaybeTurn \subseteq Nat /\ Turns \subseteq MaybeTurn
  /\ \A u \in Turns : Root[u] \in Turns /\ Root[u] <= u /\ Root[Root[u]] = Root[u]
  /\ \A u, v \in Turns : u <= v => Root[u] <= Root[v]
BY SessionAssumption DEF Turns, MaybeTurn, NoTurn, First

LEMMA Types ==
  ASSUME CInv
  PROVE  /\ rec \in ContainerRecord /\ Here \in MaybeTurn /\ rec.pending \in Pending
         /\ rec.results \subseteq Result /\ archive \subseteq Result
         /\ job \in [step : Steps, turn : MaybeTurn] /\ latest \in MaybeTurn
         /\ typed \subseteq Turns /\ launching \in MaybeTurn
         /\ native \in [Turns -> Seq(Prompt)] /\ copied \in [Turns -> Seq(Prompt)]
         /\ box \in [Turns -> {"none", "running", "stopped", "gone"}]
         /\ bridge \in Bridge
BY DEF CInv, SessionTypeOK, ContainerRecord, Here

LEMMA Numbers ==
  ASSUME CInv
  PROVE  /\ Here \in Nat /\ latest \in Nat /\ job.turn \in Nat /\ rec.pending.turn \in Nat
         /\ rec.pending.before \in Nat
         /\ Here # NoTurn <=> Here \in Turns
         /\ latest # NoTurn <=> latest \in Turns
         /\ \A u \in typed : u \in Nat
         /\ \A q \in Turns : Len(native[q]) \in Nat
         /\ \A q \in Turns : \A i \in 1 .. Len(native[q]) :
              native[q][i] \in Prompt /\ native[q][i].turn \in Turns
<1>1. /\ Here \in Nat /\ latest \in Nat /\ job.turn \in Nat /\ \A u \in typed : u \in Nat
  BY Types, Order
<1>2. rec.pending.turn \in MaybeTurn /\ rec.pending.before \in 0 .. LastTurn
  BY Types DEF Pending
<1>3. rec.pending.turn \in Nat /\ rec.pending.before \in Nat
  <2>1. MaybeTurn \subseteq Nat /\ 0 .. LastTurn \subseteq Nat
    BY Order
  <2> QED
    BY <1>2, <2>1
<1>4. (Here # NoTurn <=> Here \in Turns) /\ (latest # NoTurn <=> latest \in Turns)
  BY Types, Order DEF MaybeTurn
<1>5. ASSUME NEW q \in Turns
      PROVE  /\ Len(native[q]) \in Nat
             /\ \A i \in 1 .. Len(native[q]) : native[q][i] \in Prompt
  <2>1. native[q] \in Seq(Prompt)
    BY <1>5, Types
  <2> QED
    BY <2>1
<1>6. \A p \in Prompt : p.turn \in Turns
  BY DEF Prompt
<1> QED
  BY <1>1, <1>3, <1>4, <1>5, <1>6

-----------------------------------------------------------------------------
(* Steps that only move the call in progress. *)

LEMMA RestingJob ==
  ASSUME job' \in [step : Steps \ Attending, turn : {NoTurn, latest'}] PROVE JobInv'
BY DEF JobInv, Attending, Prompting

LEMMA OthersStay ==
  ASSUME CInv, UNCHANGED <<rec, archive, launching, box, native, copied, bridge, typed>>,
         latest' = latest \/ (latest' \in Turns /\ latest <= latest')
  PROVE  /\ OrderInv' /\ ExportInv' /\ TraceInv' /\ PendingInv' /\ ResultsInv' /\ ArchiveInv'
         /\ (calls' \subseteq Turns /\ job' \in [step : Steps, turn : MaybeTurn] => SessionTypeOK')
<1>1. /\ latest' \in MaybeTurn /\ latest' \in Nat /\ latest <= latest'
      /\ latest # NoTurn => latest' # NoTurn /\ Root[latest] <= Root[latest']
  <2>1. CASE latest' = latest
    <3>1. latest # NoTurn => Root[latest] \in Nat
      BY Numbers, Order
    <3> QED
      BY <2>1, <3>1, Types, Numbers
  <2>2. CASE latest' \in Turns /\ latest <= latest'
    <3>1. latest' \in MaybeTurn /\ latest' \in Nat /\ latest' # NoTurn
      BY <2>2, Order
    <3>2. latest # NoTurn => Root[latest] <= Root[latest']
      BY <2>2, Numbers, Order
    <3> QED
      BY <2>2, <3>1, <3>2
  <2> QED
    BY <2>1, <2>2
<1>2. OrderInv'
  <2>1. latest # NoTurn => Root[latest] \in Nat /\ Root[latest'] \in Nat
    BY <1>1, Numbers, Order DEF MaybeTurn
  <2> QED
    BY <1>1, <2>1, Numbers, Order DEF CInv, OrderInv, Here
<1>3. ExportInv' /\ ResultsInv' /\ ArchiveInv'
  BY DEF CInv, ExportInv, ResultsInv, ArchiveInv, Here, Kept
<1>4. TraceInv'
  BY <1>1, Numbers, Order DEF CInv, TraceInv
<1>5. PendingInv'
  BY <1>1, Numbers DEF CInv, PendingInv, Here
<1> QED
  BY <1>1, <1>2, <1>3, <1>4, <1>5 DEF CInv, SessionTypeOK

LEMMA CallsKeep ==
  ASSUME CInv,
         \/ Finalize \/ CloseAgain \/ Interrupt
         \/ \E u \in Turns : \/ Begin(u) \/ Rotate(u) \/ Attach(u) \/ Await(u)
                            \/ Resume(u) \/ ReserveLost(u)
  PROVE  CInv'
<1> USE DEF files, docker
<1>1. UNCHANGED <<rec, archive, launching, box, native, copied, bridge, typed>>
  BY DEF Finalize, CloseAgain, Interrupt, Begin, Rotate, Attach, Await, Resume, ReserveLost
<1>2. calls' \subseteq Turns /\ (latest' = latest \/ (latest' \in Turns /\ latest <= latest'))
  BY DEF CInv, SessionTypeOK, Finalize, CloseAgain, Interrupt,
         Begin, Rotate, Attach, Await, Resume, ReserveLost
<1>3. CASE job' \in [step : Steps \ Attending, turn : {NoTurn, latest'}]
  <2>1. job' \in [step : Steps, turn : MaybeTurn]
    <3>1. latest' \in MaybeTurn /\ NoTurn \in MaybeTurn
      BY <1>2, Types DEF MaybeTurn
    <3> QED
      BY <1>3, <3>1
  <2> QED
    BY <1>1, <1>2, <1>3, <2>1, OthersStay, RestingJob DEF CInv
<1>4. CASE \E step \in {"execute", "observe", "reserve"} :
             /\ job' = [job EXCEPT !.step = step] /\ latest' = latest
             /\ job.turn # NoTurn /\ Here = Root[job.turn]
             /\ step # "execute" =>
                  rec.pending.turn = job.turn /\ (rec.pending.sent <=> step = "observe")
  <2>1. job' \in [step : Steps, turn : MaybeTurn] /\ JobInv'
    BY <1>1, <1>4, Types DEF CInv, JobInv, Steps, Attending, Prompting, Here
  <2> QED
    BY <1>1, <1>2, <2>1, OthersStay DEF CInv
<1>5. \/ job' \in [step : Steps \ Attending, turn : {NoTurn, latest'}]
      \/ \E step \in {"execute", "observe", "reserve"} :
             /\ job' = [job EXCEPT !.step = step] /\ latest' = latest
             /\ job.turn # NoTurn /\ Here = Root[job.turn]
             /\ step # "execute" =>
                  rec.pending.turn = job.turn /\ (rec.pending.sent <=> step = "observe")
  <2>1. CASE Interrupt \/ Finalize \/ (\E u \in Turns : ReserveLost(u))
    <3>1. job' = NoJob \/ job' = [step |-> "close", turn |-> NoTurn]
      BY <2>1 DEF Interrupt, Finalize, ReserveLost, EndJob
    <3> QED
      BY <3>1 DEF NoJob, Steps, Attending, Prompting
  <2>2. CASE CloseAgain \/ (\E u \in Turns : Rotate(u))
    <3>1. /\ latest' = latest
          /\ \E step \in {"close", "complete", "remove"} : job' = [job EXCEPT !.step = step]
      BY <2>2 DEF CloseAgain, Rotate, Goto
    <3>2. job \in [step : Steps, turn : {NoTurn, latest}]
      BY Types DEF CInv, JobInv
    <3> QED
      BY <3>1, <3>2 DEF Steps, Attending, Prompting
  <2>3. ASSUME NEW u \in Turns, Begin(u)
        PROVE  job' \in [step : Steps \ Attending, turn : {NoTurn, latest'}]
    BY <2>3 DEF Begin, Steps, Attending, Prompting
  <2>4. ASSUME NEW u \in Turns, Attach(u) \/ Await(u)
        PROVE  /\ job' = [job EXCEPT !.step = "execute"] /\ latest' = latest
               /\ job.turn # NoTurn /\ Here = Root[job.turn]
    BY <2>4, Order DEF Attach, Await, Goto, At, CInv, JobInv, Attending
  <2>5. ASSUME NEW u \in Turns, Resume(u)
        PROVE  \/ job' = NoJob
               \/ \E step \in {"observe", "reserve"} :
                    /\ job' = [job EXCEPT !.step = step] /\ latest' = latest
                    /\ job.turn # NoTurn /\ Here = Root[job.turn]
                    /\ rec.pending.turn = job.turn /\ (rec.pending.sent <=> step = "observe")
    BY <2>5, Order DEF Resume, Goto, EndJob, At, CInv, JobInv, Attending
  <2>6. NoJob \in [step : Steps \ Attending, turn : {NoTurn, latest'}]
    BY DEF NoJob, Steps, Attending, Prompting
  <2> QED
    BY <2>1, <2>2, <2>3, <2>4, <2>5, <2>6
<1> QED
  BY <1>3, <1>4, <1>5

-----------------------------------------------------------------------------
(* Steps that leave the prompts alone. *)

LEMMA PromptsStay ==
  ASSUME CInv, UNCHANGED <<archive, typed, latest>>,
         \A q \in Turns : /\ Len(native'[q]) = Len(native[q])
                          /\ \A i \in 1 .. Len(native[q]) : native'[q][i].turn = native[q][i].turn,
         rec'.question = Here, rec'.pending = rec.pending, rec'.results = rec.results
  PROVE  TraceInv' /\ PendingInv' /\ ResultsInv' /\ ArchiveInv'
<1>1. Here' = Here
  BY DEF Here
<1>2. TraceInv'
  BY DEF CInv, TraceInv
<1>3. PendingInv'
  <2> SUFFICES ASSUME rec.pending.turn # NoTurn PROVE PendingInv'
    BY DEF PendingInv
  <2> DEFINE p == rec.pending
  <2>1. /\ Here \in Turns /\ Root[p.turn] = Here /\ p.turn <= latest
        /\ \A i \in 1 .. p.before : native[Here][i].turn < p.turn
        /\ ~p.sent => p.turn \notin typed
    BY Numbers DEF CInv, PendingInv
  <2>2. \/ Len(native[Here]) = p.before
        \/ /\ Len(native[Here]) = p.before + 1 /\ p.sent
           /\ native[Here][p.before + 1].turn = p.turn
    BY DEF CInv, PendingInv
  <2>3. /\ Len(native'[Here]) = Len(native[Here])
        /\ \A i \in 1 .. Len(native[Here]) : native'[Here][i].turn = native[Here][i].turn
    BY <2>1
  <2>4. p.before \in Nat /\ 1 .. p.before \subseteq 1 .. Len(native[Here])
    BY <2>2, Numbers
  <2>5. Len(native[Here]) = p.before + 1 => p.before + 1 \in 1 .. Len(native[Here])
    BY <2>4
  <2>6. /\ \/ Len(native'[Here]) = p.before
           \/ /\ Len(native'[Here]) = p.before + 1 /\ p.sent
              /\ native'[Here][p.before + 1].turn = p.turn
        /\ \A i \in 1 .. p.before : native'[Here][i].turn < p.turn
    BY <2>1, <2>2, <2>3, <2>4, <2>5
  <2> HIDE DEF p
  <2>7. rec'.pending = p /\ Here # NoTurn
    BY <2>1, Order DEF p
  <2> QED
    BY <1>1, <2>1, <2>6, <2>7 DEF PendingInv
<1>4. ResultsInv'
  <2>1. ASSUME Here # NoTurn
        PROVE  /\ Kept' = Kept /\ Kept \in Nat /\ 1 .. Kept \subseteq 1 .. Len(native[Here])
               /\ \A i \in 1 .. Kept : native'[Here][i].turn = native[Here][i].turn
    <3>1. Here \in Turns
      BY <2>1, Numbers
    <3>2. Kept' = Kept /\ Kept \in Nat /\ Kept <= Len(native[Here])
      BY <1>1, <3>1, Numbers DEF Kept, CInv, PendingInv
    <3> QED
      BY <3>1, <3>2, Numbers
  <2>2. \A r \in rec.results : r.prompt \in Nat \ {0}
    BY Types, Order DEF Result
  <2>3. ASSUME Here # NoTurn, NEW r \in rec.results, r.prompt <= Kept
        PROVE  native'[Here][r.prompt].turn = native[Here][r.prompt].turn
    BY <2>1, <2>2, <2>3
  <2> QED
    BY <1>1, <2>1, <2>3 DEF CInv, ResultsInv, Recorded
<1>5. ArchiveInv'
  <2> SUFFICES ASSUME NEW r \in archive
               PROVE  /\ Root[r.turn] < Here /\ r.prompt <= Len(native'[Root[r.turn]])
                      /\ native'[Root[r.turn]][r.prompt].turn = r.turn
    BY <1>1 DEF ArchiveInv
  <2>1. Root[r.turn] \in Turns /\ r.prompt \in Nat \ {0}
    BY Types, Order DEF Result
  <2>2. /\ Root[r.turn] < Here /\ r.prompt <= Len(native[Root[r.turn]])
        /\ native[Root[r.turn]][r.prompt].turn = r.turn
    BY DEF CInv, ArchiveInv
  <2>3. r.prompt \in 1 .. Len(native[Root[r.turn]])
    BY <2>1, <2>2, Numbers
  <2> QED
    BY <2>1, <2>2, <2>3
<1> QED
  BY <1>2, <1>3, <1>4, <1>5

LEMMA StatusUpdate ==
  ASSUME CInv, NEW s \in {"absent", "running", "error", "stopped", "exported", "removed"}
  PROVE  LET r == [rec EXCEPT !.status = s] IN
         /\ r \in ContainerRecord /\ r.status = s /\ r.question = Here
         /\ r.pending = rec.pending /\ r.results = rec.results /\ r.asked = rec.asked
BY Types DEF ContainerRecord, Here

LEMMA AskedUpdate ==
  ASSUME CInv, NEW command \in {"copy", "removal"}, NEW k \in Known
  PROVE  LET r == [rec EXCEPT !.asked[command] = k] IN
         /\ r \in ContainerRecord /\ r.status = rec.status /\ r.question = Here
         /\ r.pending = rec.pending /\ r.results = rec.results
         /\ r.asked = [rec.asked EXCEPT ![command] = k]
BY Types DEF ContainerRecord, Here

\* A step that changes no prompt, no container and no more of the record than
\* what it says of its status and of its commands.
LEMMA StatusKeeps ==
  ASSUME CInv, UNCHANGED <<archive, latest, calls, launching, box, native, copied, typed>>,
         rec' \in ContainerRecord, rec'.question = Here, rec'.pending = rec.pending,
         rec'.results = rec.results, rec'.status = "absent" <=> Here = NoTurn,
         bridge' \in Bridge, job' \in [step : Steps \ Attending, turn : {NoTurn, job.turn}],
         ExportInv'
  PROVE  CInv'
<1>1. TraceInv' /\ PendingInv' /\ ResultsInv' /\ ArchiveInv'
  BY PromptsStay
<1>2. OrderInv'
  BY DEF CInv, OrderInv, Here
<1>3. JobInv'
  <2>1. job' \in [step : Steps \ Attending, turn : {NoTurn, latest'}]
    BY DEF CInv, JobInv
  <2> QED
    BY <2>1, RestingJob
<1>4. SessionTypeOK'
  <2>1. job' \in [step : Steps, turn : MaybeTurn]
    BY Types, Order DEF MaybeTurn
  <2> QED
    BY <2>1 DEF CInv, SessionTypeOK
<1> QED
  BY <1>1, <1>2, <1>3, <1>4 DEF CInv

LEMMA Resting ==
  ASSUME CInv
  PROVE  /\ NoJob \in [step : Steps \ Attending, turn : {NoTurn, job.turn}]
         /\ \A step \in Steps \ Attending :
              [job EXCEPT !.step = step] \in [step : Steps \ Attending, turn : {NoTurn, job.turn}]
BY Types DEF NoJob, Steps, Attending, Prompting

LEMMA ClosingSteps ==
  {"ensure", "export", "remove", "copy", "removal", "complete"} \subseteq Steps \ Attending
BY DEF Steps, Attending, Prompting

LEMMA BridgeStatus ==
  ASSUME CInv, NEW s \in {"none", "up", "dead", "ended"}
  PROVE  LET b == [bridge EXCEPT !.status = s] IN
         /\ b \in Bridge /\ b.status = s /\ b.queue = bridge.queue
         /\ b.receipt = bridge.receipt /\ b.started = bridge.started /\ b.late = bridge.late
BY Types DEF Bridge

\* What keeps ExportInv where the containers stay: the receipts do, and the record
\* is marked as they say.
LEMMA ReceiptsKeep ==
  ASSUME CInv, UNCHANGED <<box, native, copied>>, rec'.question = Here,
         bridge'.receipt["copy"] = "succeeded" <=> bridge.receipt["copy"] = "succeeded",
         \A answer \in {"succeeded", "uncertain"} :
           bridge'.receipt["removal"] = answer => bridge.receipt["removal"] = answer,
         bridge'.started => bridge.started,
         bridge'.late = bridge.late \/ (bridge'.late = TRUE /\ bridge.started),
         \A command \in {"copy", "removal"} :
           rec'.asked[command] = "failed" => bridge'.receipt[command] = "failed",
         rec'.status \in {"exported", "removed"} => bridge.receipt["copy"] = "succeeded",
         rec'.status = "removed" => box[Here] = "gone"
  PROVE  ExportInv'
<1>1. Here' = Here
  BY DEF Here
<1>2. bridge'.started \/ bridge'.late => bridge.started \/ bridge.late
  OBVIOUS
<1>3. bridge.late => bridge'.late
  OBVIOUS
<1> QED
  BY <1>1, <1>2, <1>3 DEF CInv, ExportInv

LEMMA RecordKeeps ==
  ASSUME CInv,
         \/ MarkStopped \/ CopyDone \/ RemovalDone \/ Complete \/ CompleteLost
         \/ \E u \in Turns : CreationFailed(u)
         \/ \E command \in {"copy", "removal"} : CommandFailed(command)
  PROVE  CInv'
<1> USE DEF files, docker
<1>1. UNCHANGED <<archive, latest, calls, launching, box, native, copied, typed>>
  BY DEF MarkStopped, CopyDone, RemovalDone, Complete, CompleteLost, CreationFailed, CommandFailed
<1>2. job' \in [step : Steps \ Attending, turn : {NoTurn, job.turn}]
  BY Resting, ClosingSteps DEF Goto, EndJob, MarkStopped, CopyDone, RemovalDone, Complete,
     CompleteLost, CreationFailed, CommandFailed
<1>3. CASE MarkStopped \/ CopyDone \/ RemovalDone \/ \E u \in Turns : CreationFailed(u)
  <2>1. bridge' = bridge
    BY <1>3 DEF MarkStopped, CopyDone, RemovalDone, CreationFailed
  <2>2. \E s \in {"stopped", "exported", "removed", "error"} :
          /\ rec' = [rec EXCEPT !.status = s] /\ Here # NoTurn
          /\ s \in {"exported", "removed"} => bridge.receipt["copy"] = "succeeded"
          /\ s = "removed" => box[Here] = "gone"
    <3>1. CASE MarkStopped
      BY <3>1 DEF MarkStopped, HereIs, CInv, OrderInv
    <3>2. CASE CopyDone
      BY <3>2 DEF CopyDone, CopyVerified, CInv, ExportInv
    <3>3. CASE RemovalDone
      BY <3>3 DEF RemovalDone, CInv, ExportInv
    <3>4. CASE \E u \in Turns : CreationFailed(u)
      <4>1. job.turn \in Turns /\ Here = Root[job.turn]
        BY <3>4 DEF CreationFailed, At, CInv, JobInv, Attending
      <4>2. Here # NoTurn
        BY <4>1, Order
      <4> QED
        BY <3>4, <4>2 DEF CreationFailed
    <3> QED
      BY <1>3, <3>1, <3>2, <3>3, <3>4
  <2>3. PICK s \in {"stopped", "exported", "removed", "error"} :
          /\ rec' = [rec EXCEPT !.status = s] /\ Here # NoTurn
          /\ s \in {"exported", "removed"} => bridge.receipt["copy"] = "succeeded"
          /\ s = "removed" => box[Here] = "gone"
    BY <2>2
  <2>4. /\ rec' \in ContainerRecord /\ rec'.status = s /\ rec'.question = Here
        /\ rec'.pending = rec.pending /\ rec'.results = rec.results /\ rec'.asked = rec.asked
    BY <2>3, StatusUpdate
  <2>5. ExportInv'
    BY <1>1, <2>1, <2>3, <2>4, ReceiptsKeep DEF CInv, ExportInv
  <2> QED
    BY <1>1, <1>2, <2>1, <2>3, <2>4, <2>5, StatusKeeps, Types
<1>4. CASE \E command \in {"copy", "removal"} : CommandFailed(command)
  <2>1. PICK command \in {"copy", "removal"} : CommandFailed(command)
    BY <1>4
  <2>2. /\ bridge' = bridge /\ bridge.receipt[command] \in Known
        /\ rec' = [rec EXCEPT !.asked[command] = bridge.receipt[command]]
    BY <2>1 DEF CommandFailed, Known
  <2>3. /\ rec' \in ContainerRecord /\ rec'.status = rec.status /\ rec'.question = Here
        /\ rec'.pending = rec.pending /\ rec'.results = rec.results
        /\ rec'.asked = [rec.asked EXCEPT ![command] = bridge.receipt[command]]
    BY <2>2, AskedUpdate
  <2>4. \A c \in {"copy", "removal"} :
          rec'.asked[c] = "failed" => bridge.receipt[c] = "failed"
    <3>1. rec.asked \in [{"copy", "removal"} -> Known]
      BY Types DEF ContainerRecord
    <3> QED
      BY <2>3, <3>1 DEF CInv, ExportInv
  <2>5. ExportInv'
    BY <1>1, <2>2, <2>3, <2>4, ReceiptsKeep DEF CInv, ExportInv
  <2>6. rec'.status = "absent" <=> Here = NoTurn
    BY <2>3 DEF CInv, OrderInv
  <2> QED
    BY <1>1, <1>2, <2>2, <2>3, <2>5, <2>6, StatusKeeps, Types
<1>5. CASE Complete \/ CompleteLost
  <2>1. rec' = rec \/ rec' = [rec EXCEPT !.finalized = TRUE]
    BY <1>5 DEF Complete, CompleteLost
  <2>2. /\ rec' \in ContainerRecord /\ rec'.status = rec.status /\ rec'.question = Here
        /\ rec'.pending = rec.pending /\ rec'.results = rec.results /\ rec'.asked = rec.asked
    BY <2>1, Types DEF ContainerRecord, Here
  <2>3. bridge' = bridge \/ bridge' = [bridge EXCEPT !.status = "ended"]
    BY <1>5 DEF Complete, CompleteLost
  <2>4. /\ bridge' \in Bridge /\ bridge'.receipt = bridge.receipt
        /\ bridge'.started = bridge.started /\ bridge'.late = bridge.late
    BY <2>3, BridgeStatus, Types
  <2>5. ExportInv'
    BY <1>1, <2>2, <2>4, ReceiptsKeep DEF CInv, ExportInv
  <2>6. rec'.status = "absent" <=> Here = NoTurn
    BY <2>2 DEF CInv, OrderInv
  <2> QED
    BY <1>1, <1>2, <2>2, <2>4, <2>5, <2>6, StatusKeeps
<1> QED
  BY <1>3, <1>4, <1>5

\* A request the bridge answers anew is one it knows to have failed.
LEMMA AskKeeps ==
  ASSUME CInv, Export \/ Remove
  PROVE  CInv'
<1> USE DEF files, docker
<1>1. Ask("copy") \/ Ask("removal")
  BY DEF Export, Remove
<1>2. PICK command \in {"copy", "removal"} : Ask(command)
  BY <1>1
<1>3. /\ UNCHANGED <<archive, latest, calls, launching, box, native, copied, typed>>
      /\ rec' = [rec EXCEPT !.asked[command] = "pending"]
      /\ job' = [job EXCEPT !.step = command]
  BY <1>2 DEF Ask, Goto
<1>4. job' \in [step : Steps \ Attending, turn : {NoTurn, job.turn}]
  BY <1>3, Resting, ClosingSteps
<1>5. /\ rec' \in ContainerRecord /\ rec'.status = rec.status /\ rec'.question = Here
      /\ rec'.pending = rec.pending /\ rec'.results = rec.results
      /\ rec'.asked = [rec.asked EXCEPT ![command] = "pending"]
  BY <1>3, AskedUpdate DEF Known
<1> DEFINE answers == {"none", "succeeded", "uncertain", "failed"}
           commands == {"copy", "removal"}
           anew == rec.asked[command] = "failed"
<1>6. /\ bridge.receipt \in [commands -> answers] /\ bridge.queue \in Seq(commands)
      /\ bridge.started \in BOOLEAN /\ rec.asked \in [commands -> Known]
  BY Types DEF Bridge, ContainerRecord
<1>7. /\ bridge'.receipt = [bridge.receipt EXCEPT ![command] = IF anew THEN "none" ELSE @]
      /\ bridge'.started = IF anew /\ command = "removal" THEN FALSE ELSE bridge.started
      /\ bridge'.late = bridge.late /\ bridge'.queue = Append(bridge.queue, command)
      /\ bridge' \in Bridge
  <2>1. bridge' = [bridge EXCEPT
          !.queue = Append(@, command),
          !.receipt[command] = IF anew THEN "none" ELSE @,
          !.started = IF anew /\ command = "removal" THEN FALSE ELSE @]
    BY <1>2 DEF Ask
  <2>2. Append(bridge.queue, command) \in Seq(commands)
    BY <1>6
  <2>3. [bridge.receipt EXCEPT ![command] = IF anew THEN "none" ELSE @] \in [commands -> answers]
    BY <1>6
  <2>4. (IF anew /\ command = "removal" THEN FALSE ELSE bridge.started) \in BOOLEAN
    BY <1>6
  <2> HIDE DEF anew
  <2> QED
    BY <2>1, <2>2, <2>3, <2>4, Types DEF Bridge
<1>8. anew => bridge.receipt[command] = "failed"
  BY DEF CInv, ExportInv
<1>9. /\ \A c \in commands : \A answer \in {"succeeded", "uncertain"} :
           bridge'.receipt[c] = answer <=> bridge.receipt[c] = answer
      /\ \A c \in commands : rec'.asked[c] = "failed" => bridge'.receipt[c] = "failed"
      /\ bridge'.started => bridge.started
  <2>1. \A c \in commands : bridge'.receipt[c] = IF c = command /\ anew THEN "none" ELSE bridge.receipt[c]
    BY <1>6, <1>7
  <2>2. \A c \in commands : rec'.asked[c] = IF c = command THEN "pending" ELSE rec.asked[c]
    BY <1>5, <1>6
  <2>3. \A c \in commands : rec.asked[c] = "failed" => bridge.receipt[c] = "failed"
    BY DEF CInv, ExportInv
  <2> HIDE DEF anew
  <2> QED
    BY <1>7, <1>8, <2>1, <2>2, <2>3
<1>10. ExportInv'
  <2> HIDE DEF anew
  <2> QED
    BY <1>3, <1>5, <1>7, <1>9, ReceiptsKeep DEF CInv, ExportInv
<1>11. rec'.status = "absent" <=> Here = NoTurn
  BY <1>5 DEF CInv, OrderInv
<1> QED
  BY <1>3, <1>4, <1>5, <1>7, <1>10, <1>11, StatusKeeps

-----------------------------------------------------------------------------
(* Steps of the bridge and of the container of the record's question. *)

LEMMA ContainerKeeps ==
  ASSUME CInv, UNCHANGED <<rec, archive, job, latest, calls, typed>>,
         bridge' \in Bridge, copied' \in [Turns -> Seq(Prompt)],
         native' \in [Turns -> Seq(Prompt)],
         box' \in [Turns -> {"none", "running", "stopped", "gone"}],
         \A q \in Turns : /\ Len(native'[q]) = Len(native[q])
                          /\ \A i \in 1 .. Len(native[q]) : native'[q][i].turn = native[q][i].turn,
         \A q \in Turns : q # Here => box'[q] = box[q] /\ native'[q] = native[q],
         \/ box' = box /\ launching' = launching
         \/ job.step # "launch" /\ launching' = NoTurn,
         ExportInv'
  PROVE  CInv'
<1>1. TraceInv' /\ PendingInv' /\ ResultsInv' /\ ArchiveInv'
  BY PromptsStay DEF Here
<1>2. OrderInv'
  <2>1. Here' = Here /\ \A q \in Turns : q > Here => q # Here
    BY Numbers, Order DEF Here
  <2>2. launching' # NoTurn => launching' = Here /\ box'[Here] = "none"
    BY DEF CInv, OrderInv
  <2>3. /\ \A q \in Turns : q # Here => box'[q] \in {"none", "gone"}
        /\ \A q \in Turns : q > Here => box'[q] = "none" /\ native'[q] = <<>>
    BY <2>1 DEF CInv, OrderInv
  <2> QED
    BY <2>1, <2>2, <2>3 DEF CInv, OrderInv
<1>3. JobInv'
  <2>1. job.step \in {"paste", "enter"} => Len(native'[Here]) = rec.pending.before
    BY Numbers, Order DEF CInv, JobInv, Attending, Prompting
  <2>2. job.step = "launch" => launching' = NoTurn /\ box'[Here] = "none"
    BY DEF CInv, JobInv
  <2>3. Here' = Here
    BY DEF Here
  <2> QED
    BY <2>1, <2>2, <2>3 DEF CInv, JobInv
<1>4. SessionTypeOK'
  <2>1. launching' \in MaybeTurn
    BY Types, Order DEF MaybeTurn
  <2>2. \A q \in Turns : Len(native'[q]) <= LastTurn
    BY DEF CInv, SessionTypeOK
  <2> QED
    BY <2>1, <2>2 DEF CInv, SessionTypeOK
<1> QED
  BY <1>1, <1>2, <1>3, <1>4 DEF CInv

\* Of a step that changes one container, the record's.
LEMMA OneBox ==
  ASSUME CInv, Here # NoTurn, NEW s \in {"running", "stopped", "gone"},
         box' = [box EXCEPT ![Here] = s]
  PROVE  /\ box' \in [Turns -> {"none", "running", "stopped", "gone"}]
         /\ box'[Here] = s /\ \A q \in Turns : q # Here => box'[q] = box[q]
BY Types, Numbers

LEMMA SamePrompts ==
  ASSUME CInv, native' = native
  PROVE  /\ native' \in [Turns -> Seq(Prompt)]
         /\ \A q \in Turns :
              /\ Len(native'[q]) = Len(native[q])
              /\ \A i \in 1 .. Len(native[q]) : native'[q][i].turn = native[q][i].turn
BY Types

LEMMA BridgeUpdate ==
  ASSUME CInv, NEW command \in {"copy", "removal"},
         NEW answer \in {"none", "succeeded", "uncertain", "failed"}, Served(command, answer),
         bridge.queue # <<>>
  PROVE  /\ bridge' \in Bridge /\ bridge'.status = bridge.status
         /\ bridge'.receipt = [bridge.receipt EXCEPT ![command] = answer]
         /\ bridge'.started = bridge.started /\ bridge'.late = bridge.late
         /\ bridge'.receipt[command] = answer
         /\ \A c \in {"copy", "removal"} : c # command => bridge'.receipt[c] = bridge.receipt[c]
<1>1. /\ bridge.receipt \in [{"copy", "removal"} -> {"none", "succeeded", "uncertain", "failed"}]
      /\ bridge.queue \in Seq({"copy", "removal"})
  BY Types DEF Bridge
<1>2. /\ [bridge.receipt EXCEPT ![command] = answer]
           \in [{"copy", "removal"} -> {"none", "succeeded", "uncertain", "failed"}]
      /\ Tail(bridge.queue) \in Seq({"copy", "removal"})
  BY <1>1
<1>3. bridge' = [bridge EXCEPT !.queue = Tail(bridge.queue),
                               !.receipt = [bridge.receipt EXCEPT ![command] = answer]]
  BY DEF Served
<1> DEFINE receipt == [bridge.receipt EXCEPT ![command] = answer]
<1>4. receipt[command] = answer /\ \A c \in {"copy", "removal"} : c # command => receipt[c] = bridge.receipt[c]
  BY <1>1
<1> HIDE DEF receipt
<1>5. /\ bridge' \in Bridge /\ bridge'.receipt = receipt /\ bridge'.status = bridge.status
      /\ bridge'.started = bridge.started /\ bridge'.late = bridge.late
  BY <1>2, <1>3, Types DEF Bridge, receipt
<1> QED
  BY <1>4, <1>5 DEF receipt

LEMMA BridgeKeeps ==
  ASSUME CInv, ServeCopy \/ ServeRemoval \/ StartRemoval \/ BridgeDies
  PROVE  CInv'
<1> USE DEF files, docker
<1>1. UNCHANGED <<rec, archive, job, latest, calls, launching, box, native, typed>>
  BY DEF ServeCopy, ServeRemoval, StartRemoval, BridgeDies
<1>2. Here' = Here /\ box' \in [Turns -> {"none", "running", "stopped", "gone"}]
  BY <1>1, Types DEF Here
<1>3. ASSUME bridge' \in Bridge, copied' \in [Turns -> Seq(Prompt)], ExportInv' PROVE CInv'
  BY <1>1, <1>2, <1>3, SamePrompts, ContainerKeeps
<1>4. CASE ServeCopy
  <2>1. bridge.queue # <<>>
    BY <1>4 DEF ServeCopy, Serves
  <2>2. CASE bridge.receipt["copy"] = "none" /\ HereIs("stopped") /\ Served("copy", "succeeded")
             /\ copied' = [copied EXCEPT ![Here] = native[Here]]
    <3>1. Here \in Turns /\ Here # NoTurn /\ box[Here] = "stopped"
      BY <2>2, Numbers DEF HereIs, CInv, OrderInv
    <3>2. /\ copied' \in [Turns -> Seq(Prompt)] /\ copied'[Here] = native[Here]
          /\ \A q \in Turns : q # Here => copied'[q] = copied[q]
      BY <2>2, <3>1, Types
    <3>3. /\ bridge' \in Bridge /\ bridge'.started = bridge.started /\ bridge'.late = bridge.late
          /\ bridge'.receipt["copy"] = "succeeded"
          /\ bridge'.receipt["removal"] = bridge.receipt["removal"]
      BY <2>1, <2>2, BridgeUpdate
    <3>4. ExportInv'
      BY <1>1, <1>2, <2>2, <3>1, <3>2, <3>3 DEF CInv, ExportInv
    <3> QED
      BY <1>3, <3>2, <3>3, <3>4
  <2>3. CASE \E answer \in {"failed", "uncertain"} :
               bridge.receipt["copy"] = "none" /\ Served("copy", answer) /\ copied' = copied
    <3>1. PICK answer \in {"failed", "uncertain"} :
            bridge.receipt["copy"] = "none" /\ Served("copy", answer) /\ copied' = copied
      BY <2>3
    <3>2. /\ bridge' \in Bridge /\ bridge'.started = bridge.started /\ bridge'.late = bridge.late
          /\ bridge'.receipt["copy"] = answer
          /\ bridge'.receipt["removal"] = bridge.receipt["removal"]
      BY <2>1, <3>1, BridgeUpdate
    <3>3. ExportInv'
      BY <1>1, <1>2, <3>1, <3>2 DEF CInv, ExportInv
    <3> QED
      BY <1>3, <3>1, <3>2, <3>3, Types
  <2>4. CASE Served("copy", bridge.receipt["copy"]) /\ copied' = copied
    <3>1. bridge.receipt["copy"] \in {"none", "succeeded", "uncertain", "failed"}
      BY Types DEF Bridge
    <3>2. /\ bridge' \in Bridge /\ bridge'.started = bridge.started /\ bridge'.late = bridge.late
          /\ bridge'.receipt["copy"] = bridge.receipt["copy"]
          /\ bridge'.receipt["removal"] = bridge.receipt["removal"]
      BY <2>1, <2>4, <3>1, BridgeUpdate
    <3>3. ExportInv'
      BY <1>1, <1>2, <2>4, <3>2 DEF CInv, ExportInv
    <3> QED
      BY <1>3, <2>4, <3>2, <3>3, Types
  <2> QED
    BY <1>4, <2>2, <2>3, <2>4 DEF ServeCopy
<1>5. CASE ServeRemoval
  <2>1. bridge.queue # <<>> /\ copied' = copied
    BY <1>5 DEF ServeRemoval, Serves
  <2>2. \E answer \in {"succeeded", "uncertain", "failed"} :
          /\ Served("removal", answer)
          /\ bridge.receipt["removal"] = "none" => answer = "failed"
          /\ bridge.receipt["removal"] = "uncertain" =>
               answer = "uncertain" \/ (answer = "succeeded" /\ box[Here] = "gone")
          /\ bridge.receipt["removal"] \in {"succeeded", "failed"} => answer = bridge.receipt["removal"]
    BY <1>5 DEF ServeRemoval, HereIs
  <2>3. PICK answer \in {"succeeded", "uncertain", "failed"} :
          /\ Served("removal", answer)
          /\ bridge.receipt["removal"] = "none" => answer = "failed"
          /\ bridge.receipt["removal"] = "uncertain" =>
               answer = "uncertain" \/ (answer = "succeeded" /\ box[Here] = "gone")
          /\ bridge.receipt["removal"] \in {"succeeded", "failed"} => answer = bridge.receipt["removal"]
    BY <2>2
  <2>4. /\ bridge' \in Bridge /\ bridge'.started = bridge.started /\ bridge'.late = bridge.late
        /\ bridge'.receipt["removal"] = answer
        /\ bridge'.receipt["copy"] = bridge.receipt["copy"]
    BY <2>1, <2>3, BridgeUpdate
  <2>5. bridge.receipt["removal"] \in {"none", "succeeded", "uncertain", "failed"}
    BY Types DEF Bridge
  <2>6. ExportInv'
    BY <1>1, <1>2, <2>1, <2>3, <2>4, <2>5 DEF CInv, ExportInv
  <2> QED
    BY <1>3, <2>1, <2>4, <2>6, Types
<1>6. CASE StartRemoval \/ BridgeDies
  <2>1. copied' = copied
    BY <1>6 DEF StartRemoval, BridgeDies
  <2>2. bridge.started => bridge.receipt["copy"] = "succeeded"
    BY DEF CInv, ExportInv
  <2>3. /\ bridge' \in Bridge /\ bridge'.receipt = bridge.receipt
        /\ bridge'.started \/ bridge'.late => bridge.receipt["copy"] = "succeeded"
        /\ bridge.late => bridge'.late
    <3>1. CASE StartRemoval
      <4>1. bridge' = [bridge EXCEPT !.started = TRUE] /\ bridge.receipt["copy"] = "succeeded"
        BY <3>1 DEF StartRemoval, Removable, ExportVerified
      <4> QED
        BY <4>1, Types DEF Bridge
    <3>2. CASE BridgeDies
      <4> DEFINE late == bridge.late \/ (bridge.started /\ bridge.receipt["removal"] = "none")
      <4>1. bridge' = [bridge EXCEPT !.status = "dead", !.queue = <<>>, !.late = late]
        BY <3>2 DEF BridgeDies
      <4>2. late \in BOOLEAN /\ (bridge.late => late) /\ (late => bridge.late \/ bridge.started)
        BY Types DEF Bridge
      <4>3. <<>> \in Seq({"copy", "removal"})
        OBVIOUS
      <4> HIDE DEF late
      <4>4. /\ bridge' \in Bridge /\ bridge'.receipt = bridge.receipt
            /\ bridge'.started = bridge.started /\ bridge'.late = late
        BY <4>1, <4>2, <4>3, Types DEF Bridge
      <4>5. bridge.late \/ bridge.started => bridge.receipt["copy"] = "succeeded"
        BY DEF CInv, ExportInv
      <4> QED
        BY <4>2, <4>4, <4>5
    <3> QED
      BY <1>6, <3>1, <3>2
  <2>4. ExportInv'
    BY <1>1, <1>2, <2>1, <2>3 DEF CInv, ExportInv
  <2> QED
    BY <1>3, <2>1, <2>3, <2>4, Types
<1> QED
  BY <1>4, <1>5, <1>6

\* A container that runs, stopped or is gone is not being launched.
LEMMA NotLaunching ==
  ASSUME CInv, NEW q \in Turns, box[q] \in {"running", "stopped"}
  PROVE  q = Here /\ Here # NoTurn /\ job.step # "launch" /\ launching = NoTurn
BY Numbers, Order DEF CInv, OrderInv, JobInv

LEMMA BoxKeeps ==
  ASSUME CInv,
         \/ EndRemoval \/ RemovedLate \/ ExitTerminal
         \/ \E q \in Turns : Appear(q) \/ Answer(q) \/ ContainerStops(q)
  PROVE  CInv'
<1> USE DEF files, docker
<1>1. UNCHANGED <<rec, archive, job, latest, calls, copied, typed>>
  BY DEF EndRemoval, RemovedLate, ExitTerminal, Appear, Answer, ContainerStops
<1>2. Here' = Here /\ copied' \in [Turns -> Seq(Prompt)] /\ bridge \in Bridge
  BY <1>1, Types DEF Here
<1>3. ASSUME NEW s \in {"running", "stopped", "gone"}, Here # NoTurn,
             box' = [box EXCEPT ![Here] = s],
             job.step # "launch" /\ launching' = NoTurn, native' = native,
             bridge' \in Bridge, ExportInv'
      PROVE  CInv'
  <2>1. /\ box' \in [Turns -> {"none", "running", "stopped", "gone"}]
        /\ \A q \in Turns : q # Here => box'[q] = box[q]
    BY <1>3, OneBox
  <2> QED
    BY <1>1, <1>2, <1>3, <2>1, SamePrompts, ContainerKeeps
<1>4. CASE EndRemoval
  <2>1. /\ bridge.queue # <<>> /\ bridge.receipt["removal"] = "none" /\ bridge.started
        /\ native' = native /\ launching' = launching
    BY <1>4 DEF EndRemoval, Serves
  <2>2. /\ Here # NoTurn /\ Here \in Turns /\ box[Here] \in {"stopped", "gone"}
        /\ bridge.receipt["copy"] = "succeeded" /\ copied[Here] = native[Here]
    BY <2>1, Numbers DEF CInv, ExportInv
  <2>3. job.step # "launch" /\ launching = NoTurn
    BY <2>2 DEF CInv, OrderInv, JobInv
  <2>4. CASE box' = [box EXCEPT ![Here] = "gone"] /\ Served("removal", "succeeded")
    <3>1. /\ bridge' \in Bridge /\ bridge'.started = bridge.started /\ bridge'.late = bridge.late
          /\ bridge'.receipt["removal"] = "succeeded"
          /\ bridge'.receipt["copy"] = bridge.receipt["copy"]
      BY <2>1, <2>4, BridgeUpdate
    <3>2. box'[Here] = "gone" /\ \A q \in Turns : q # Here => box'[q] = box[q]
      BY <2>2, <2>4, OneBox
    <3>3. ExportInv'
      BY <1>1, <1>2, <2>1, <2>2, <3>1, <3>2 DEF CInv, ExportInv
    <3> QED
      BY <1>3, <2>1, <2>2, <2>3, <2>4, <3>1, <3>3
  <2>5. CASE Served("removal", "failed") /\ box' = box
    <3>1. /\ bridge' \in Bridge /\ bridge'.started = bridge.started /\ bridge'.late = bridge.late
          /\ bridge'.receipt["removal"] = "failed"
          /\ bridge'.receipt["copy"] = bridge.receipt["copy"]
      BY <2>1, <2>5, BridgeUpdate
    <3>2. ExportInv'
      BY <1>1, <1>2, <2>1, <2>5, <3>1 DEF CInv, ExportInv
    <3> QED
      BY <1>1, <1>2, <2>1, <2>5, <3>1, <3>2, SamePrompts, ContainerKeeps, Types
  <2>6. CASE /\ bridge' = [bridge EXCEPT !.queue = Tail(@), !.receipt["removal"] = "uncertain",
                                         !.late = TRUE]
             /\ box' = box
    <3> DEFINE receipt == [bridge.receipt EXCEPT !["removal"] = "uncertain"]
    <3>1. /\ receipt \in [{"copy", "removal"} -> {"none", "succeeded", "uncertain", "failed"}]
          /\ receipt["removal"] = "uncertain" /\ receipt["copy"] = bridge.receipt["copy"]
          /\ Tail(bridge.queue) \in Seq({"copy", "removal"})
      BY <2>1, Types DEF Bridge
    <3>2. bridge' = [bridge EXCEPT !.queue = Tail(bridge.queue), !.receipt = receipt, !.late = TRUE]
      BY <2>6
    <3> HIDE DEF receipt
    <3>3. bridge' \in Bridge /\ bridge'.started = bridge.started /\ bridge'.late = TRUE /\ bridge'.receipt = receipt
      BY <3>1, <3>2, Types DEF Bridge
    <3>4. ExportInv'
      BY <1>1, <1>2, <2>1, <2>2, <2>6, <3>1, <3>3 DEF CInv, ExportInv
    <3> QED
      BY <1>1, <1>2, <2>1, <2>6, <3>3, <3>4, SamePrompts, ContainerKeeps, Types
  <2> QED
    BY <1>4, <2>4, <2>5, <2>6 DEF EndRemoval
<1>5. CASE RemovedLate
  <2>1. /\ bridge.late /\ Here # NoTurn /\ box[Here] = "stopped"
        /\ box' = [box EXCEPT ![Here] = "gone"]
        /\ native' = native /\ launching' = launching /\ bridge' = bridge
    BY <1>5 DEF RemovedLate, HereIs, CInv, OrderInv
  <2>2. Here \in Turns /\ job.step # "launch" /\ launching = NoTurn
    BY <2>1, Numbers, NotLaunching
  <2>3. box'[Here] = "gone" /\ \A q \in Turns : q # Here => box'[q] = box[q]
    BY <2>1, OneBox
  <2>4. ExportInv'
    BY <1>1, <1>2, <2>1, <2>2, <2>3 DEF CInv, ExportInv
  <2> QED
    BY <1>2, <1>3, <2>1, <2>2, <2>4
<1>6. CASE ExitTerminal \/ \E q \in Turns : ContainerStops(q)
  <2>1. /\ Here \in Turns /\ Here # NoTurn /\ box[Here] = "running"
        /\ box' = [box EXCEPT ![Here] = "stopped"]
        /\ native' = native /\ launching' = launching /\ bridge' = bridge
    <3>1. CASE ExitTerminal
      BY <3>1, Numbers DEF ExitTerminal, TakesInput, HereIs, CInv, OrderInv
    <3>2. ASSUME NEW q \in Turns, ContainerStops(q)
          PROVE  /\ Here \in Turns /\ Here # NoTurn /\ box[Here] = "running"
                 /\ box' = [box EXCEPT ![Here] = "stopped"]
                 /\ native' = native /\ launching' = launching /\ bridge' = bridge
      <4>1. q = Here /\ Here # NoTurn
        BY <3>2, NotLaunching DEF ContainerStops
      <4> QED
        BY <3>2, <4>1 DEF ContainerStops
    <3> QED
      BY <1>6, <3>1, <3>2
  <2>2. job.step # "launch" /\ launching = NoTurn
    BY <2>1, NotLaunching
  <2>3. box'[Here] = "stopped" /\ \A q \in Turns : q # Here => box'[q] = box[q]
    BY <2>1, OneBox
  <2>4. ExportInv'
    BY <1>1, <1>2, <2>1, <2>3 DEF CInv, ExportInv
  <2> QED
    BY <1>2, <1>3, <2>1, <2>2, <2>4
<1>7. ASSUME NEW q \in Turns, Appear(q) PROVE CInv'
  <2>1. /\ launching = q /\ launching' = NoTurn /\ box' = [box EXCEPT ![q] = "running"]
        /\ native' = native /\ bridge' = bridge
    BY <1>7 DEF Appear
  <2>2. q = Here /\ Here # NoTurn /\ box[Here] = "none"
    BY <2>1, Order DEF CInv, OrderInv
  <2>3. job.step # "launch"
    BY <2>1, <2>2 DEF CInv, JobInv
  <2>4. box'[Here] = "running" /\ \A p \in Turns : p # Here => box'[p] = box[p]
    BY <2>1, <2>2, OneBox
  <2>5. ExportInv'
    BY <1>1, <1>2, <2>1, <2>2, <2>4 DEF CInv, ExportInv
  <2> QED
    BY <1>2, <1>3, <2>1, <2>2, <2>3, <2>5
<1>8. ASSUME NEW q \in Turns, Answer(q) PROVE CInv'
  <2> DEFINE last == Len(native[q])
  <2>1. /\ box[q] = "running" /\ native[q] # <<>>
        /\ \E state \in {"answered", "failed"} : native' = [native EXCEPT ![q][last].state = state]
        /\ UNCHANGED <<launching, box, bridge>>
    BY <1>8 DEF Answer
  <2>2. PICK state \in {"answered", "failed"} : native' = [native EXCEPT ![q][last].state = state]
    BY <2>1
  <2> DEFINE prompt == [native[q][last] EXCEPT !.state = state]
             trace  == [native[q] EXCEPT ![last] = prompt]
  <2>3. q = Here
    BY <2>1, NotLaunching
  <2>4. native[q] \in Seq(Prompt) /\ last \in Nat /\ last \in 1 .. Len(native[q])
    BY <2>1, Types
  <2>5. native[q][last] \in Prompt
    BY <2>4
  <2>6. prompt \in Prompt /\ prompt.turn = native[q][last].turn
    BY <2>5 DEF Prompt
  <2> HIDE DEF prompt
  <2>7. /\ trace \in Seq(Prompt) /\ Len(trace) = Len(native[q])
        /\ \A i \in 1 .. Len(native[q]) : trace[i].turn = native[q][i].turn
    BY <2>4, <2>6
  <2>8. native' = [native EXCEPT ![q] = trace]
    BY <2>2 DEF prompt
  <2> HIDE DEF trace
  <2>9. /\ native' \in [Turns -> Seq(Prompt)] /\ native'[q] = trace
        /\ \A p \in Turns : p # q => native'[p] = native[p]
    BY <2>7, <2>8, Types
  <2>10. \A p \in Turns :
           /\ Len(native'[p]) = Len(native[p])
           /\ \A i \in 1 .. Len(native[p]) : native'[p][i].turn = native[p][i].turn
    BY <2>7, <2>9
  <2>11. ExportInv'
    BY <1>1, <1>2, <2>1, <2>3, <2>9 DEF CInv, ExportInv
  <2> QED
    BY <1>1, <1>2, <2>1, <2>3, <2>9, <2>10, <2>11, ContainerKeeps, Types
<1>9. CASE \E q \in Turns : Appear(q) \/ Answer(q)
  BY <1>7, <1>8, <1>9
<1> QED
  BY <1>4, <1>5, <1>6, <1>9

-----------------------------------------------------------------------------
(* A new container. *)

LEMMA FreshBridge ==
  ASSUME NEW s \in {"none", "up", "dead", "ended"}
  PROVE  LET b == NewBridge(s) IN
         /\ b \in Bridge /\ b.started = FALSE /\ b.late = FALSE
         /\ b.receipt["copy"] = "none" /\ b.receipt["removal"] = "none"
BY DEF NewBridge, Bridge, NothingAsked

LEMMA FreshRecord ==
  ASSUME NEW q \in Turns
  PROVE  LET r == NewRecord(q) IN
         /\ r \in ContainerRecord /\ r.question = q /\ r.status = "running"
         /\ r.pending = NothingPending /\ r.results = {} /\ r.asked = NothingAsked
         /\ r.pending.turn = NoTurn
         /\ \A c \in {"copy", "removal"} : r.asked[c] = "none"
<1>1. NothingPending \in Pending /\ NothingPending.turn = NoTurn
  <2>1. 0 \in 0 .. LastTurn
    BY Order
  <2> QED
    BY <2>1, Order DEF NothingPending, Pending, MaybeTurn
<1>2. NothingAsked \in [{"copy", "removal"} -> Known] /\ \A c \in {"copy", "removal"} : NothingAsked[c] = "none"
  BY DEF NothingAsked, Known
<1>3. q # NoTurn /\ q \in MaybeTurn
  BY Order
<1>4. NewRecord(q) = [question |-> q, status |-> "running", pending |-> NothingPending,
                      results |-> {}, asked |-> NothingAsked, finalized |-> FALSE]
  BY <1>3 DEF NewRecord
<1> QED
  BY <1>1, <1>2, <1>3, <1>4 DEF ContainerRecord

LEMMA LaunchKeeps ==
  ASSUME CInv, NEW u \in Turns, Launch(u)
  PROVE  CInv'
<1> USE DEF files, docker
<1>1. /\ job.step = "launch" /\ launching' = Here /\ bridge' = NewBridge("up")
      /\ job' = [job EXCEPT !.step = "await"]
      /\ UNCHANGED <<rec, archive, latest, calls, box, native, copied, typed>>
  BY DEF Launch, At, Goto
<1>2. /\ job.turn # NoTurn /\ Here = Root[job.turn] /\ box[Here] = "none"
      /\ rec.status = "running" /\ rec.asked = NothingAsked
  BY <1>1 DEF CInv, JobInv, Attending
<1>3. Here' = Here
  BY <1>1 DEF Here
<1>4. /\ bridge' \in Bridge /\ bridge'.started = FALSE /\ bridge'.late = FALSE
      /\ bridge'.receipt["copy"] = "none" /\ bridge'.receipt["removal"] = "none"
  BY <1>1, FreshBridge
<1>5. TraceInv' /\ PendingInv' /\ ResultsInv' /\ ArchiveInv'
  BY <1>1, SamePrompts, PromptsStay DEF Here
<1>6. OrderInv'
  BY <1>1, <1>2, <1>3 DEF CInv, OrderInv
<1>7. \A c \in {"copy", "removal"} : rec'.asked[c] # "failed"
  BY <1>1, <1>2 DEF NothingAsked
<1>8. ExportInv'
  BY <1>1, <1>2, <1>3, <1>4, <1>7 DEF CInv, ExportInv
<1>9. job' \in [step : Steps, turn : MaybeTurn] /\ job'.step = "await" /\ job'.turn = job.turn
  BY <1>1, Types DEF Steps
<1>10. JobInv'
  BY <1>1, <1>2, <1>3, <1>9 DEF CInv, JobInv, Attending, Prompting
<1>11. SessionTypeOK'
  BY <1>1, <1>3, <1>4, <1>9, Types DEF CInv, SessionTypeOK
<1> QED
  BY <1>5, <1>6, <1>8, <1>10, <1>11 DEF CInv

\* The record that is replaced is that of an earlier question, whose answers are
\* archived.
LEMMA IntendKeeps ==
  ASSUME CInv, NEW u \in Turns, Intend(u)
  PROVE  CInv'
<1> USE DEF files, docker
<1> DEFINE q == Root[u]
<1>1. /\ job.step = "ensure" /\ job.turn = u /\ Departed /\ Here # q
      /\ archive' = archive \cup rec.results /\ rec' = NewRecord(q)
      /\ bridge' = NewBridge("none") /\ job' = [job EXCEPT !.step = "launch"]
      /\ UNCHANGED <<latest, calls, launching, box, native, copied, typed>>
  BY DEF Intend, At, Goto
<1>2. /\ q \in Turns /\ q \in Nat /\ q # NoTurn /\ Root[q] = q /\ latest = u
  BY <1>1, Order DEF CInv, JobInv
<1>3. Here < q
  <2>1. CASE Here = NoTurn
    BY <2>1, <1>2, Order
  <2>2. CASE Here # NoTurn
    BY <2>2, <1>1, <1>2, Numbers DEF CInv, OrderInv
  <2> QED
    BY <2>1, <2>2
<1>4. /\ Here = NoTurn \/ (Here \in Turns /\ box[Here] = "gone")
      /\ launching = NoTurn
  <2>1. rec.status = "absent" \/ rec.status = "removed"
    BY <1>1 DEF Departed
  <2>2. Here = NoTurn \/ (Here \in Turns /\ box[Here] = "gone")
    BY <2>1, Numbers DEF CInv, OrderInv, ExportInv
  <2> QED
    BY <2>2 DEF CInv, OrderInv
<1>5. /\ rec' \in ContainerRecord /\ Here' = q /\ rec'.status = "running"
      /\ rec'.pending.turn = NoTurn /\ rec'.results = {} /\ rec'.asked = NothingAsked
      /\ \A c \in {"copy", "removal"} : rec'.asked[c] = "none"
  BY <1>1, <1>2, FreshRecord DEF Here
<1>6. /\ bridge' \in Bridge /\ bridge'.started = FALSE /\ bridge'.late = FALSE
      /\ bridge'.receipt["copy"] = "none" /\ bridge'.receipt["removal"] = "none"
  BY <1>1, FreshBridge
<1>7. box[q] = "none" /\ native[q] = <<>>
  BY <1>2, <1>3 DEF CInv, OrderInv
<1>8. OrderInv'
  <2> HIDE DEF q
  <2>1. \A p \in Turns : p # q => box[p] \in {"none", "gone"}
    BY <1>4, Order DEF CInv, OrderInv
  <2>2. \A p \in Turns : p > q => box[p] = "none" /\ native[p] = <<>>
    BY <1>2, <1>3, Numbers, Order DEF CInv, OrderInv
  <2>3. \A t \in typed : t <= latest /\ Root[t] <= q
    <3>1. \A t \in typed : Root[t] \in Nat
      BY Types, Order
    <3> QED
      BY <1>2, <1>3, <3>1, Numbers DEF CInv, OrderInv
  <2>4. First(q) /\ latest # NoTurn /\ q <= Root[latest]
    BY <1>2, Order DEF First, q
  <2> QED
    BY <1>1, <1>2, <1>4, <1>5, <2>1, <2>2, <2>3, <2>4 DEF OrderInv
<1>9. ExportInv'
  BY <1>1, <1>5, <1>6 DEF CInv, ExportInv
<1>10. TraceInv'
  BY <1>1 DEF CInv, TraceInv
<1>11. PendingInv'
  BY <1>5 DEF PendingInv
<1>12. ResultsInv'
  <2> HIDE DEF q
  <2>1. Kept' = 0
    BY <1>1, <1>5, <1>7 DEF Kept
  <2>2. \A t \in typed : Root[t] # q
    <3>1. \A t \in typed : Root[t] \in Nat
      BY Types, Order
    <3> QED
      BY <1>2, <1>3, <3>1, Numbers DEF CInv, OrderInv
  <2>3. 1 .. 0 = {}
    OBVIOUS
  <2> QED
    BY <1>1, <1>2, <1>5, <2>1, <2>2, <2>3 DEF ResultsInv
<1>13. ArchiveInv'
  <2> HIDE DEF q
  <2>1. ASSUME NEW r \in archive
        PROVE  /\ Root[r.turn] < q /\ r.prompt <= Len(native[Root[r.turn]])
               /\ native[Root[r.turn]][r.prompt].turn = r.turn
    <3>1. Root[r.turn] \in Nat
      BY Types, Order DEF Result
    <3> QED
      BY <1>2, <1>3, <3>1, Numbers DEF CInv, ArchiveInv
  <2>2. ASSUME NEW r \in rec.results
        PROVE  /\ Root[r.turn] < q /\ r.prompt <= Len(native[Root[r.turn]])
               /\ native[Root[r.turn]][r.prompt].turn = r.turn
    <3>1. Here \in Turns
      BY <2>2, Numbers DEF CInv, ResultsInv
    <3>2. r.prompt <= Kept /\ native[Here][r.prompt].turn = r.turn
      BY <2>2, <3>1, Order DEF CInv, ResultsInv
    <3>3. Kept \in Nat /\ Kept <= Len(native[Here])
      BY <3>1, Numbers DEF Kept, CInv, PendingInv
    <3>4. r.prompt \in Nat \ {0}
      BY Types, Order DEF Result
    <3>5. r.prompt \in 1 .. Len(native[Here])
      BY <3>1, <3>2, <3>3, <3>4, Numbers
    <3>6. Root[r.turn] = Here
      BY <3>1, <3>2, <3>5 DEF CInv, TraceInv
    <3> QED
      BY <1>3, <3>2, <3>5, <3>6, Numbers
  <2> QED
    BY <1>1, <1>5, <2>1, <2>2 DEF ArchiveInv
<1>14. job' \in [step : Steps, turn : MaybeTurn] /\ job'.step = "launch" /\ job'.turn = u
  BY <1>1, Types DEF Steps
<1>15. JobInv'
  <2>1. UNCHANGED <<launching, box, latest>>
    BY <1>1
  <2>2. u # NoTurn /\ Here' = Root[u] /\ box[Here'] = "none"
    BY <1>2, <1>5, <1>7, Order
  <2> HIDE DEF q
  <2> QED
    BY <1>2, <1>4, <1>5, <1>14, <2>1, <2>2 DEF JobInv, Prompting
<1>16. SessionTypeOK'
  BY <1>1, <1>5, <1>6, <1>14, Types DEF CInv, SessionTypeOK
<1> QED
  BY <1>8, <1>9, <1>10, <1>11, <1>12, <1>13, <1>15, <1>16 DEF CInv

-----------------------------------------------------------------------------
(* The prompt. *)

\* A step that changes what the record holds of the prompt, and its status.
LEMMA PromptKeeps ==
  ASSUME CInv, UNCHANGED <<archive, latest, launching, box, native, copied, bridge, typed>>,
         rec' \in ContainerRecord, rec'.question = Here, rec'.asked = rec.asked,
         rec'.status = rec.status \/ (rec'.status = "stopped" /\ Here # NoTurn),
         calls' \subseteq Turns, job' \in [step : Steps, turn : MaybeTurn],
         PendingInv', ResultsInv', JobInv'
  PROVE  CInv'
<1>1. TraceInv'
  BY DEF CInv, TraceInv
<1>2. Here' = Here
  BY DEF Here
<1>3. ArchiveInv'
  BY <1>2 DEF CInv, ArchiveInv
<1>4. OrderInv'
  BY <1>2 DEF CInv, OrderInv
<1>5. ExportInv'
  BY <1>2 DEF CInv, ExportInv
<1>6. SessionTypeOK'
  BY DEF CInv, SessionTypeOK
<1> QED
  BY <1>1, <1>3, <1>4, <1>5, <1>6 DEF CInv

LEMMA PendingUpdate ==
  ASSUME CInv, NEW p \in Pending
  PROVE  LET r == [rec EXCEPT !.pending = p] IN
         /\ r \in ContainerRecord /\ r.question = Here /\ r.asked = rec.asked
         /\ r.status = rec.status /\ r.pending = p /\ r.results = rec.results
BY Types DEF ContainerRecord, Here

LEMMA AtStep ==
  ASSUME CInv, NEW u \in Turns, job.turn = u, job.step \in Attending
  PROVE  u = latest /\ Here = Root[u] /\ Here \in Turns /\ Here # NoTurn /\ u # NoTurn
BY Order DEF CInv, JobInv

LEMMA NothingPendingType ==
  NothingPending \in Pending /\ NothingPending.turn = NoTurn
<1>1. 0 \in 0 .. LastTurn
  BY Order
<1> QED
  BY <1>1, Order DEF NothingPending, Pending, MaybeTurn

LEMMA PrepareKeeps ==
  ASSUME CInv, NEW u \in Turns, Prepare(u)
  PROVE  CInv'
<1> USE DEF files, docker
<1> DEFINE p == [turn |-> u, sent |-> FALSE, before |-> Len(native[Here])]
<1>1. /\ job.step = "execute" /\ job.turn = u /\ u \notin Recorded(rec.results)
      /\ rec.pending.turn = NoTurn /\ rec' = [rec EXCEPT !.pending = p]
      /\ job' = [job EXCEPT !.step = "reserve"]
      /\ UNCHANGED <<archive, latest, calls, launching, box, native, copied, bridge, typed>>
  BY DEF Prepare, At, Goto, NothingIsPending, Before
<1>2. u = latest /\ Here = Root[u] /\ Here \in Turns /\ Here # NoTurn /\ u # NoTurn
  BY <1>1, AtStep DEF Attending
<1>3. Len(native[Here]) \in Nat /\ Len(native[Here]) \in 0 .. LastTurn
  BY <1>2, Numbers, Order DEF CInv, SessionTypeOK
<1>4. p \in Pending /\ p.turn = u /\ p.sent = FALSE /\ p.before = Len(native[Here])
  BY <1>3, Order DEF Pending
<1> HIDE DEF p
<1>5. /\ rec' \in ContainerRecord /\ rec'.question = Here /\ rec'.asked = rec.asked
      /\ rec'.status = rec.status /\ rec'.pending = p /\ rec'.results = rec.results
  BY <1>1, <1>4, PendingUpdate
<1>6. Here' = Here
  BY <1>5 DEF Here
<1>7. Kept = Len(native[Here]) /\ Kept' = Kept
  BY <1>1, <1>2, <1>4, <1>5, <1>6 DEF Kept
<1>8. \A i \in 1 .. Len(native[Here]) : native[Here][i].turn < u
  <2> SUFFICES ASSUME NEW i \in 1 .. Len(native[Here]) PROVE native[Here][i].turn < u
    OBVIOUS
  <2>1. native[Here][i].turn <= latest /\ native[Here][i].turn \in Turns
    BY <1>2, Numbers DEF CInv, TraceInv
  <2>2. [turn |-> native[Here][i].turn, prompt |-> i] \in rec.results
    BY <1>2, <1>7 DEF CInv, ResultsInv
  <2>3. native[Here][i].turn \in Recorded(rec.results)
    BY <2>2 DEF Recorded
  <2> QED
    BY <1>1, <1>2, <2>1, <2>3, Order
<1>9. u \notin typed
  BY <1>1, <1>2 DEF CInv, ResultsInv
<1>10. PendingInv'
  BY <1>1, <1>2, <1>4, <1>5, <1>6, <1>8, <1>9, Numbers DEF PendingInv
<1>11. ResultsInv'
  <2>1. \A t \in typed : Root[t] = Here => t \in Recorded(rec.results)
    BY <1>1, Types, Order DEF CInv, ResultsInv
  <2> QED
    BY <1>1, <1>2, <1>5, <1>6, <1>7, <2>1 DEF CInv, ResultsInv
<1>12. job' \in [step : Steps, turn : MaybeTurn] /\ job'.step = "reserve" /\ job'.turn = u
  BY <1>1, Types DEF Steps
<1>13. JobInv'
  BY <1>1, <1>2, <1>4, <1>5, <1>6, <1>12 DEF JobInv, Attending, Prompting
<1> QED
  BY <1>1, <1>5, <1>10, <1>11, <1>12, <1>13, PromptKeeps, Types DEF CInv, SessionTypeOK

LEMMA ReserveKeeps ==
  ASSUME CInv, NEW u \in Turns, Reserve(u)
  PROVE  CInv'
<1> USE DEF files, docker
<1> DEFINE p == [rec.pending EXCEPT !.sent = TRUE]
<1>1. /\ job.step = "reserve" /\ job.turn = u /\ calls' = calls \cup {u}
      /\ rec' = [rec EXCEPT !.pending = p] /\ job' = [job EXCEPT !.step = "paste"]
      /\ UNCHANGED <<archive, latest, launching, box, native, copied, bridge, typed>>
  BY DEF Reserve, At, Goto, Marked
<1>2. u = latest /\ Here = Root[u] /\ Here \in Turns /\ Here # NoTurn /\ u # NoTurn
  BY <1>1, AtStep DEF Attending, Prompting
<1>3. rec.pending.turn = u /\ rec.pending.sent = FALSE
  BY <1>1, Types DEF CInv, JobInv, Prompting, Pending
<1>4. /\ p \in Pending /\ p.turn = u /\ p.sent = TRUE /\ p.before = rec.pending.before
  BY <1>3, Types DEF Pending
<1>5. Len(native[Here]) = p.before /\ u \notin typed
  BY <1>2, <1>3, <1>4 DEF CInv, PendingInv
<1> HIDE DEF p
<1>6. /\ rec' \in ContainerRecord /\ rec'.question = Here /\ rec'.asked = rec.asked
      /\ rec'.status = rec.status /\ rec'.pending = p /\ rec'.results = rec.results
  BY <1>1, <1>4, PendingUpdate
<1>7. Here' = Here
  BY <1>6 DEF Here
<1>8. PendingInv'
  BY <1>1, <1>2, <1>3, <1>4, <1>5, <1>6, <1>7 DEF CInv, PendingInv
<1>9. Kept' = Kept
  BY <1>1, <1>3, <1>4, <1>6, <1>7 DEF Kept
<1>10. ResultsInv'
  BY <1>1, <1>2, <1>3, <1>4, <1>6, <1>7, <1>9 DEF CInv, ResultsInv
<1>11. job' \in [step : Steps, turn : MaybeTurn] /\ job'.step = "paste" /\ job'.turn = u
  BY <1>1, Types DEF Steps
<1>12. JobInv'
  BY <1>1, <1>2, <1>4, <1>5, <1>6, <1>7, <1>11 DEF JobInv, Attending, Prompting
<1>13. calls' \subseteq Turns
  BY <1>1 DEF CInv, SessionTypeOK
<1> QED
  BY <1>1, <1>6, <1>8, <1>10, <1>11, <1>12, <1>13, PromptKeeps

LEMMA RefusedKeeps ==
  ASSUME CInv, NEW u \in Turns, ReserveRefused(u)
  PROVE  CInv'
<1> USE DEF files, docker
<1>1. /\ job.step = "reserve" /\ job.turn = u
      /\ rec' = [rec EXCEPT !.pending = NothingPending] /\ job' = NoJob
      /\ UNCHANGED <<archive, latest, calls, launching, box, native, copied, bridge, typed>>
  BY DEF ReserveRefused, At, EndJob
<1>2. u = latest /\ Here = Root[u] /\ Here \in Turns /\ Here # NoTurn /\ u # NoTurn
  BY <1>1, AtStep DEF Attending, Prompting
<1>3. rec.pending.turn = u /\ ~rec.pending.sent
  BY <1>1 DEF CInv, JobInv, Prompting
<1>4. Len(native[Here]) = rec.pending.before /\ u \notin typed
  BY <1>2, <1>3 DEF CInv, PendingInv
<1>5. /\ rec' \in ContainerRecord /\ rec'.question = Here /\ rec'.asked = rec.asked
      /\ rec'.status = rec.status /\ rec'.pending.turn = NoTurn /\ rec'.results = rec.results
  BY <1>1, NothingPendingType, PendingUpdate
<1>6. Here' = Here
  BY <1>5 DEF Here
<1>7. Kept' = Kept
  BY <1>1, <1>2, <1>3, <1>4, <1>5, <1>6 DEF Kept
<1>8. PendingInv'
  BY <1>5 DEF PendingInv
<1>9. ResultsInv'
  BY <1>1, <1>2, <1>3, <1>4, <1>5, <1>6, <1>7 DEF CInv, ResultsInv
<1>10. job' \in [step : Steps, turn : MaybeTurn] /\ JobInv'
  BY <1>1, Order, RestingJob DEF NoJob, Steps, Attending, Prompting, MaybeTurn
<1> QED
  BY <1>1, <1>5, <1>8, <1>9, <1>10, PromptKeeps, Types DEF CInv, SessionTypeOK

LEMMA PasteKeeps ==
  ASSUME CInv, NEW u \in Turns, Paste(u)
  PROVE  CInv'
<1> USE DEF files, docker
<1>1. /\ job.step = "paste" /\ job.turn = u /\ typed' = typed \cup {u}
      /\ job' = [job EXCEPT !.step = "enter"]
      /\ UNCHANGED <<rec, archive, latest, calls, launching, box, native, copied, bridge>>
  BY DEF Paste, At, Goto
<1>2. u = latest /\ Here = Root[u] /\ Here \in Turns /\ Here # NoTurn /\ u # NoTurn
  BY <1>1, AtStep DEF Attending, Prompting
<1>3. /\ rec.pending.turn = u /\ rec.pending.sent /\ Len(native[Here]) = rec.pending.before
  BY <1>1 DEF CInv, JobInv, Prompting
<1>4. Here' = Here
  BY <1>1 DEF Here
<1>5. OrderInv'
  BY <1>1, <1>2, <1>4, Numbers DEF CInv, OrderInv
<1>6. ExportInv' /\ ArchiveInv'
  BY <1>1, <1>4 DEF CInv, ExportInv, ArchiveInv
<1>7. TraceInv'
  BY <1>1 DEF CInv, TraceInv
<1>8. PendingInv'
  BY <1>1, <1>3, <1>4 DEF CInv, PendingInv
<1>9. Kept' = Kept
  BY <1>1, <1>4 DEF Kept
<1>10. ResultsInv'
  BY <1>1, <1>3, <1>4, <1>9 DEF CInv, ResultsInv
<1>11. job' \in [step : Steps, turn : MaybeTurn] /\ job'.step = "enter" /\ job'.turn = u
  BY <1>1, Types DEF Steps
<1>12. JobInv'
  BY <1>1, <1>2, <1>3, <1>4, <1>11 DEF JobInv, Attending, Prompting
<1>13. SessionTypeOK'
  BY <1>1, <1>11 DEF CInv, SessionTypeOK
<1> QED
  BY <1>5, <1>6, <1>7, <1>8, <1>10, <1>12, <1>13 DEF CInv

\* The prompt goes to the end of the trace, right behind those that are answered.
LEMMA EnterKeeps ==
  ASSUME CInv, NEW u \in Turns, Enter(u)
  PROVE  CInv'
<1> USE DEF files, docker
<1> DEFINE prompt == [turn |-> u, state |-> "asked"]
           trace  == Append(native[Here], prompt)
           n      == Len(native[Here])
<1>1. /\ job.step = "enter" /\ job.turn = u /\ HereIs("running")
      /\ native' = [native EXCEPT ![Here] = trace]
      /\ job' = [job EXCEPT !.step = "observe"]
      /\ UNCHANGED <<rec, archive, latest, calls, launching, box, copied, bridge, typed>>
  BY DEF Enter, At, Goto, TakesInput
<1>2. u = latest /\ Here = Root[u] /\ Here \in Turns /\ Here # NoTurn /\ u # NoTurn
  BY <1>1, AtStep DEF Attending, Prompting
<1>3. /\ rec.pending.turn = u /\ rec.pending.sent /\ n = rec.pending.before /\ u \in typed
      /\ box[Here] = "running"
  BY <1>1 DEF CInv, JobInv, Prompting, HereIs
<1>4. Here' = Here
  BY <1>1 DEF Here
<1>5. /\ native[Here] \in Seq(Prompt) /\ n \in Nat /\ prompt \in Prompt /\ prompt.turn = u
  BY <1>2, Types, Numbers DEF Prompt
<1> HIDE DEF prompt
<1>6. /\ trace \in Seq(Prompt) /\ Len(trace) = n + 1 /\ trace[n + 1] = prompt
      /\ \A i \in 1 .. n : trace[i] = native[Here][i]
  BY <1>5
<1> HIDE DEF trace
<1>7. /\ native' \in [Turns -> Seq(Prompt)] /\ native'[Here] = trace
      /\ \A q \in Turns : q # Here => native'[q] = native[q]
  BY <1>1, <1>2, <1>6, Types
<1>8. \A i \in 1 .. n : native[Here][i].turn < u
  BY <1>2, <1>3 DEF CInv, PendingInv
<1>9. n + 1 <= u /\ n + 1 <= LastTurn /\ u \in Nat
  <2>1. u \in Nat /\ u <= LastTurn /\ u >= 1
    BY SessionAssumption DEF Turns
  <2>2. CASE n = 0
    BY <2>1, <2>2, Order
  <2>3. CASE n # 0
    <3>1. n \in 1 .. n /\ n \in 1 .. Len(native[Here])
      BY <2>3, <1>5
    <3>2. n <= native[Here][n].turn /\ native[Here][n].turn < u
      BY <3>1, <1>2, <1>8 DEF CInv, TraceInv
    <3>3. native[Here][n].turn \in Nat
      BY <3>1, <1>2, Numbers, Order
    <3> QED
      BY <3>2, <3>3, <2>1, <1>5, Order
  <2> QED
    BY <2>2, <2>3
<1>10. OrderInv'
  <2>1. \A q \in Turns : q > Here => q # Here
    BY Numbers, Order
  <2> QED
    BY <1>1, <1>4, <1>7, <2>1 DEF CInv, OrderInv
<1>11. ExportInv'
  <2>1. bridge.receipt["copy"] # "succeeded"
    BY <1>3 DEF CInv, ExportInv
  <2> QED
    BY <1>1, <1>3, <1>4, <1>7, <2>1 DEF CInv, ExportInv
<1>12. TraceInv'
  <2> SUFFICES ASSUME NEW q \in Turns, NEW i \in 1 .. Len(native'[q])
               PROVE  /\ i <= native'[q][i].turn /\ native'[q][i].turn <= latest
                      /\ Root[native'[q][i].turn] = q /\ native'[q][i].turn \in typed
    BY <1>1 DEF TraceInv
  <2>1. CASE q # Here
    BY <2>1, <1>7 DEF CInv, TraceInv
  <2>2. CASE q = Here /\ i \in 1 .. n
    BY <2>2, <1>6, <1>7 DEF CInv, TraceInv
  <2>3. CASE q = Here /\ i = n + 1
    BY <2>3, <1>2, <1>3, <1>5, <1>6, <1>7, <1>9
  <2>4. q = Here => i \in 1 .. n \/ i = n + 1
    BY <1>5, <1>6, <1>7
  <2> QED
    BY <2>1, <2>2, <2>3, <2>4
<1>13. PendingInv'
  <2>1. /\ Len(native'[Here]) = rec.pending.before + 1
        /\ native'[Here][rec.pending.before + 1].turn = u
        /\ \A i \in 1 .. rec.pending.before : native'[Here][i].turn < u
    BY <1>3, <1>5, <1>6, <1>7, <1>8
  <2> QED
    BY <1>1, <1>2, <1>3, <1>4, <2>1, Numbers DEF PendingInv
<1>14. ResultsInv'
  <2>1. Kept = n /\ Kept' = n
    BY <1>1, <1>2, <1>3 DEF Kept
  <2>2. \A r \in rec.results : r.prompt \in Nat \ {0}
    BY Types, Order DEF Result
  <2>3. \A r \in rec.results : r.prompt <= n /\ native[Here][r.prompt].turn = r.turn
    BY <1>2, <2>1 DEF CInv, ResultsInv
  <2>4. \A r \in rec.results : native'[Here][r.prompt].turn = r.turn
    BY <1>5, <1>6, <1>7, <2>2, <2>3
  <2>5. \A i \in 1 .. n : [turn |-> native'[Here][i].turn, prompt |-> i] \in rec.results
    BY <1>2, <1>6, <1>7, <2>1 DEF CInv, ResultsInv
  <2> HIDE DEF n
  <2> QED
    BY <1>1, <1>2, <1>3, <1>4, <2>1, <2>3, <2>4, <2>5 DEF CInv, ResultsInv
<1>15. ArchiveInv'
  <2> SUFFICES ASSUME NEW r \in archive
               PROVE  /\ Root[r.turn] < Here /\ r.prompt <= Len(native'[Root[r.turn]])
                      /\ native'[Root[r.turn]][r.prompt].turn = r.turn
    BY <1>1, <1>4 DEF ArchiveInv
  <2>1. Root[r.turn] \in Turns /\ Root[r.turn] < Here
    BY Types, Order DEF Result, CInv, ArchiveInv
  <2>2. Root[r.turn] # Here
    BY <2>1, <1>2, Order
  <2> QED
    BY <2>1, <2>2, <1>7 DEF CInv, ArchiveInv
<1>16. job' \in [step : Steps, turn : MaybeTurn] /\ job'.step = "observe" /\ job'.turn = u
  BY <1>1, Types DEF Steps
<1>17. JobInv'
  BY <1>1, <1>2, <1>3, <1>4, <1>16 DEF JobInv, Attending, Prompting
<1>18. SessionTypeOK'
  <2>1. \A q \in Turns : Len(native'[q]) <= LastTurn
    BY <1>6, <1>7, <1>9 DEF CInv, SessionTypeOK
  <2> QED
    BY <1>1, <1>7, <1>16, <2>1 DEF CInv, SessionTypeOK
<1> QED
  BY <1>10, <1>11, <1>12, <1>13, <1>14, <1>15, <1>17, <1>18 DEF CInv

\* The only prompt that says what the pending one says and was not there before
\* it, is the pending one.
LEMMA OneMatch ==
  ASSUME CInv, rec.pending.turn # NoTurn, NEW i \in Matches(rec.pending.turn)
  PROVE  /\ i = rec.pending.before + 1 /\ i = Len(native[Here]) /\ i \in Turns
         /\ native[Here][i].turn = rec.pending.turn /\ rec.pending.sent
<1>1. Here \in Turns /\ rec.pending.before \in Nat /\ Len(native[Here]) \in Nat
  BY Numbers DEF CInv, PendingInv
<1>2. i \in (rec.pending.before + 1) .. Len(native[Here])
  BY DEF Matches
<1>3. /\ Len(native[Here]) = rec.pending.before + 1 /\ rec.pending.sent
      /\ native[Here][rec.pending.before + 1].turn = rec.pending.turn
  BY <1>1, <1>2 DEF CInv, PendingInv
<1>4. i = Len(native[Here]) /\ Len(native[Here]) <= LastTurn /\ i >= 1
  BY <1>1, <1>2, <1>3 DEF CInv, SessionTypeOK
<1>5. i \in Turns
  BY <1>1, <1>4, SessionAssumption DEF Turns
<1> QED
  BY <1>3, <1>4, <1>5

LEMMA SaveKeeps ==
  ASSUME CInv, NEW u \in Turns, CaptureStopped(u) \/ Observe(u)
  PROVE  CInv'
<1> USE DEF files, docker
<1>1. /\ \E s \in {"stopped", rec.status} : SaveResult(u, s)
      /\ rec.pending.turn = u /\ job' = NoJob
      /\ UNCHANGED <<archive, latest, calls, launching, box, native, copied, bridge, typed>>
  <2>1. CASE CaptureStopped(u)
    BY <2>1 DEF CaptureStopped, Stopped, EndJob
  <2>2. CASE Observe(u)
    BY <2>2 DEF Observe, EndJob, At, CInv, JobInv, Prompting
  <2> QED
    BY <2>1, <2>2
<1>2. PICK s \in {"stopped", rec.status} : SaveResult(u, s)
  BY <1>1
<1>3. PICK i \in Matches(u) :
        rec' = [rec EXCEPT !.results = @ \cup {[turn |-> u, prompt |-> i]},
                           !.pending = NothingPending, !.status = s]
  BY <1>2 DEF SaveResult
<1> DEFINE kept == [turn |-> u, prompt |-> i]
<1>4. u # NoTurn /\ rec.pending.turn # NoTurn
  BY <1>1, Order
<1>5. /\ i = rec.pending.before + 1 /\ i = Len(native[Here]) /\ i \in Turns
      /\ native[Here][i].turn = u
  BY <1>1, <1>3, <1>4, OneMatch
<1>6. kept \in Result /\ kept.turn = u /\ kept.prompt = i
  BY <1>5 DEF Result
<1> HIDE DEF kept
<1>7. /\ rec' \in ContainerRecord /\ rec'.question = Here /\ rec'.asked = rec.asked
      /\ rec'.status = s /\ rec'.pending.turn = NoTurn /\ rec'.results = rec.results \cup {kept}
  <2>1. rec.results \cup {kept} \subseteq Result
    BY <1>6, Types
  <2>2. rec' = [rec EXCEPT !.results = rec.results \cup {kept},
                           !.pending = NothingPending, !.status = s]
    BY <1>3 DEF kept
  <2>3. s \in {"absent", "running", "error", "stopped", "exported", "removed"}
    BY Types DEF ContainerRecord
  <2> QED
    BY <2>1, <2>2, <2>3, NothingPendingType, Types DEF ContainerRecord, Here
<1>8. Here' = Here /\ Here \in Turns /\ Here # NoTurn
  BY <1>4, <1>7, Numbers DEF Here, CInv, PendingInv
<1>9. PendingInv'
  BY <1>7 DEF PendingInv
<1>10. ResultsInv'
  <2>1. /\ Kept' = i /\ Kept = rec.pending.before /\ Kept \in Nat /\ i = Kept + 1
    BY <1>1, <1>4, <1>5, <1>7, <1>8, Numbers DEF Kept
  <2>2. \A r \in rec.results : r.prompt <= Kept /\ native[Here][r.prompt].turn = r.turn
    BY <1>8 DEF CInv, ResultsInv
  <2>3. \A r \in rec.results : r.prompt \in Nat
    BY Types, Order DEF Result
  <2>4. \A r \in rec'.results : r.prompt <= i /\ native[Here][r.prompt].turn = r.turn
    BY <1>5, <1>6, <1>7, <2>1, <2>2, <2>3
  <2>5. ASSUME NEW j \in 1 .. i
        PROVE  [turn |-> native[Here][j].turn, prompt |-> j] \in rec'.results
    <3>1. CASE j \in 1 .. Kept
      BY <3>1, <1>7, <1>8 DEF CInv, ResultsInv
    <3>2. CASE j = i
      BY <3>2, <1>5, <1>7 DEF kept
    <3> QED
      BY <2>1, <3>1, <3>2
  <2>6. ASSUME NEW t \in typed, Root[t] = Here PROVE t \in Recorded(rec'.results)
    <3>1. t \in Recorded(rec.results) \/ t = u
      BY <1>1, <2>6 DEF CInv, ResultsInv
    <3> QED
      BY <1>6, <1>7, <3>1 DEF Recorded
  <2> QED
    BY <1>1, <1>8, <2>1, <2>4, <2>5, <2>6 DEF ResultsInv
<1>11. job' \in [step : Steps, turn : MaybeTurn] /\ JobInv'
  BY <1>1, Order, RestingJob DEF NoJob, Steps, Attending, Prompting, MaybeTurn
<1>12. rec'.status = rec.status \/ (rec'.status = "stopped" /\ Here # NoTurn)
  BY <1>7, <1>8
<1> QED
  BY <1>1, <1>7, <1>9, <1>10, <1>11, <1>12, PromptKeeps, Types DEF CInv, SessionTypeOK

-----------------------------------------------------------------------------
LEMMA InitInvariant == SessionInit => CInv
<1> SUFFICES ASSUME SessionInit PROVE CInv
  OBVIOUS
<1>1. NoTurn \in MaybeTurn /\ NoTurn = 0 /\ {} \subseteq Result /\ 0 <= LastTurn
  BY Order DEF MaybeTurn
<1>2. rec = [question |-> NoTurn, status |-> "absent", pending |-> NothingPending,
             results |-> {}, asked |-> NothingAsked, finalized |-> FALSE]
  BY DEF SessionInit, NewRecord
<1>3. /\ rec \in ContainerRecord /\ Here = NoTurn /\ rec.status = "absent"
      /\ rec.pending.turn = NoTurn /\ rec.results = {} /\ rec.asked = NothingAsked
  BY <1>1, <1>2, NothingPendingType DEF ContainerRecord, NothingAsked, Known, Here
<1>4. /\ bridge \in Bridge /\ bridge.started = FALSE /\ bridge.late = FALSE
      /\ bridge.receipt["copy"] = "none" /\ bridge.receipt["removal"] = "none"
  BY FreshBridge DEF SessionInit
<1>5. job = NoJob /\ NoJob \in [step : Steps, turn : MaybeTurn] /\ job.step = "idle"
  BY <1>1 DEF SessionInit, NoJob, Steps
<1>6. <<>> \in Seq(Prompt) /\ Len(<<>>) = 0
  OBVIOUS
<1>7. /\ box = [q \in Turns |-> "none"] /\ native = [q \in Turns |-> <<>>] /\ copied = native
      /\ archive = {} /\ latest = NoTurn /\ calls = {} /\ launching = NoTurn /\ typed = {}
  BY DEF SessionInit
<1>8. SessionTypeOK
  BY <1>1, <1>3, <1>4, <1>5, <1>6, <1>7 DEF SessionTypeOK
<1>9. OrderInv
  BY <1>3, <1>7 DEF OrderInv
<1>10. ExportInv
  BY <1>3, <1>4, <1>7 DEF ExportInv, NothingAsked
<1>11. TraceInv
  BY <1>6, <1>7 DEF TraceInv
<1>12. PendingInv /\ ArchiveInv
  BY <1>3, <1>7 DEF PendingInv, ArchiveInv
<1>13. ResultsInv
  BY <1>3, <1>7 DEF ResultsInv
<1>14. JobInv
  BY <1>5, <1>7 DEF JobInv, NoJob, Attending, Prompting
<1> QED
  BY <1>8, <1>9, <1>10, <1>11, <1>12, <1>13, <1>14 DEF CInv

LEMMA StepInvariant == CInv /\ [SessionNext]_vars => CInv'
<1> SUFFICES ASSUME CInv, [SessionNext]_vars PROVE CInv'
  OBVIOUS
<1>1. CASE \E u \in Turns : Attempt(u)
  <2>1. PICK u \in Turns : Attempt(u)
    BY <1>1
  <2>2. CASE Begin(u) \/ Rotate(u) \/ Attach(u) \/ Await(u) \/ Resume(u) \/ ReserveLost(u)
    BY <2>2, CallsKeep
  <2>3. CASE CaptureStopped(u) \/ Observe(u)
    BY <2>3, SaveKeeps
  <2>4. CASE Intend(u) \/ Launch(u)
    BY <2>4, IntendKeeps, LaunchKeeps
  <2>5. CASE CreationFailed(u)
    BY <2>5, RecordKeeps
  <2>6. CASE Prepare(u) \/ Reserve(u) \/ ReserveRefused(u)
    BY <2>6, PrepareKeeps, ReserveKeeps, RefusedKeeps
  <2>7. CASE Paste(u) \/ Enter(u)
    BY <2>7, PasteKeeps, EnterKeeps
  <2> QED
    BY <2>1, <2>2, <2>3, <2>4, <2>5, <2>6, <2>7 DEF Attempt
<1>2. CASE Closing \/ Interrupt
  <2>1. CASE Finalize \/ CloseAgain \/ Interrupt
    BY <2>1, CallsKeep
  <2>2. CASE \/ MarkStopped \/ CopyDone \/ RemovalDone \/ Complete \/ CompleteLost
             \/ \E command \in {"copy", "removal"} : CommandFailed(command)
    BY <2>2, RecordKeeps
  <2>3. CASE Export \/ Remove
    BY <2>3, AskKeeps
  <2>4. CASE ExitTerminal
    BY <2>4, BoxKeeps
  <2> QED
    BY <1>2, <2>1, <2>2, <2>3, <2>4 DEF Closing
<1>3. CASE Terminal
  BY <1>3, BridgeKeeps, BoxKeeps DEF Terminal
<1>4. CASE Container \/ RemovedLate
  BY <1>4, BoxKeeps DEF Container
<1>5. CASE UNCHANGED vars
  BY <1>5 DEF vars, files, docker, CInv, SessionTypeOK, OrderInv, ExportInv, TraceInv,
              PendingInv, ResultsInv, ArchiveInv, JobInv, Here, Kept
<1> QED
  BY <1>1, <1>2, <1>3, <1>4, <1>5 DEF SessionNext

\* The record, the bridge, the traces and the call in progress always fit together
\* as CInv says.
THEOREM SessionInductive == SessionSpec => []CInv
<1> QED
  BY InitInvariant, StepInvariant, PTL DEF SessionSpec

\* An answer that the record or its archive keeps is that to the turn's own prompt,
\* also where several turns say the same.
THEOREM AnswersAttributed == SessionSpec => []ResultsAttributed
<1>1. CInv => ResultsAttributed
  BY DEF CInv, ResultsInv, ArchiveInv, ResultsAttributed
<1> QED
  BY <1>1, SessionInductive, PTL

\* No container is removed, and none recorded as exported, before its whole trace was
\* copied.
THEOREM ExportedBeforeRemoved == SessionSpec => []RemovedAfterExport
<1>1. CInv => RemovedAfterExport
  BY DEF CInv, ExportInv, RemovedAfterExport
<1> QED
  BY <1>1, SessionInductive, PTL

\* The owner ends a session only when the answer to every prompt typed in it is kept.
THEOREM ExitKeepsAnswers == SessionSpec => ExitLosesNothing
<1>1. CInv /\ ExitTerminal => {u \in typed : Root[u] = Here} \subseteq Recorded(rec.results)
  <2> SUFFICES ASSUME CInv, ExitTerminal, NEW u \in typed, Root[u] = Here
               PROVE  u \in Recorded(rec.results)
    OBVIOUS
  <2>1. rec.pending.turn = NoTurn /\ u # NoTurn
    BY Types, Order DEF ExitTerminal, MayExit
  <2> QED
    BY <2>1 DEF CInv, ResultsInv
<1> QED
  BY <1>1, SessionInductive, PTL DEF ExitLosesNothing

-----------------------------------------------------------------------------
(* The sessions implement Prompts: Paste sends a prompt, keeping its answer records it,  *)
(* the removal of the container closes the question, and nothing else is seen of a step. *)

PromptsStep == [Promise!Next]_<<typed, Answers, Closed>>

\* Steps that Prompts does not see.
LEMMA Unseen ==
  ASSUME UNCHANGED <<archive, typed>>, rec'.results = rec.results,
         \A q \in Turns : box'[q] = "gone" <=> box[q] = "gone"
  PROVE  PromptsStep
BY DEF PromptsStep, Answers, Recorded, Closed

LEMMA CallsUnseen ==
  ASSUME CInv,
         \/ Finalize \/ CloseAgain \/ Interrupt
         \/ ServeCopy \/ ServeRemoval \/ StartRemoval \/ BridgeDies
         \/ \E u \in Turns : \/ Begin(u) \/ Rotate(u) \/ Attach(u) \/ Await(u) \/ Launch(u)
                            \/ Resume(u) \/ ReserveLost(u) \/ Enter(u) \/ Answer(u)
  PROVE  PromptsStep
<1>1. UNCHANGED <<rec, archive, box, typed>>
  BY DEF files, docker, Finalize, CloseAgain, Interrupt, ServeCopy, ServeRemoval, StartRemoval,
         BridgeDies, Begin, Rotate, Attach, Await, Launch, Resume, ReserveLost, Enter, Answer
<1> QED
  BY <1>1, Unseen

LEMMA RecordUnseen ==
  ASSUME CInv,
         \/ MarkStopped \/ CopyDone \/ RemovalDone \/ Complete \/ CompleteLost
         \/ Ask("copy") \/ Ask("removal")
         \/ \E command \in {"copy", "removal"} : CommandFailed(command)
         \/ \E u \in Turns : CreationFailed(u) \/ Prepare(u) \/ Reserve(u) \/ ReserveRefused(u)
  PROVE  PromptsStep
<1>1. UNCHANGED <<archive, box, typed>>
  BY DEF files, docker, MarkStopped, CopyDone, RemovalDone, Complete, CompleteLost, Ask,
         CommandFailed, CreationFailed, Prepare, Reserve, ReserveRefused
<1>2. rec'.results = rec.results
  BY Types DEF files, ContainerRecord, MarkStopped, CopyDone, RemovalDone, Complete, CompleteLost,
         Ask, CommandFailed, CreationFailed, Prepare, Reserve, Marked, ReserveRefused
<1> QED
  BY <1>1, <1>2, Unseen

LEMMA ContainerUnseen ==
  ASSUME CInv, ExitTerminal \/ \E q \in Turns : Appear(q) \/ ContainerStops(q)
  PROVE  PromptsStep
<1>1. UNCHANGED <<rec, archive, typed>>
  BY DEF files, ExitTerminal, Appear, ContainerStops
<1>2. \E s \in {"running", "stopped"} :
        box' = [box EXCEPT ![Here] = s] /\ Here # NoTurn /\ box[Here] # "gone"
  <2>1. CASE ExitTerminal
    BY <2>1 DEF ExitTerminal, TakesInput, HereIs, CInv, OrderInv
  <2>2. ASSUME NEW q \in Turns, ContainerStops(q)
        PROVE  /\ box' = [box EXCEPT ![Here] = "stopped"] /\ Here # NoTurn /\ box[Here] # "gone"
    <3>1. q = Here /\ Here # NoTurn
      BY <2>2, NotLaunching DEF ContainerStops
    <3> QED
      BY <2>2, <3>1 DEF ContainerStops
  <2>3. ASSUME NEW q \in Turns, Appear(q)
        PROVE  /\ box' = [box EXCEPT ![Here] = "running"] /\ Here # NoTurn /\ box[Here] # "gone"
    BY <2>3, Order DEF Appear, CInv, OrderInv
  <2> QED
    BY <2>1, <2>2, <2>3
<1>3. PICK s \in {"running", "stopped"} :
        box' = [box EXCEPT ![Here] = s] /\ Here # NoTurn /\ box[Here] # "gone"
  BY <1>2
<1>4. box'[Here] = s /\ \A q \in Turns : q # Here => box'[q] = box[q]
  BY <1>3, OneBox
<1> QED
  BY <1>1, <1>3, <1>4, Unseen

LEMMA IntendUnseen ==
  ASSUME CInv, NEW u \in Turns, Intend(u)
  PROVE  PromptsStep
<1>1. /\ archive' = archive \cup rec.results /\ rec' = NewRecord(Root[u])
      /\ UNCHANGED <<box, typed>>
  BY DEF Intend, docker
<1>2. rec'.results = {}
  BY <1>1, Order, FreshRecord
<1> QED
  BY <1>1, <1>2 DEF PromptsStep, Answers, Recorded, Closed

\* The prompt was not typed before, and every other one typed for the question has
\* its answer kept.
LEMMA PasteSends ==
  ASSUME CInv, NEW u \in Turns, Paste(u)
  PROVE  Promise!Send(u)
<1>1. /\ job.step = "paste" /\ job.turn = u /\ HereIs("running") /\ typed' = typed \cup {u}
      /\ UNCHANGED <<rec, archive, box>>
  BY DEF Paste, At, TakesInput, files, docker
<1>2. Here = Root[u] /\ Here \in Turns /\ rec.pending.turn = u /\ u \notin typed
  BY <1>1, AtStep DEF CInv, JobInv, Attending, Prompting
<1>3. Root[u] \notin Closed
  BY <1>1, <1>2 DEF Closed, HereIs
<1>4. ASSUME NEW v \in typed, Root[v] = Root[u] PROVE v \in Answers
  <2>1. v \in Recorded(rec.results)
    BY <1>2, <1>4 DEF CInv, ResultsInv
  <2> QED
    BY <2>1 DEF Recorded, Answers
<1>5. UNCHANGED <<Answers, Closed>>
  BY <1>1 DEF Answers, Recorded, Closed
<1> QED
  BY <1>1, <1>2, <1>3, <1>4, <1>5 DEF Promise!Send

\* The answer kept is the first one of the turn: those of the record are to prompts
\* before its own, those archived of earlier questions.
LEMMA SaveRecords ==
  ASSUME CInv, NEW u \in Turns, CaptureStopped(u) \/ Observe(u)
  PROVE  Promise!Record(u)
<1>1. /\ \E s \in {"stopped", rec.status} : SaveResult(u, s)
      /\ rec.pending.turn = u /\ rec.status # "absent" /\ box[Here] \in {"running", "stopped"}
      /\ UNCHANGED <<archive, box, typed>>
  <2>1. rec.pending.turn = u
    BY DEF CaptureStopped, Stopped, Observe, At, CInv, JobInv, Prompting
  <2>2. rec.status # "absent"
    BY <2>1, Order DEF CInv, OrderInv, PendingInv
  <2> QED
    BY <2>1, <2>2 DEF CaptureStopped, Observe, HereIs, files, docker
<1>2. u # NoTurn /\ Here = Root[u] /\ Here \in Turns /\ rec.pending.before \in Nat
  BY <1>1, Numbers, Order DEF CInv, PendingInv
<1>3. PICK s \in {"stopped", rec.status} : SaveResult(u, s)
  BY <1>1
<1>4. PICK i \in Matches(u) :
        rec' = [rec EXCEPT !.results = @ \cup {[turn |-> u, prompt |-> i]},
                           !.pending = NothingPending, !.status = s]
  BY <1>3 DEF SaveResult
<1>5. /\ i = rec.pending.before + 1 /\ i = Len(native[Here]) /\ i \in Turns
      /\ native[Here][i].turn = u
  BY <1>1, <1>2, <1>4, OneMatch
<1>6. rec'.results = rec.results \cup {[turn |-> u, prompt |-> i]}
  BY <1>4, Types DEF ContainerRecord
<1>7. u \in typed
  <2>1. i \in 1 .. Len(native[Here])
    BY <1>5, Order
  <2> QED
    BY <1>2, <1>5, <2>1 DEF CInv, TraceInv
<1>8. ASSUME NEW r \in rec.results PROVE r.turn # u
  <2>1. r.prompt <= rec.pending.before /\ native[Here][r.prompt].turn = r.turn
    BY <1>1, <1>2, Order DEF CInv, ResultsInv, Kept
  <2>2. r.prompt \in Nat \ {0} /\ r.turn \in Nat /\ u \in Nat
    BY Types, Order DEF Result
  <2>3. r.prompt \in 1 .. rec.pending.before
    BY <1>2, <2>1, <2>2
  <2>4. r.turn < u
    BY <1>1, <1>2, <2>1, <2>3 DEF CInv, PendingInv
  <2> QED
    BY <2>2, <2>4
<1>9. ASSUME NEW r \in archive PROVE r.turn # u
  <2>1. Root[r.turn] < Root[u] /\ Root[r.turn] \in Nat
    BY <1>2, Types, Order DEF CInv, ArchiveInv, Result
  <2> QED
    BY <2>1
<1>10. u \notin Answers
  BY <1>8, <1>9 DEF Answers, Recorded
<1>11. Answers' = Answers \cup {u}
  <2> DEFINE kept == [turn |-> u, prompt |-> i]
  <2>1. kept.turn = u /\ archive' \cup rec'.results = archive \cup rec.results \cup {kept}
    BY <1>1, <1>6
  <2> HIDE DEF kept
  <2>2. \A x : x \in Answers' <=> x \in Answers \cup {u}
    BY <2>1 DEF Answers, Recorded
  <2> QED
    BY <2>2
<1>12. Root[u] \notin Closed /\ Closed' = Closed
  BY <1>1, <1>2 DEF Closed
<1> QED
  BY <1>1, <1>7, <1>10, <1>11, <1>12 DEF Promise!Record

\* Only the record's container is removed, and it is named by the turn that opened its
\* question.
LEMMA RemovalCloses ==
  ASSUME CInv, EndRemoval \/ RemovedLate
  PROVE  PromptsStep
<1>1. UNCHANGED <<rec, archive, typed>> /\ (box' = box \/ box' = [box EXCEPT ![Here] = "gone"])
  BY DEF EndRemoval, RemovedLate, files
<1>2. Here # NoTurn /\ Here \in Turns /\ Root[Here] = Here
  <2>1. Here # NoTurn
    BY DEF EndRemoval, RemovedLate, HereIs, CInv, OrderInv, ExportInv
  <2> QED
    BY <2>1, Numbers DEF CInv, OrderInv, First
<1>3. CASE box' = [box EXCEPT ![Here] = "gone"] /\ box[Here] # "gone"
  <2>1. box'[Here] = "gone" /\ \A q \in Turns : q # Here => box'[q] = box[q]
    BY <1>2, <1>3, OneBox
  <2>2. Here \notin Closed /\ Closed' = Closed \cup {Here}
    BY <1>2, <1>3, <2>1 DEF Closed
  <2>3. UNCHANGED <<typed, Answers>>
    BY <1>1 DEF Answers, Recorded
  <2>4. Promise!Close(Root[Here])
    BY <1>2, <2>2, <2>3 DEF Promise!Close
  <2> QED
    BY <1>2, <2>4 DEF PromptsStep, Promise!Next, Turns
<1>4. CASE box' = box \/ (box' = [box EXCEPT ![Here] = "gone"] /\ box[Here] = "gone")
  <2>1. \A q \in Turns : box'[q] = "gone" <=> box[q] = "gone"
    BY <1>2, <1>4, Types
  <2> QED
    BY <1>1, <2>1, Unseen
<1> QED
  BY <1>1, <1>3, <1>4

LEMMA StepIsPrompts == CInv /\ [SessionNext]_vars => PromptsStep
<1> SUFFICES ASSUME CInv, [SessionNext]_vars PROVE PromptsStep
  OBVIOUS
<1>1. CASE \E u \in Turns : Attempt(u)
  <2>1. PICK u \in Turns : Attempt(u)
    BY <1>1
  <2>2. CASE Paste(u)
    BY <2>2, PasteSends DEF PromptsStep, Promise!Next, Turns
  <2>3. CASE CaptureStopped(u) \/ Observe(u)
    BY <2>3, SaveRecords DEF PromptsStep, Promise!Next, Turns
  <2>4. CASE Intend(u)
    BY <2>4, IntendUnseen
  <2>5. CASE \/ Begin(u) \/ Rotate(u) \/ Attach(u) \/ Await(u) \/ Launch(u) \/ Resume(u)
             \/ ReserveLost(u) \/ Enter(u)
    BY <2>5, CallsUnseen
  <2>6. CASE CreationFailed(u) \/ Prepare(u) \/ Reserve(u) \/ ReserveRefused(u)
    BY <2>6, RecordUnseen
  <2> QED
    BY <2>1, <2>2, <2>3, <2>4, <2>5, <2>6 DEF Attempt
<1>2. CASE Closing \/ Interrupt
  <2>1. CASE Finalize \/ CloseAgain \/ Interrupt
    BY <2>1, CallsUnseen
  <2>2. CASE \/ MarkStopped \/ CopyDone \/ RemovalDone \/ Complete \/ CompleteLost
             \/ \E command \in {"copy", "removal"} : CommandFailed(command)
    BY <2>2, RecordUnseen
  <2>3. CASE Export \/ Remove
    BY <2>3, RecordUnseen DEF Export, Remove
  <2>4. CASE ExitTerminal
    BY <2>4, ContainerUnseen
  <2> QED
    BY <1>2, <2>1, <2>2, <2>3, <2>4 DEF Closing
<1>3. CASE Terminal
  BY <1>3, CallsUnseen, RemovalCloses DEF Terminal
<1>4. CASE Container \/ RemovedLate
  BY <1>4, CallsUnseen, ContainerUnseen, RemovalCloses DEF Container
<1>5. CASE UNCHANGED vars
  BY <1>5, Unseen DEF vars, files, docker
<1> QED
  BY <1>1, <1>2, <1>3, <1>4, <1>5 DEF SessionNext

\* The sessions keep the promise of Prompts: a prompt is sent at most once, to an open
\* question whose earlier prompts are answered, and each answer is recorded once, before
\* the question closes.
THEOREM SessionsImplementPrompts == SessionSpec => ImplementsPrompts
<1>1. SessionInit => Promise!Init
  BY DEF SessionInit, NewRecord, Promise!Init, Answers, Recorded, Closed
<1>2. CInv /\ [SessionNext]_vars => [Promise!Next]_<<typed, Answers, Closed>>
  BY StepIsPrompts DEF PromptsStep
<1> QED
  BY <1>1, <1>2, SessionInductive, PTL DEF SessionSpec, ImplementsPrompts, Promise!Spec
=============================================================================
