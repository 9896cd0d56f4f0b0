----------------------------- MODULE SupplyProofs -----------------------------
(***************************************************************************)
(* Proofs about Supply, for any candidates, repositories, limits and       *)
(* bounds: a draft becomes at most one task, a task is inserted only into  *)
(* a gap, and no input has two processes at work.                          *)
(***************************************************************************)
EXTENDS Supply, FiniteSetTheorems, SequenceTheorems, TLAPS

-----------------------------------------------------------------------------
(* The inductive invariant.                                                *)

(* The draft exists while it is worked on, and is not evaluated any more   *)
(* once it is pending.                                                     *)
DraftInv ==
    /\ at.step = "working" \/ d.pending => d.id # 0
    /\ call # NoCall => at.step = "working" /\ ~d.pending
    /\ d.id <= drafts

(* Who speaks for a draft, and with which text: the requests at the store, *)
(* the tasks made of it, and the draft itself once it is pending.          *)
Live == {h \in Handlers : handlers[h] # NoHandler}
Requested == {<<handlers[h].draft, handlers[h].mark>> : h \in Live}
Made == {<<tasks[n].draft, tasks[n].mark>> : n \in {k \in DOMAIN tasks : tasks[k].draft > 0}}
Offered == IF d.pending THEN {<<d.id, Mark>>} ELSE {}
Claims == Requested \cup Made \cup Offered

(* All of them give a draft the same text; before it is pending nobody     *)
(* speaks for it.                                                          *)
ClaimInv ==
    /\ \A p \in Claims : p[1] \in 1 .. drafts
    /\ \A p, q \in Claims : p[1] = q[1] => p[2] = q[2]
    /\ ~d.pending => \A p \in Claims : p[1] # d.id

(* A handler that has read tasks no one changed since read a gap.          *)
GapInv ==
    \A h \in Live : handlers[h].at = "insert" /\ handlers[h].fresh =>
        Unfinished < ProjectLimit(handlers[h].concurrency)

(* The process waited for is the only one of its input; an input without   *)
(* a receipt has none.                                                     *)
ProcInv ==
    /\ \A i \in Inputs : living[i] <= 1 /\ (receipts[i].status = "none" => living[i] = 0)
    /\ call.at = "spawned" => living[call.input] = 0
    /\ call.at \in {"spawned", "working", "appended"} => receipts[call.input].status # "none"
    /\ call.at \in {"working", "appended"} => living[call.input] = 1

GInv == SupplyTypeOK /\ DraftInv /\ ClaimInv /\ GapInv /\ ProcInv /\ DraftCreatesOnce

-----------------------------------------------------------------------------
(* The evaluator's process, whatever calls it.                             *)

LEMMA CallTypes ==
    ASSUME ProcessTypeOK, call.at # "none"
    PROVE  /\ call \in [at : {"spawned", "working", "appended", "answered", "failed"},
                        input : Inputs, chunks : 0 .. 2]
           /\ call.input \in Inputs /\ call # NoCall
BY DEF ProcessTypeOK, NoCall

LEMMA LaunchKeeps ==
    ASSUME ProcessTypeOK, ProcInv, NEW i \in Inputs, Launch(i)
    PROVE  /\ ProcessTypeOK' /\ ProcInv'
           /\ call' = [at |-> "spawned", input |-> i, chunks |-> 0]
<1>1. /\ call = NoCall /\ ~Alive(i) /\ living' = living
      /\ receipts' = [receipts EXCEPT ![i] =
             [status |-> "running", thread |-> Resumable(i), trace |-> FALSE]]
      /\ call' = [at |-> "spawned", input |-> i, chunks |-> 0]
    BY DEF Launch, Refused
<1>2. Resumable(i) \in BOOLEAN
    BY DEF ProcessTypeOK, Resumable
<1> DEFINE receipt == [status |-> "running", thread |-> Resumable(i), trace |-> FALSE]
<1>3. /\ receipt \in [status : {"none", "running", "interrupted", "complete"},
                      thread : BOOLEAN, trace : BOOLEAN]
      /\ receipt.status = "running"
    BY <1>2
<1> HIDE DEF receipt
<1>4. receipts' = [receipts EXCEPT ![i] = receipt]
    BY <1>1 DEF receipt
<1>5. ProcessTypeOK'
    BY <1>1, <1>3, <1>4 DEF ProcessTypeOK
<1>6. living[i] = 0
    BY <1>1 DEF ProcessTypeOK, ProcInv, Alive
<1>7. ProcInv'
    BY <1>1, <1>3, <1>4, <1>6 DEF ProcessTypeOK, ProcInv
<1> QED
    BY <1>1, <1>5, <1>7

(* A step of the process that is waited for.                               *)
LEMMA OwnStepKeeps ==
    ASSUME ProcessTypeOK, ProcInv, ProcessStep \/ ExitBadly
    PROVE  ProcessTypeOK' /\ ProcInv' /\ call # NoCall /\ call' # NoCall
<1> DEFINE i == call.input
<1>1. call.at \in {"spawned", "working", "appended"}
    BY DEF ProcessStep, ExitBadly, SendPrompt, AppendOutput, RecordOutput, ExitWell, Ended
<1>2. /\ call \in [at : {"spawned", "working", "appended", "answered", "failed"},
                   input : Inputs, chunks : 0 .. 2]
      /\ i \in Inputs /\ call # NoCall
    BY <1>1, CallTypes
<1>3. CASE SendPrompt
    BY <1>2, <1>3 DEF ProcessTypeOK, ProcInv, SendPrompt, NoCall
<1>4. CASE AppendOutput
    <2>1. /\ call' = [call EXCEPT !.at = "appended", !.chunks = @ + 1] /\ call.chunks < 2
          /\ receipts' = [receipts EXCEPT ![i].trace = FALSE] /\ living' = living
          /\ call.at = "working"
        BY <1>4 DEF AppendOutput
    <2>2. /\ call' \in [at : {"spawned", "working", "appended", "answered", "failed"},
                         input : Inputs, chunks : 0 .. 2]
          /\ call'.input = i /\ call'.at = "appended"
        <3> DEFINE n == call.chunks + 1
        <3>1. n \in 0 .. 2 /\ call' = [call EXCEPT !.at = "appended", !.chunks = n]
            BY <1>2, <2>1
        <3> HIDE DEF n
        <3> QED
            BY <1>2, <3>1
    <2>3. /\ receipts' \in [Inputs -> [status : {"none", "running", "interrupted", "complete"},
                                       thread : BOOLEAN, trace : BOOLEAN]]
          /\ \A j \in Inputs : receipts'[j].status = receipts[j].status
        BY ZenonT(40), <1>2, <2>1 DEF ProcessTypeOK
    <2>4. call' # NoCall
        BY <2>2 DEF NoCall
    <2> HIDE DEF i
    <2>5. ProcessTypeOK'
        BY <2>1, <2>2, <2>3 DEF ProcessTypeOK
    <2>6. \A j \in Inputs : living'[j] <= 1 /\ (receipts'[j].status = "none" => living'[j] = 0)
        BY <2>1, <2>3 DEF ProcInv
    <2>7. living[i] = 1 /\ receipts[i].status # "none"
        BY <2>1 DEF ProcInv, i
    <2>8. ProcInv'
        BY <1>2, <2>1, <2>2, <2>3, <2>6, <2>7 DEF ProcInv
    <2> QED
        BY <1>2, <2>4, <2>5, <2>8
<1>5. CASE RecordOutput
    BY ZenonT(40), <1>2, <1>5 DEF ProcessTypeOK, ProcInv, RecordOutput, NoCall
<1>6. CASE ExitWell \/ ExitBadly
    <2>1. \E status \in {"complete", "interrupted"}, end \in {"answered", "failed"} :
              Ended(status, end)
        BY <1>6 DEF ExitWell, ExitBadly
    <2>2. PICK status \in {"complete", "interrupted"}, end \in {"answered", "failed"} :
              Ended(status, end)
        BY <2>1
    <2>3. living[i] = 1
        BY <2>2 DEF Ended, ProcInv
    <2> QED
        BY <1>2, <2>2, <2>3 DEF ProcessTypeOK, ProcInv, Ended, NoCall
<1> QED
    BY <1>3, <1>4, <1>5, <1>6 DEF ProcessStep

(* A process of a runner that died ends.                                   *)
LEMMA UnheardKeeps ==
    ASSUME ProcessTypeOK, ProcInv, NEW i \in Inputs, ExitUnheard(i)
    PROVE  ProcessTypeOK' /\ ProcInv' /\ call' = call
<1>1. living[i] \in Nat /\ living[i] <= 1
    BY DEF ProcessTypeOK, ProcInv
<1>2. /\ living[i] = 1 /\ ~(call.at \in {"working", "appended"} /\ call.input = i)
      /\ living' = [living EXCEPT ![i] = 0] /\ receipts' = receipts /\ call' = call
    <2>1. /\ living' = [living EXCEPT ![i] = living[i] - 1]
          /\ receipts' = receipts /\ call' = call
          /\ call.at \in {"working", "appended"} /\ call.input = i => living[i] > 1
          /\ ~(call.at \in {"working", "appended"} /\ call.input = i) => living[i] > 0
        BY DEF ExitUnheard
    <2>2. living[i] = 1
        BY <1>1, <2>1
    <2>3. ~(call.at \in {"working", "appended"} /\ call.input = i)
        BY <1>1, <2>1
    <2> QED
        BY <2>1, <2>2, <2>3
<1>3. ProcessTypeOK'
    BY <1>2 DEF ProcessTypeOK
<1>4. ProcInv'
    BY <1>2 DEF ProcessTypeOK, ProcInv
<1> QED
    BY <1>2, <1>3, <1>4

(* The runner forgets its call, or a new draft begins with other inputs.   *)
LEMMA ForgetKeeps ==
    ASSUME ProcessTypeOK, ProcInv, call' = NoCall,
           \/ receipts' = receipts /\ living' = living
           \/ receipts' = NoReceipts /\ living' = NoProcesses
    PROVE  ProcessTypeOK' /\ ProcInv'
<1>1. NoReceipt \in [status : {"none", "running", "interrupted", "complete"},
                      thread : BOOLEAN, trace : BOOLEAN]
    BY DEF NoReceipt
<1>2. /\ receipts' \in [Inputs -> [status : {"none", "running", "interrupted", "complete"},
                                   thread : BOOLEAN, trace : BOOLEAN]]
      /\ living' \in [Inputs -> Nat]
      /\ \A i \in Inputs : /\ living'[i] <= 1
                           /\ receipts'[i].status = "none" => living'[i] = 0
    <2>1. CASE receipts' = receipts /\ living' = living
        BY <2>1 DEF ProcessTypeOK, ProcInv
    <2>2. CASE receipts' = NoReceipts /\ living' = NoProcesses
        BY <1>1, <2>2 DEF NoReceipts, NoProcesses
    <2> QED
        BY <2>1, <2>2
<1>3. call'.at = "none"
    BY DEF NoCall
<1> QED
    BY <1>2, <1>3 DEF ProcessTypeOK, ProcInv

-----------------------------------------------------------------------------
(* The draft.                                                              *)

LEMMA Types ==
    ASSUME GInv
    PROVE  /\ supply \in [draft : Drafts, auth : BOOLEAN] /\ d \in Drafts
           /\ at \in Places /\ ProcessTypeOK /\ ProcInv
           /\ drafts \in Nat /\ rules \in Nat /\ edits \in Nat /\ mishaps \in Nat
           /\ handlers \in [Handlers -> Requests \cup {NoHandler}]
           /\ tasks \in Seq(Tasks)
BY DEF GInv, SupplyTypeOK, d

LEMMA NoDraftTypes == NoDraft \in Drafts /\ NoDraft.id = 0 /\ NoDraft.pending = FALSE
BY DEF NoDraft, Drafts

(* The kept state with another draft.                                      *)
LEMMA SupplyMoves ==
    ASSUME GInv, NEW draft \in Drafts, supply' = [supply EXCEPT !.draft = draft]
    PROVE  supply' \in [draft : Drafts, auth : BOOLEAN] /\ d' = draft
BY Types DEF d

(* Steps that leave tasks and requests alone: the draft goes, a new one    *)
(* begins, or it changes before it is pending.                             *)
LEMMA StoreStands ==
    ASSUME GInv, UNCHANGED <<tasks, handlers>>, SupplyTypeOK', DraftInv', ProcInv',
           drafts <= drafts',
           \/ d' = d
           \/ ~d'.pending /\ d'.id \in {0, drafts + 1}
           \/ ~d.pending /\ d'.id = d.id
    PROVE  GInv'
<1>1. drafts \in Nat /\ drafts' \in Nat /\ d \in Drafts /\ d' \in Drafts
    BY DEF GInv, SupplyTypeOK, d
<1>2. GapInv' /\ DraftCreatesOnce'
    BY DEF GInv, GapInv, Live, Unfinished, Count, DraftCreatesOnce
<1>3. Requested' = Requested /\ Made' = Made
    BY DEF Requested, Made, Live
<1> DEFINE Old == Requested \cup Made
<1>4. Old \subseteq Claims
    BY DEF Claims
<1>5. Claims' = Old \cup Offered'
    BY <1>3 DEF Claims
<1>6. /\ \A p \in Old : p[1] \in 1 .. drafts
      /\ \A p, q \in Old : p[1] = q[1] => p[2] = q[2]
    BY <1>4 DEF GInv, ClaimInv
<1> HIDE DEF Old
<1>7. CASE d' = d
    <2>1. Offered' = Offered
        BY <1>7 DEF Offered, Mark
    <2>2. Claims' = Claims
        BY <1>3, <2>1 DEF Claims
    <2>3. ClaimInv'
        BY <1>1, <1>7, <2>2 DEF GInv, ClaimInv
    <2> QED
        BY <1>2, <2>3 DEF GInv
<1>8. CASE ~d'.pending /\ d'.id \in {0, drafts + 1}
    <2>1. Claims' = Old
        BY <1>5, <1>8 DEF Offered
    <2>2. ClaimInv'
        BY <1>1, <1>6, <1>8, <2>1 DEF ClaimInv
    <2> QED
        BY <1>2, <2>2 DEF GInv
<1>9. CASE ~d.pending /\ d'.id = d.id
    <2>1. \A p \in Old : p[1] # d'.id
        BY <1>4, <1>9 DEF GInv, ClaimInv
    <2>2. d'.pending => d'.id \in 1 .. drafts'
        BY <1>1 DEF DraftInv, Drafts
    <2>3. \A p \in Offered' : d'.pending /\ p = <<d'.id, Mark'>>
        BY DEF Offered
    <2>4. ~d'.pending => Claims' = Old
        BY <1>5 DEF Offered
    <2>5. \A p \in Claims' : p[1] \in 1 .. drafts'
        BY <1>1, <1>5, <1>6, <2>2, <2>3
    <2>6. \A p, q \in Claims' : p[1] = q[1] => p[2] = q[2]
        BY <1>5, <1>6, <2>1, <2>3
    <2>7. ClaimInv'
        BY <2>1, <2>4, <2>5, <2>6 DEF ClaimInv
    <2> QED
        BY <1>2, <2>7 DEF GInv
<1> QED
    BY <1>7, <1>8, <1>9

LEMMA ContextSteps ==
    ASSUME GInv, ReadContext \/ CredentialsChange \/ SaveConfig \/ NewRules \/ Start \/ Crash
    PROVE  GInv'
<1> USE DEF process, store, Quiet, Idle
<1>1. /\ UNCHANGED <<tasks, handlers, drafts, receipts, living>> /\ call' \in {call, NoCall}
      /\ supply' = supply \/ \E b \in BOOLEAN : supply' = [supply EXCEPT !.auth = b]
    BY DEF ReadContext, CredentialsChange, SaveConfig, NewRules, Start, Crash, Outlive
<1>2. supply' \in [draft : Drafts, auth : BOOLEAN] /\ d' = d
    BY <1>1, Types DEF d
<1>3. ProcessTypeOK' /\ ProcInv'
    <2>1. CASE call' = call
        BY <1>1, <2>1, Types DEF ProcessTypeOK, ProcInv
    <2>2. CASE call' = NoCall
        BY <1>1, <2>2, Types, ForgetKeeps
    <2> QED
        BY <1>1, <2>1, <2>2
<1>4. at' \in Places /\ (at' = at \/ at'.step \notin {"working"})
    <2>1. at' \in {at, [step |-> "ready"], [step |-> "idle"], [step |-> "off"]}
        BY DEF ReadContext, CredentialsChange, SaveConfig, NewRules, Start, Crash
    <2> QED
        BY <2>1, Types DEF Places
<1>5. call' # NoCall => at' = at /\ call' = call
    <2>1. CASE ReadContext \/ Start
        BY <2>1, <1>1 DEF ReadContext, Start, GInv, DraftInv
    <2>2. CASE Crash
        BY <2>2 DEF Crash, Outlive
    <2>3. CASE CredentialsChange \/ SaveConfig \/ NewRules
        BY <2>3 DEF CredentialsChange, SaveConfig, NewRules
    <2> QED
        BY <2>1, <2>2, <2>3
<1>6. DraftInv'
    BY <1>1, <1>2, <1>4, <1>5 DEF GInv, DraftInv
<1>7. config' \in [enabled : BOOLEAN, repos : SUBSET Repos, concurrency : Nat]
    <2>1. 1 \in Nat /\ 2 \in Nat
        OBVIOUS
    <2>2. config' = config \/ config' \in [enabled : BOOLEAN, repos : SUBSET Repos, concurrency : {1, 2}]
        BY DEF ReadContext, CredentialsChange, SaveConfig, NewRules, Start, Crash
    <2> QED
        BY <2>1, <2>2 DEF GInv, SupplyTypeOK
<1>8. ctx'.size \in 0 .. MaxTasks /\ ctx'.repos \subseteq Repos
    <2>1. ctx' \in {ctx, Context, NoContext}
        BY DEF ReadContext, CredentialsChange, SaveConfig, NewRules, Start, Crash
    <2>2. Context.size \in 0 .. MaxTasks /\ Context.repos \subseteq Repos
        <3>1. Len(tasks) \in Nat /\ MaxTasks \in Nat
            BY Types, LenProperties, SupplyAssumption
        <3> QED
            BY <3>1 DEF Context, GInv, SupplyTypeOK
    <2>3. NoContext.size \in 0 .. MaxTasks /\ NoContext.repos \subseteq Repos
        BY SupplyAssumption DEF NoContext
    <2> QED
        BY <2>1, <2>2, <2>3 DEF GInv, SupplyTypeOK
<1>9. rules' \in Nat /\ edits' \in Nat /\ mishaps' \in Nat /\ drafts' \in Nat
    BY Types DEF ReadContext, CredentialsChange, SaveConfig, NewRules, Start, Crash
<1>10. SupplyTypeOK'
    BY <1>1, <1>2, <1>3, <1>4, <1>7, <1>8, <1>9 DEF GInv, SupplyTypeOK
<1> QED
    BY <1>1, <1>2, <1>3, <1>6, <1>10, StoreStands, Types

(* Of a step of the replenisher, with what it is and what it has saved.    *)
LEMMA ReplenisherKeeps ==
    ASSUME GInv, UNCHANGED <<tasks, config, rules, handlers, ctx, edits>>,
           drafts' \in Nat, drafts <= drafts', mishaps' \in Nat,
           at' \in Places, supply' \in [draft : Drafts, auth : BOOLEAN],
           ProcessTypeOK', ProcInv',
           at'.step = "working" \/ d'.pending => d'.id # 0,
           call' # NoCall => at'.step = "working" /\ ~d'.pending,
           \/ d' = d
           \/ ~d'.pending /\ d'.id = 0
           \/ ~d'.pending /\ d'.id = drafts + 1 /\ drafts' = drafts + 1
           \/ ~d.pending /\ d'.id = d.id
    PROVE  GInv'
<1>1. SupplyTypeOK'
    BY DEF GInv, SupplyTypeOK
<1>2. d'.id <= drafts'
    BY Types DEF GInv, DraftInv, Drafts
<1>3. DraftInv'
    BY <1>2 DEF DraftInv
<1> QED
    BY <1>1, <1>3, StoreStands

LEMMA IdleTypes == [step |-> "idle"] \in Places /\ [step |-> "idle"].step # "working"
BY DEF Places

(* The draft is given up, or kept, and the loop goes on.                   *)
LEMMA EndsWork ==
    ASSUME GInv, RejectUnfit \/ AuditRefuses \/ RulesOutdated \/ EvaluationFails \/ EvaluateRefused
    PROVE  GInv'
<1> USE DEF process, store, Quiet, Idle, Drop, Free
<1>1. /\ UNCHANGED <<tasks, config, rules, handlers, ctx, edits, drafts, receipts, living>>
      /\ at' = [step |-> "idle"] /\ mishaps' \in {mishaps, mishaps + 1} /\ call' = NoCall
    BY DEF RejectUnfit, AuditRefuses, RulesOutdated, EvaluationFails, EvaluateRefused
<1>2. /\ supply' \in [draft : Drafts, auth : BOOLEAN]
      /\ d' = d \/ (~d'.pending /\ d'.id = 0)
    <2>1. CASE RejectUnfit \/ AuditRefuses \/ RulesOutdated
        <3>1. supply' = [supply EXCEPT !.draft = NoDraft]
            BY <2>1 DEF RejectUnfit, AuditRefuses, RulesOutdated, WithoutDraft
        <3> QED
            BY <3>1, NoDraftTypes, SupplyMoves
    <2>2. CASE EvaluationFails \/ EvaluateRefused
        <3>1. supply' = supply \/ \E b \in BOOLEAN : supply' = [supply EXCEPT !.auth = b]
            BY <2>2 DEF EvaluationFails, EvaluateRefused
        <3> QED
            BY <3>1, Types DEF d
    <2> QED
        BY <2>1, <2>2
<1>3. ProcessTypeOK' /\ ProcInv'
    BY <1>1, Types, ForgetKeeps
<1>4. d'.pending => d'.id # 0
    BY <1>2 DEF GInv, DraftInv
<1> QED
    BY <1>1, <1>2, <1>3, <1>4, Types, IdleTypes, ReplenisherKeeps

LEMMA ReplenishKeeps ==
    ASSUME GInv, Replenish
    PROVE  GInv'
<1> USE DEF process, store, Idle
<1>1. /\ UNCHANGED <<tasks, config, rules, handlers, ctx, edits, mishaps>>
      /\ at.step = "ready" /\ call' = call
    BY DEF Replenish
<1>2. call = NoCall
    BY <1>1 DEF GInv, DraftInv
<1>3. [step |-> "working", pin |-> rules] \in Places
    BY Types DEF Places
<1>4. CASE ctx.wanted /\ ~supply.auth /\ supply.draft.id # 0
    <2>1. at' = [step |-> "working", pin |-> rules] /\ UNCHANGED <<supply, drafts, receipts, living>>
        BY <1>4 DEF Replenish
    <2>2. ProcessTypeOK' /\ ProcInv'
        BY <1>1, <1>2, <2>1, Types, ForgetKeeps
    <2>3. d' = d /\ d.id # 0
        BY <1>4, <2>1 DEF d
    <2> QED
        BY <1>1, <1>2, <1>3, <2>1, <2>2, <2>3, Types, ReplenisherKeeps
<1>5. CASE ctx.wanted /\ ~supply.auth /\ supply.draft.id = 0
    <2>1. PICK r \in ctx.repos :
              supply' = [supply EXCEPT !.draft = [NoDraft EXCEPT !.id = drafts + 1, !.repo = r]]
        BY <1>5 DEF Replenish
    <2>2. /\ at' = [step |-> "working", pin |-> rules] /\ drafts' = drafts + 1
          /\ receipts' = NoReceipts /\ living' = NoProcesses
        BY <1>5 DEF Replenish
    <2> DEFINE draft == [NoDraft EXCEPT !.id = drafts + 1, !.repo = r]
    <2>3. r \in Repos
        BY <2>1 DEF GInv, SupplyTypeOK
    <2>4. draft \in Drafts /\ draft.id = drafts + 1 /\ ~draft.pending
        <3> DEFINE n == drafts + 1
        <3>1. n \in Nat
            BY Types
        <3> HIDE DEF n
        <3>2. draft = [NoDraft EXCEPT !.id = n, !.repo = r]
            BY DEF n
        <3> HIDE DEF draft
        <3>3. draft \in Drafts /\ draft.id = n /\ draft.pending = NoDraft.pending
            BY <2>3, <3>1, <3>2, NoDraftTypes DEF Drafts
        <3> QED
            BY <3>3, NoDraftTypes DEF n
    <2> HIDE DEF draft
    <2>5. supply' \in [draft : Drafts, auth : BOOLEAN] /\ d' = draft
        <3>1. supply' = [supply EXCEPT !.draft = draft]
            BY <2>1 DEF draft
        <3> QED
            BY <2>4, <3>1, SupplyMoves
    <2>6. ProcessTypeOK' /\ ProcInv'
        BY <1>1, <1>2, <2>2, Types, ForgetKeeps
    <2>7. drafts' \in Nat /\ drafts <= drafts' /\ drafts + 1 # 0
        BY <2>2, Types
    <2> QED
        BY <1>1, <1>2, <1>3, <2>2, <2>4, <2>5, <2>6, <2>7, Types, ReplenisherKeeps
<1>6. CASE ~(ctx.wanted /\ ~supply.auth)
    <2>1. at' = [step |-> "idle"] /\ UNCHANGED <<supply, drafts, receipts, living>>
        BY <1>6 DEF Replenish
    <2>2. ProcessTypeOK' /\ ProcInv'
        BY <1>1, <1>2, <2>1, Types, ForgetKeeps
    <2>3. d' = d
        BY <2>1 DEF d
    <2>4. d.pending => d.id # 0
        BY DEF GInv, DraftInv
    <2> QED
        BY <1>1, <1>2, <2>1, <2>2, <2>3, <2>4, Types, IdleTypes, ReplenisherKeeps
<1> QED
    BY <1>4, <1>5, <1>6

(* What a call is made for is one of the inputs.                           *)
LEMMA NextInputTypes ==
    ASSUME GInv
    PROVE  NextInput \in Inputs
<1>1. ctx.size \in 0 .. MaxTasks /\ SupplyInputs \subseteq Inputs
    BY SupplyAssumption DEF GInv, SupplyTypeOK
<1>2. <<"generate">> \in Inputs /\ <<"wording">> \in Inputs
    BY <1>1 DEF SupplyInputs
<1>3. \A repaired \in BOOLEAN, size \in 0 .. MaxTasks : <<"policy", repaired, size>> \in SupplyInputs
    BY DEF SupplyInputs
<1>4. (d.wording = "done") \in BOOLEAN
    OBVIOUS
<1>5. <<"policy", d.wording = "done", ctx.size>> \in Inputs
    BY <1>1, <1>3, <1>4, Zenon
<1> QED
    BY <1>2, <1>5 DEF NextInput

LEMMA EvaluatorKeeps ==
    ASSUME GInv, Evaluate \/ EvaluatorFails \/ EvaluatorMoves
    PROVE  GInv'
<1> USE DEF store, Quiet
<1>1. /\ UNCHANGED <<tasks, config, rules, handlers, ctx, edits, drafts, at, supply>>
      /\ mishaps' \in {mishaps, mishaps + 1}
    BY DEF Evaluate, EvaluatorFails, EvaluatorMoves
<1>2. ProcessTypeOK' /\ ProcInv' /\ (call' = NoCall \/ call # NoCall \/ Evaluate)
    <2>1. CASE Evaluate
        BY <2>1, Types, NextInputTypes, LaunchKeeps DEF Evaluate
    <2>2. CASE EvaluatorFails \/ EvaluatorMoves
        <3>1. CASE ProcessStep \/ ExitBadly
            BY <3>1, Types, OwnStepKeeps
        <3>2. CASE \E i \in Inputs : ExitUnheard(i)
            BY <3>2, Types, UnheardKeeps
        <3> QED
            BY <2>2, <3>1, <3>2 DEF EvaluatorFails, EvaluatorMoves
    <2> QED
        BY <2>1, <2>2
<1>3. d' = d /\ (d.pending => d.id # 0)
    BY <1>1 DEF d, GInv, DraftInv
<1>4. /\ at.step = "working" \/ d.pending => d.id # 0
      /\ call' # NoCall => at.step = "working" /\ ~d.pending
    BY <1>2 DEF GInv, DraftInv, Evaluate, Checked
<1> QED
    BY <1>1, <1>2, <1>3, <1>4, Types, ReplenisherKeeps

(* What an evaluation answered is saved with the draft.                    *)
LEMMA SavesKeep ==
    ASSUME GInv, Generated \/ Worded \/ AuditAccepts \/ AuditAsksWording
    PROVE  GInv'
<1> USE DEF store, Quiet, Free, Save
<1>1. /\ UNCHANGED <<tasks, config, rules, handlers, ctx, edits, drafts, at, mishaps,
                     receipts, living>>
      /\ call' = NoCall /\ call.at = "answered"
    BY DEF Generated, Worded, AuditAccepts, AuditAsksWording
<1>2. at.step = "working" /\ ~d.pending /\ d.id # 0
    BY <1>1 DEF GInv, DraftInv, NoCall
<1>3. ProcessTypeOK' /\ ProcInv'
    BY <1>1, Types, ForgetKeeps
<1>4. \E draft \in Drafts : draft.id = d.id /\ supply' = [supply EXCEPT !.draft = draft]
    <2>1. CASE Generated
        <3>1. PICK c \in Candidates : supply' = [supply EXCEPT !.draft = [d EXCEPT !.generated = c]]
            BY <2>1 DEF Generated
        <3>2. [d EXCEPT !.generated = c] \in Drafts /\ [d EXCEPT !.generated = c].id = d.id
            BY Types DEF Drafts
        <3> QED
            BY <3>1, <3>2
    <2>2. CASE Worded
        <3>1. /\ [d EXCEPT !.wording = "done"] \in Drafts
              /\ [d EXCEPT !.wording = "done"].id = d.id
            BY Types DEF Drafts
        <3> QED
            BY <2>2, <3>1 DEF Worded
    <2>3. CASE AuditAsksWording
        <3>1. /\ [d EXCEPT !.wording = "asked"] \in Drafts
              /\ [d EXCEPT !.wording = "asked"].id = d.id
            BY Types DEF Drafts
        <3> QED
            BY <2>3, <3>1 DEF AuditAsksWording
    <2>4. CASE AuditAccepts
        <3>1. at.pin \in Nat
            BY <1>2, Types DEF Places
        <3>2. /\ [d EXCEPT !.pending = TRUE, !.rule = at.pin] \in Drafts
              /\ [d EXCEPT !.pending = TRUE, !.rule = at.pin].id = d.id
            BY <3>1, Types DEF Drafts
        <3> QED
            BY <2>4, <3>2 DEF AuditAccepts
    <2> QED
        BY <2>1, <2>2, <2>3, <2>4
<1>5. supply' \in [draft : Drafts, auth : BOOLEAN] /\ d'.id = d.id
    BY <1>4, SupplyMoves
<1> QED
    BY <1>1, <1>2, <1>3, <1>5, Types, ReplenisherKeeps

-----------------------------------------------------------------------------
(* The store.                                                              *)

LEMMA Claimed ==
    ASSUME GInv
    PROVE  /\ \A h \in Handlers : handlers[h] # NoHandler =>
                  <<handlers[h].draft, handlers[h].mark>> \in Claims
           /\ \A n \in DOMAIN tasks : tasks[n].draft > 0 =>
                  <<tasks[n].draft, tasks[n].mark>> \in Claims
           /\ d.pending => <<d.id, Mark>> \in Claims
BY DEF Claims, Requested, Made, Offered, Live

(* Of a step of the store, which leaves the calls and the context alone.   *)
LEMMA StoreKeeps ==
    ASSUME GInv, UNCHANGED <<config, rules, ctx, drafts, receipts, call, living>>,
           tasks' \in Seq(Tasks), Len(tasks') <= MaxTasks,
           handlers' \in [Handlers -> Requests \cup {NoHandler}],
           at' \in Places, supply' \in [draft : Drafts, auth : BOOLEAN],
           edits' \in Nat, mishaps' \in Nat, DraftInv',
           \/ d' = d
           \/ ~d'.pending /\ d'.id = 0,
           \A h \in Handlers : handlers'[h] # NoHandler =>
               <<handlers'[h].draft, handlers'[h].mark>> \in Claims,
           \A n \in DOMAIN tasks' : tasks'[n].draft > 0 =>
               <<tasks'[n].draft, tasks'[n].mark>> \in Claims,
           GapInv', DraftCreatesOnce'
    PROVE  GInv'
<1>1. ProcessTypeOK' /\ ProcInv'
    BY Types DEF ProcessTypeOK, ProcInv
<1>2. SupplyTypeOK'
    BY <1>1, Types DEF GInv, SupplyTypeOK
<1>3. Requested' \subseteq Claims /\ Made' \subseteq Claims
    BY DEF Requested, Made, Live
<1>4. Offered' \subseteq Offered
    BY DEF Offered, Mark
<1>5. Claims' \subseteq Claims
    BY <1>3, <1>4 DEF Claims
<1>6. \A p \in Claims : p[1] \in 1 .. drafts
    BY DEF GInv, ClaimInv
<1>7. ~d'.pending => \A p \in Claims' : p[1] # d'.id
    <2>1. CASE d' = d
        BY <1>5, <2>1 DEF GInv, ClaimInv
    <2>2. CASE d'.id = 0
        BY <1>5, <1>6, <2>2, Types
    <2> QED
        BY <2>1, <2>2
<1>8. ClaimInv'
    BY <1>5, <1>6, <1>7 DEF GInv, ClaimInv
<1> QED
    BY <1>1, <1>2, <1>8 DEF GInv

LEMMA AnswerKeeps ==
    ASSUME GInv, NEW h \in Handlers, NEW settled \in BOOLEAN, Answer(h, settled),
           drafts' = drafts, call' = call
    PROVE  /\ at' \in Places /\ supply' \in [draft : Drafts, auth : BOOLEAN] /\ DraftInv'
           /\ d' = d \/ (~d'.pending /\ d'.id = 0)
<1>1. CASE at.step = "sending" /\ at.to = h
    <2>1. at' = [step |-> "idle"] /\ call = NoCall
        BY <1>1 DEF Answer, Idle, GInv, DraftInv
    <2>2. supply' \in [draft : Drafts, auth : BOOLEAN] /\ (d' = d \/ d' = NoDraft)
        <3>1. CASE settled
            <4>1. supply' = [[supply EXCEPT !.draft = NoDraft] EXCEPT !.auth = FALSE]
                BY <1>1, <3>1 DEF Answer, WithoutDraft
            <4> QED
                BY <4>1, Types, NoDraftTypes DEF d
        <3>2. CASE ~settled
            BY <1>1, <3>2, Types DEF Answer, d
        <3> QED
            BY <3>1, <3>2
    <2>3. DraftInv'
        BY <2>1, <2>2, Types, NoDraftTypes, IdleTypes DEF GInv, DraftInv
    <2> QED
        BY <2>1, <2>2, <2>3, NoDraftTypes, IdleTypes
<1>2. CASE ~(at.step = "sending" /\ at.to = h)
    <2>1. at' = at /\ supply' = supply
        BY <1>2 DEF Answer
    <2>2. d' = d
        BY <2>1 DEF d
    <2> QED
        BY <2>1, <2>2, Types DEF GInv, DraftInv
<1> QED
    BY <1>1, <1>2

(* The tasks stay as they are, and no handler reads them.                  *)
LEMMA TasksStand ==
    ASSUME GInv, tasks' = tasks,
           \A h \in Handlers : handlers'[h] = handlers[h] \/ handlers'[h] = NoHandler
                               \/ handlers'[h].at = "arrived"
    PROVE  GapInv' /\ DraftCreatesOnce'
<1>1. Unfinished' = Unfinished
    BY DEF Unfinished, Count
<1> QED
    BY <1>1 DEF GInv, GapInv, Live, DraftCreatesOnce

LEMMA EnqueueKeeps ==
    ASSUME GInv, Enqueue
    PROVE  GInv'
<1> USE DEF process, store
<1>1. /\ at.step = "working" /\ d.pending /\ d.rule = at.pin
      /\ UNCHANGED <<tasks, config, rules, ctx, supply, drafts, edits, mishaps,
                     receipts, call, living>>
    BY DEF Enqueue
<1>2. PICK h \in Handlers :
          /\ handlers[h] = NoHandler
          /\ handlers' = [handlers EXCEPT ![h] =
                 [at |-> "arrived", draft |-> d.id, repo |-> d.repo, mark |-> Mark,
                  rule |-> d.rule, fresh |-> FALSE, concurrency |-> 1]]
          /\ at' = [step |-> "sending", to |-> h]
    BY DEF Enqueue
<1> DEFINE request == [at |-> "arrived", draft |-> d.id, repo |-> d.repo, mark |-> Mark,
                       rule |-> d.rule, fresh |-> FALSE, concurrency |-> 1]
<1>3. Mark \in Titles \X BOOLEAN
    BY Types DEF Mark, Titles, Drafts
<1>4. /\ request \in Requests /\ request.at = "arrived"
      /\ request.draft = d.id /\ request.mark = Mark
    BY <1>3, Types DEF Requests, Drafts
<1> HIDE DEF request
<1>5. handlers' = [handlers EXCEPT ![h] = request]
    BY <1>2 DEF request
<1>6. at' \in Places /\ at'.step = "sending"
    BY <1>2 DEF Places
<1>7. call = NoCall /\ d' = d
    BY <1>1 DEF GInv, DraftInv, d
<1>8. DraftInv'
    BY <1>1, <1>6, <1>7 DEF GInv, DraftInv
<1>9. \A k \in Handlers : handlers'[k] = IF k = h THEN request ELSE handlers[k]
    BY <1>5, Types
<1>10. \A k \in Handlers : handlers'[k] # NoHandler =>
           <<handlers'[k].draft, handlers'[k].mark>> \in Claims
    BY <1>1, <1>4, <1>9, Claimed
<1>11. GapInv' /\ DraftCreatesOnce'
    BY <1>1, <1>4, <1>9, TasksStand
<1>12. handlers' \in [Handlers -> Requests \cup {NoHandler}]
    BY <1>4, <1>5, Types
<1>13. tasks' \in Seq(Tasks) /\ Len(tasks') <= MaxTasks
    BY <1>1 DEF GInv, SupplyTypeOK
<1> QED
    BY <1>1, <1>6, <1>7, <1>8, <1>10, <1>11, <1>12, <1>13, Types, Claimed, StoreKeeps

(* A request or its answer is lost, or answered without an insertion.      *)
LEMMA RequestEnds ==
    ASSUME GInv, GiveUp \/ \E h \in Handlers : HandlerAnswers(h)
    PROVE  GInv'
<1> USE DEF process, store
<1>1. /\ UNCHANGED <<tasks, config, rules, ctx, drafts, edits, receipts, call, living>>
      /\ mishaps' \in {mishaps, mishaps + 1}
    BY DEF GiveUp, HandlerAnswers
<1>2. /\ at' \in Places /\ supply' \in [draft : Drafts, auth : BOOLEAN] /\ DraftInv'
      /\ d' = d \/ (~d'.pending /\ d'.id = 0)
    <2>1. CASE GiveUp
        <3>1. at.step = "sending" /\ at' = [step |-> "idle"] /\ supply' = supply
            BY <2>1 DEF GiveUp, Idle
        <3>2. d' = d /\ call' = NoCall
            BY <1>1, <3>1 DEF d, GInv, DraftInv
        <3> QED
            BY <1>1, <3>1, <3>2, Types, IdleTypes DEF GInv, DraftInv
    <2>2. CASE \E h \in Handlers : HandlerAnswers(h)
        <3>1. \E h \in Handlers, settled \in BOOLEAN : Answer(h, settled)
            BY <2>2 DEF HandlerAnswers
        <3> QED
            BY <1>1, <3>1, AnswerKeeps
    <2> QED
        BY <2>1, <2>2
<1>3. /\ handlers' \in [Handlers -> Requests \cup {NoHandler}]
      /\ \A k \in Handlers : handlers'[k] \in {handlers[k], NoHandler}
    BY Types DEF GiveUp, HandlerAnswers
<1>4. \A k \in Handlers : handlers'[k] # NoHandler =>
          <<handlers'[k].draft, handlers'[k].mark>> \in Claims
    BY <1>3, Claimed
<1>5. GapInv' /\ DraftCreatesOnce'
    BY <1>1, <1>3, TasksStand
<1>6. tasks' \in Seq(Tasks) /\ Len(tasks') <= MaxTasks
    BY <1>1 DEF GInv, SupplyTypeOK
<1> QED
    BY <1>1, <1>2, <1>3, <1>4, <1>5, <1>6, Types, Claimed, StoreKeeps

LEMMA UnfinishedIsNat ==
    ASSUME GInv
    PROVE  Unfinished \in Nat
<1> DEFINE S == {n \in DOMAIN tasks : tasks[n].status # "complete"}
<1>1. Unfinished = Cardinality(S)
    BY DEF Unfinished, Count
<1>2. DOMAIN tasks = 1 .. Len(tasks) /\ Len(tasks) \in Nat
    BY Types, LenProperties
<1>3. IsFiniteSet(DOMAIN tasks)
    BY <1>2, FS_Interval
<1>4. IsFiniteSet(S)
    BY <1>3, FS_Subset
<1> QED
    BY <1>1, <1>4, FS_CardinalityType

(* The tasks are read, and leave room for the concurrency of that moment.  *)
LEMMA ReadKeeps ==
    ASSUME GInv, NEW h \in Handlers, HandlerReads(h)
    PROVE  GInv'
<1> USE DEF process, store
<1>1. /\ UNCHANGED <<tasks, config, rules, at, ctx, supply, drafts, edits, mishaps,
                     receipts, call, living>>
      /\ handlers[h].at = "arrived" /\ ~NotNeeded
      /\ handlers' = [handlers EXCEPT ![h].at = "insert", ![h].fresh = TRUE,
                                      ![h].concurrency = config.concurrency]
    BY DEF HandlerReads
<1>2. handlers[h] \in Requests /\ handlers[h] # NoHandler
    BY <1>1, Types DEF NoHandler
<1> DEFINE request == [handlers[h] EXCEPT !.at = "insert", !.fresh = TRUE,
                                          !.concurrency = config.concurrency]
<1>3. config.concurrency \in Nat
    BY DEF GInv, SupplyTypeOK
<1>4. /\ request \in Requests /\ request.concurrency = config.concurrency
      /\ request.draft = handlers[h].draft /\ request.mark = handlers[h].mark
    BY <1>2, <1>3 DEF Requests
<1>5. handlers' = [handlers EXCEPT ![h] = request]
    BY <1>1, Types
<1> HIDE DEF request
<1>6. \A k \in Handlers : handlers'[k] = IF k = h THEN request ELSE handlers[k]
    BY <1>5, Types
<1>7. handlers' \in [Handlers -> Requests \cup {NoHandler}]
    BY <1>4, <1>5, Types
<1>8. \A k \in Handlers : handlers'[k] # NoHandler =>
          <<handlers'[k].draft, handlers'[k].mark>> \in Claims
    BY <1>2, <1>4, <1>6, Claimed
<1>9. GapInv'
    <2>1. Unfinished < ProjectLimit(config.concurrency)
        <3>1. Unfinished \in Int /\ ProjectLimit(config.concurrency) \in Int
            BY <1>3, UnfinishedIsNat DEF ProjectLimit
        <3> QED
            BY <1>1, <3>1 DEF NotNeeded
    <2>2. Unfinished' = Unfinished
        BY <1>1 DEF Unfinished, Count
    <2> QED
        BY <1>4, <1>6, <2>1, <2>2 DEF GInv, GapInv, Live
<1>10. DraftInv' /\ DraftCreatesOnce' /\ d' = d
    BY <1>1 DEF GInv, DraftInv, DraftCreatesOnce, d
<1>11. tasks' \in Seq(Tasks) /\ Len(tasks') <= MaxTasks
    BY <1>1 DEF GInv, SupplyTypeOK
<1> QED
    BY <1>1, <1>7, <1>8, <1>9, <1>10, <1>11, Types, Claimed, StoreKeeps

(* Tasks that changed: no handler has read them as they are.               *)
LEMMA Stales ==
    ASSUME GInv, NEW k \in Handlers
    PROVE  /\ Stale(k) \in Requests \cup {NoHandler}
           /\ Stale(k) # NoHandler =>
                 /\ handlers[k] # NoHandler /\ ~Stale(k).fresh
                 /\ Stale(k).draft = handlers[k].draft /\ Stale(k).mark = handlers[k].mark
<1>1. CASE handlers[k] = NoHandler
    BY <1>1 DEF Stale
<1>2. CASE handlers[k] # NoHandler
    <2>1. handlers[k] \in Requests /\ Stale(k) = [handlers[k] EXCEPT !.fresh = FALSE]
        BY <1>2, Types DEF Stale
    <2> QED
        BY <1>2, <2>1 DEF Requests
<1> QED
    BY <1>1, <1>2

(* The guarded INSERT: nobody else has made a task of this draft, or else  *)
(* it would have had this text.                                            *)
LEMMA InsertKeeps ==
    ASSUME GInv, NEW h \in Handlers, HandlerInserts(h)
    PROVE  GInv'
<1> USE DEF process
<1>1. /\ handlers[h].at = "insert" /\ Answer(h, TRUE)
      /\ UNCHANGED <<config, rules, ctx, drafts, edits, mishaps, receipts, call, living>>
    BY DEF HandlerInserts
<1>2. /\ at' \in Places /\ supply' \in [draft : Drafts, auth : BOOLEAN] /\ DraftInv'
      /\ d' = d \/ (~d'.pending /\ d'.id = 0)
    BY <1>1, AnswerKeeps
<1>3. handlers[h] \in Requests /\ handlers[h] # NoHandler
    BY <1>1, Types DEF NoHandler
<1>4. CASE ~Insertable(handlers[h])
    <2>1. tasks' = tasks /\ handlers' = [handlers EXCEPT ![h] = NoHandler]
        BY <1>4 DEF HandlerInserts
    <2>2. /\ handlers' \in [Handlers -> Requests \cup {NoHandler}]
          /\ \A k \in Handlers : handlers'[k] \in {handlers[k], NoHandler}
        BY <2>1, Types
    <2>3. \A k \in Handlers : handlers'[k] # NoHandler =>
              <<handlers'[k].draft, handlers'[k].mark>> \in Claims
        BY <2>2, Claimed
    <2>4. GapInv' /\ DraftCreatesOnce'
        BY <2>1, <2>2, TasksStand
    <2>5. tasks' \in Seq(Tasks) /\ Len(tasks') <= MaxTasks
        BY <2>1 DEF GInv, SupplyTypeOK
    <2> QED
        BY <1>1, <1>2, <2>1, <2>2, <2>3, <2>4, <2>5, Types, Claimed, StoreKeeps
<1>5. CASE Insertable(handlers[h])
    <2> DEFINE r == handlers[h]
               task == [mark |-> r.mark, draft |-> r.draft, status |-> "queued"]
    <2>1. /\ Len(tasks) < MaxTasks /\ tasks' = Append(tasks, task)
          /\ handlers' = [k \in Handlers |-> IF k = h THEN NoHandler ELSE Stale(k)]
        BY <1>5 DEF HandlerInserts
    <2>2. task \in Tasks /\ task.draft = r.draft /\ task.mark = r.mark
        BY <1>3 DEF Tasks, Requests
    <2>3. <<r.draft, r.mark>> \in Claims
        BY <1>3, Claimed
    <2>4. r.draft > 0
        BY <2>3, Types DEF GInv, ClaimInv
    <2> HIDE DEF task
    <2>5. /\ tasks' \in Seq(Tasks) /\ Len(tasks') = Len(tasks) + 1
          /\ DOMAIN tasks' = 1 .. Len(tasks) + 1 /\ DOMAIN tasks = 1 .. Len(tasks)
          /\ Len(tasks) \in Nat
          /\ \A n \in 1 .. Len(tasks) : tasks'[n] = tasks[n]
          /\ tasks'[Len(tasks) + 1] = task
        BY <2>1, <2>2, Types, AppendProperties, LenProperties
    <2>6. Len(tasks') <= MaxTasks
        BY <2>1, <2>5, SupplyAssumption
    <2>7. \A n \in DOMAIN tasks : tasks[n].draft # r.draft
        <3> SUFFICES ASSUME NEW n \in DOMAIN tasks, tasks[n].draft = r.draft
                     PROVE  FALSE
            OBVIOUS
        <3>1. <<tasks[n].draft, tasks[n].mark>> \in Claims
            BY <2>4, Claimed
        <3>2. tasks[n].mark = r.mark
            BY <2>3, <3>1 DEF GInv, ClaimInv
        <3>3. Created(r)
            BY <2>4, <3>2 DEF Created
        <3> QED
            BY <1>5, <3>3 DEF Insertable
    <2>8. DraftCreatesOnce'
        BY <2>2, <2>5, <2>7 DEF GInv, DraftCreatesOnce
    <2>9. \A k \in Handlers : /\ handlers'[k] \in Requests \cup {NoHandler}
                              /\ handlers'[k] # NoHandler =>
                                    /\ handlers[k] # NoHandler /\ ~handlers'[k].fresh
                                    /\ handlers'[k].draft = handlers[k].draft
                                    /\ handlers'[k].mark = handlers[k].mark
        BY <2>1, Stales
    <2>10. handlers' \in [Handlers -> Requests \cup {NoHandler}]
        BY <2>1, <2>9
    <2>11. GapInv'
        BY <2>9 DEF GapInv, Live
    <2>12. \A k \in Handlers : handlers'[k] # NoHandler =>
              <<handlers'[k].draft, handlers'[k].mark>> \in Claims
        BY <2>9, Claimed
    <2>13. \A n \in DOMAIN tasks' : tasks'[n].draft > 0 =>
              <<tasks'[n].draft, tasks'[n].mark>> \in Claims
        BY <2>2, <2>3, <2>5, Claimed
    <2> QED
        BY <1>1, <1>2, <2>5, <2>6, <2>8, <2>10, <2>11, <2>12, <2>13, Types, StoreKeeps
<1> QED
    BY <1>4, <1>5

(* A person's task, and what becomes of tasks.                             *)
LEMMA OthersKeep ==
    ASSUME GInv, AddManual \/ \E n \in 1 .. MaxTasks : TaskMoves(n)
    PROVE  GInv'
<1> USE DEF process, Others
<1>1. /\ UNCHANGED <<config, rules, at, ctx, supply, drafts, mishaps, receipts, call, living>>
      /\ edits' \in {edits, edits + 1}
      /\ handlers' = [k \in Handlers |-> Stale(k)]
    BY DEF AddManual, TaskMoves, TasksChange
<1>2. /\ Len(tasks) \in Nat /\ DOMAIN tasks = 1 .. Len(tasks) /\ tasks \in Seq(Tasks)
      /\ Len(tasks) <= MaxTasks
    BY Types, LenProperties DEF GInv, SupplyTypeOK
<1>3. /\ tasks' \in Seq(Tasks) /\ Len(tasks') <= MaxTasks
      /\ \A n \in DOMAIN tasks' : tasks'[n].draft > 0 =>
             n \in DOMAIN tasks /\ tasks'[n].draft = tasks[n].draft
             /\ tasks'[n].mark = tasks[n].mark
    <2>1. CASE AddManual
        <3> DEFINE task == [mark |-> <<"manual", FALSE>>, draft |-> 0, status |-> "queued"]
        <3>1. tasks' = Append(tasks, task) /\ Len(tasks) < MaxTasks
            BY <2>1 DEF AddManual, TasksChange
        <3>2. task \in Tasks /\ task.draft = 0
            <4>1. <<"manual", FALSE>> \in Titles \X BOOLEAN
                BY DEF Titles
            <4> QED
                BY <4>1 DEF Tasks
        <3> HIDE DEF task
        <3>3. /\ tasks' \in Seq(Tasks) /\ Len(tasks') = Len(tasks) + 1
              /\ DOMAIN tasks' = 1 .. Len(tasks) + 1
              /\ \A n \in 1 .. Len(tasks) : tasks'[n] = tasks[n]
              /\ tasks'[Len(tasks) + 1] = task
            BY <1>2, <3>1, <3>2, AppendProperties, LenProperties
        <3> QED
            BY <1>2, <3>1, <3>2, <3>3, SupplyAssumption
    <2>2. CASE \E n \in 1 .. MaxTasks : TaskMoves(n)
        <3>1. PICK n \in DOMAIN tasks : \E s \in Moves[tasks[n].status] :
                  tasks' = [tasks EXCEPT ![n].status = s]
            BY <2>2 DEF TaskMoves, TasksChange
        <3>2. PICK s \in Moves[tasks[n].status] : tasks' = [tasks EXCEPT ![n].status = s]
            BY <3>1
        <3>3. tasks[n] \in Tasks
            BY <1>2, ElementOfSeq
        <3>4. s \in {"queued", "going", "complete", "failed"}
            BY <3>3 DEF Moves, Tasks
        <3> DEFINE task == [tasks[n] EXCEPT !.status = s]
        <3>5. task \in Tasks /\ task.draft = tasks[n].draft /\ task.mark = tasks[n].mark
            BY <3>3, <3>4 DEF Tasks
        <3>6. tasks' = [tasks EXCEPT ![n] = task]
            BY <3>2
        <3> HIDE DEF task
        <3>7. tasks' \in Seq(Tasks) /\ Len(tasks') = Len(tasks) /\ DOMAIN tasks' = DOMAIN tasks
            BY <1>2, <3>5, <3>6, ExceptSeq
        <3>8. \A k \in DOMAIN tasks : tasks'[k] = IF k = n THEN task ELSE tasks[k]
            BY <3>6
        <3> QED
            BY <1>2, <3>5, <3>7, <3>8
    <2> QED
        BY <2>1, <2>2
<1>4. \A k \in Handlers : /\ handlers'[k] \in Requests \cup {NoHandler}
                          /\ handlers'[k] # NoHandler =>
                                /\ handlers[k] # NoHandler /\ ~handlers'[k].fresh
                                /\ handlers'[k].draft = handlers[k].draft
                                /\ handlers'[k].mark = handlers[k].mark
    BY <1>1, Stales
<1>5. handlers' \in [Handlers -> Requests \cup {NoHandler}]
    BY <1>1, <1>4
<1>6. GapInv'
    BY <1>4 DEF GapInv, Live
<1>7. DraftCreatesOnce'
    BY <1>3 DEF GInv, DraftCreatesOnce
<1>8. DraftInv' /\ d' = d
    BY <1>1 DEF GInv, DraftInv, d
<1>9. \A k \in Handlers : handlers'[k] # NoHandler =>
          <<handlers'[k].draft, handlers'[k].mark>> \in Claims
    BY <1>4, Claimed
<1>10. \A n \in DOMAIN tasks' : tasks'[n].draft > 0 =>
          <<tasks'[n].draft, tasks'[n].mark>> \in Claims
    BY <1>3, Claimed
<1> QED
    BY <1>1, <1>3, <1>5, <1>6, <1>7, <1>8, <1>9, <1>10, Types, StoreKeeps

-----------------------------------------------------------------------------
(* The invariant is inductive.                                             *)

LEMMA InitInvariant == Init => GInv
<1> SUFFICES ASSUME Init PROVE GInv
    OBVIOUS
<1> USE DEF Init
<1>1. supply \in [draft : Drafts, auth : BOOLEAN] /\ d = NoDraft
    BY NoDraftTypes DEF d
<1>2. ProcessTypeOK /\ ProcInv
    BY DEF ProcessInit, ProcessTypeOK, ProcInv, NoReceipts, NoReceipt, NoProcesses, NoCall
<1>3. tasks \in Seq(Tasks) /\ Len(tasks) = 0 /\ DOMAIN tasks = {}
    OBVIOUS
<1>4. at \in Places /\ at.step # "working"
    BY IdleTypes
<1>5. SupplyTypeOK
    <2>1. config \in [enabled : BOOLEAN, repos : SUBSET Repos, concurrency : Nat]
        OBVIOUS
    <2>2. handlers \in [Handlers -> Requests \cup {NoHandler}]
        OBVIOUS
    <2>3. ctx.size \in 0 .. MaxTasks /\ ctx.repos \subseteq Repos /\ 0 <= MaxTasks
        BY SupplyAssumption DEF NoContext
    <2> QED
        BY <1>1, <1>2, <1>3, <1>4, <2>1, <2>2, <2>3 DEF SupplyTypeOK
<1>6. DraftInv
    BY <1>1, <1>4, NoDraftTypes DEF DraftInv, ProcessInit
<1>7. Live = {}
    BY DEF Live
<1>8. Claims = {}
    BY <1>1, <1>3, <1>7, NoDraftTypes DEF Claims, Requested, Made, Offered
<1> QED
    BY <1>2, <1>3, <1>5, <1>6, <1>7, <1>8 DEF GInv, ClaimInv, GapInv, DraftCreatesOnce

LEMMA StutterKeeps ==
    ASSUME GInv, UNCHANGED vars
    PROVE  GInv'
<1> USE DEF vars, process
<1>1. ProcessTypeOK' /\ ProcInv'
    BY Types DEF ProcessTypeOK, ProcInv
<1>2. SupplyTypeOK'
    BY <1>1 DEF GInv, SupplyTypeOK
<1>3. DraftInv' /\ d' = d
    BY DEF GInv, DraftInv, d
<1> QED
    BY <1>1, <1>2, <1>3, StoreStands, Types

LEMMA StepInvariant == GInv /\ [Next]_vars => GInv'
<1> SUFFICES ASSUME GInv, [Next]_vars PROVE GInv'
    OBVIOUS
<1>1. CASE UNCHANGED vars
    BY <1>1, StutterKeeps
<1>2. CASE ReadContext \/ CredentialsChange \/ SaveConfig \/ NewRules \/ Start \/ Crash
    BY <1>2, ContextSteps
<1>3. CASE RejectUnfit \/ AuditRefuses \/ RulesOutdated \/ EvaluationFails \/ EvaluateRefused
    BY <1>3, EndsWork
<1>4. CASE Replenish
    BY <1>4, ReplenishKeeps
<1>5. CASE Evaluate \/ EvaluatorFails \/ EvaluatorMoves
    BY <1>5, EvaluatorKeeps
<1>6. CASE Generated \/ Worded \/ AuditAccepts \/ AuditAsksWording
    BY <1>6, SavesKeep
<1>7. CASE Enqueue
    BY <1>7, EnqueueKeeps
<1>8. CASE GiveUp \/ \E h \in Handlers : HandlerAnswers(h)
    BY <1>8, RequestEnds
<1>9. CASE \E h \in Handlers : HandlerReads(h)
    BY <1>9, ReadKeeps
<1>10. CASE \E h \in Handlers : HandlerInserts(h)
    BY <1>10, InsertKeeps
<1>11. CASE AddManual \/ \E n \in 1 .. MaxTasks : TaskMoves(n)
    BY <1>11, OthersKeep
<1> QED
    BY <1>1, <1>2, <1>3, <1>4, <1>5, <1>6, <1>7, <1>8, <1>9, <1>10, <1>11
       DEF Next, RunnerStep, HandlerStep

-----------------------------------------------------------------------------
(* The theorems.                                                           *)

(* Drafts, requests, tasks and processes fit together at every step        *)
(* (scripts/supply-worker.mjs, app/api/runner/route.ts).                   *)
THEOREM SupplyInductive == Spec => []GInv
<1>1. Init => GInv
    BY InitInvariant
<1>2. GInv /\ [Next]_vars => GInv'
    BY StepInvariant
<1> QED
    BY <1>1, <1>2, PTL DEF Spec

(* A draft becomes at most one task, however often its request is sent,    *)
(* by whichever runner, and however late the store works on it             *)
(* (app/api/runner/route.ts:360-440).                                      *)
THEOREM CreatedOnce == Spec => []DraftCreatesOnce
<1>1. GInv => DraftCreatesOnce
    BY DEF GInv
<1> QED
    BY <1>1, SupplyInductive, PTL

(* No second process gets a prompt while an earlier one, perhaps of a      *)
(* runner that died, is still at it (codex-process.mjs).                   *)
THEOREM OneProcessAtATime == Spec => []OneProcess
<1>1. GInv => OneProcess
    BY DEF GInv, ProcInv, OneProcess
<1> QED
    BY <1>1, SupplyInductive, PTL

(* At its insertion a task has room in the queue, in the day and among the *)
(* projects, for the concurrency its handler read: the guarded INSERT      *)
(* fails if the tasks changed since (app/api/runner/route.ts:425).         *)
THEOREM InsertedIntoAGap == Spec => FillsGapOnly
<1>1. GInv /\ [Next]_vars =>
        [\A h \in Handlers :
            HandlerInserts(h) /\ tasks' # tasks =>
               /\ config.enabled /\ Queued < Buffer /\ GeneratedToday < DailyLimit
               /\ Unfinished < ProjectLimit(handlers[h].concurrency)]_vars
    <2> SUFFICES ASSUME GInv, NEW h \in Handlers, HandlerInserts(h), tasks' # tasks
                 PROVE  /\ config.enabled /\ Queued < Buffer /\ GeneratedToday < DailyLimit
                        /\ Unfinished < ProjectLimit(handlers[h].concurrency)
        OBVIOUS
    <2>1. handlers[h].at = "insert" /\ Insertable(handlers[h])
        BY DEF HandlerInserts
    <2>2. h \in Live
        BY <2>1 DEF Live, NoHandler
    <2> QED
        BY <2>1, <2>2 DEF GInv, GapInv, Insertable, Unchanged
<1> QED
    BY <1>1, SupplyInductive, PTL DEF Spec, FillsGapOnly

=============================================================================
