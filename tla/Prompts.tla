------------------------------ MODULE Prompts ------------------------------
(***************************************************************************)
(* What a task's Claude sessions promise: the life of the prompts.         *)
(*                                                                         *)
(* A prompt is sent at most once, to a question that is open, and only     *)
(* when every earlier prompt of the question has been answered and its     *)
(* answer recorded.  A question is closed once, all of it, and nothing is  *)
(* sent to it or recorded for it afterwards.                               *)
(*                                                                         *)
(* ClaudeSession implements this module.                                   *)
(***************************************************************************)
EXTENDS Naturals

CONSTANTS LastTurn,  \* the turns of the task are 1 .. LastTurn
          Root       \* the turn that opened the question of a turn

VARIABLES sent,      \* the turns whose prompt was or may have been typed
          recorded,  \* the turns whose answer is kept
          closed     \* the questions whose container is gone for good

Init == sent = {} /\ recorded = {} /\ closed = {}

Send(u) ==
  /\ u \notin sent /\ Root[u] \notin closed
  /\ \A v \in sent : Root[v] = Root[u] => v \in recorded
  /\ sent' = sent \cup {u}
  /\ UNCHANGED <<recorded, closed>>

Record(u) ==
  /\ u \in sent \ recorded /\ Root[u] \notin closed
  /\ recorded' = recorded \cup {u}
  /\ UNCHANGED <<sent, closed>>

Close(q) ==
  /\ q \notin closed
  /\ closed' = closed \cup {q}
  /\ UNCHANGED <<sent, recorded>>

Next == \E u \in 1 .. LastTurn : Send(u) \/ Record(u) \/ Close(Root[u])

Spec == Init /\ [][Next]_<<sent, recorded, closed>>

=============================================================================
