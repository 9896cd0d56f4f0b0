------------------------ MODULE RunnerJournalProofs ------------------------
(***************************************************************************)
(* Proofs about RunnerJournal, for any set of turns, tokens and processes  *)
(* and any number of crashes: a journal is replayed only where the store   *)
(* takes it, no result that was delivered is lost, and no attempt starts   *)
(* over living children.                                                   *)
(***************************************************************************)
EXTENDS RunnerJournal, TLAPS

\* What the store keeps of a turn: one attempt or one parked one, and no ended
\* attempt runs.  No runner of this module hands an observer over.
LeaseInv(u) ==
  /\ lease[u].running = NoToken \/ lease[u].parked = NoToken
  /\ {lease[u].running, lease[u].parked, lease[u].completed} \subseteq issued \cup {NoToken}
  /\ lease[u].completed = NoToken \/ lease[u].completed # lease[u].running
  /\ lease[u].handedOff = NoToken

StoreInv == \A u \in TurnRef : LeaseInv(u)

\* An executing job's attempt runs at the store and has left no result; one that
\* reports an attempt still running there has written the result last.
JobInv(j) ==
  /\ j.token \in issued
  /\ j.step = "execute" => /\ lease[j.turn].running = j.token
                           /\ j.token \notin {receipt[j.turn], delivered[j.turn]}
  /\ j.step = "report" /\ lease[j.turn].running = j.token => receipt[j.turn] = j.token

JobsInv ==
  /\ \A j \in jobs : JobInv(j)
  /\ \A i, j \in jobs : i.token = j.token => i = j
  /\ phase # "up" => jobs = {}

\* The files name attempts that began; a result not marked delivered is of an
\* attempt that runs or that the store has accepted.
FilesInv ==
  \A u \in TurnRef :
    /\ {journal[u], receipt[u], delivered[u]} \subseteq issued \cup {NoToken}
    /\ receipt[u] # NoToken /\ delivered[u] # receipt[u]
         => receipt[u] \in {lease[u].running, lease[u].completed}

\* Living children are of the attempt that runs or is parked, never of one
\* that has left a result.
ChildrenInv ==
  \A u \in TurnRef :
    /\ children[u] \subseteq {lease[u].running, lease[u].parked}
    /\ receipt[u] \notin children[u]

\* Results are delivered before journals are recovered.  A journal passed over
\* in this iteration is of a parked attempt, and nothing runs at a turn whose
\* journal is still open once the runner is up.
OrphansInv ==
  /\ phase \in {"down", "replay"} => orphans = {}
  /\ phase = "recover" => Undelivered = {}
  /\ \A u \in orphans : journal[u] # NoToken
  /\ \A u \in orphans \ pass : lease[u].parked = journal[u]
  /\ phase = "up" => \A u \in orphans : lease[u].running = NoToken

\* The files of a turn that is attempted once are all of that attempt.
OnceInv ==
  \A u \in AttemptedOnce :
    /\ \A j \in jobs : j.turn = u => j.token = journal[u]
    /\ receipt[u] \in {NoToken, journal[u]}
    /\ receipt[u] # NoToken /\ delivered[u] = receipt[u] => lease[u].running # receipt[u]

RInv ==
  /\ RunnerTypeOK
  /\ StoreInv /\ JobsInv /\ FilesInv /\ ChildrenInv /\ OrphansInv /\ OnceInv

-----------------------------------------------------------------------------
(* The store's steps, turn by turn. *)

LEMMA TokenFacts == NoToken \notin Tokens /\ NoToken \in MaybeToken /\ Tokens \subseteq MaybeToken
BY AttemptsAssumption DEF MaybeToken

LEMMA BeginTurns ==
  ASSUME RInv, NEW u \in TurnRef, NEW k \in Tokens, Begin(u, k)
  PROVE  /\ lease' \in [TurnRef -> Lease] /\ issued' = issued \cup {k}
         /\ k \notin issued
         /\ lease[u].running = NoToken /\ lease[u].parked = NoToken
         /\ lease'[u].running = k /\ lease'[u].parked = NoToken
         /\ lease'[u].completed = lease[u].completed
         /\ lease'[u].handedOff = lease[u].handedOff
         /\ \A v \in TurnRef \ {u} : lease'[v] = lease[v]
         /\ StoreInv'
<1>1. lease \in [TurnRef -> Lease]
  BY DEF RInv, RunnerTypeOK
<1>2. /\ k \notin issued /\ lease[u].running = NoToken /\ lease[u].parked = NoToken
      /\ lease' = [lease EXCEPT ![u].running = k] /\ issued' = issued \cup {k}
  BY DEF Begin, TaskIdle
<1>3. lease[u] \in Lease
  BY <1>1
<1>4. /\ lease'[u] \in Lease
      /\ lease'[u].running = k /\ lease'[u].parked = lease[u].parked
      /\ lease'[u].completed = lease[u].completed
      /\ lease'[u].handedOff = lease[u].handedOff
  BY <1>1, <1>2, <1>3, TokenFacts DEF Lease
<1>5. \A v \in TurnRef \ {u} : lease'[v] = lease[v]
  BY <1>1, <1>2
<1>6. lease' \in [TurnRef -> Lease]
  BY <1>1, <1>2, <1>4, <1>5
<1>7. StoreInv'
  <2> SUFFICES ASSUME NEW v \in TurnRef PROVE LeaseInv(v)'
    BY DEF StoreInv
  <2>1. LeaseInv(v)
    BY DEF RInv, StoreInv
  <2> QED
    BY <1>2, <1>4, <1>5, <2>1 DEF LeaseInv
<1> QED
  BY <1>2, <1>4, <1>5, <1>6, <1>7

\* A report the store answers ends the attempt, or had ended it before.
LEMMA FinishTurns ==
  ASSUME RInv, NEW u \in TurnRef, NEW k \in Tokens, FinishAccepted(u, k)
  PROVE  /\ lease' \in [TurnRef -> Lease] /\ issued' = issued
         /\ lease'[u].parked = lease[u].parked
         /\ \/ lease'[u].running = lease[u].running /\ lease'[u].completed = lease[u].completed
            \/ /\ lease[u].running = k
               /\ lease'[u].running = NoToken /\ lease'[u].completed = k
         /\ lease'[u].running # k
         /\ \A v \in TurnRef \ {u} : lease'[v] = lease[v]
         /\ StoreInv'
<1>1. lease \in [TurnRef -> Lease]
  BY DEF RInv, RunnerTypeOK
<1>2. \A v \in TurnRef : LeaseInv(v)
  BY DEF RInv, StoreInv
<1>3. CASE UNCHANGED store
  <2>1. Completed(u, k)
    <3>1. ~Finish(u, k)
      <4> SUFFICES ASSUME Finish(u, k) PROVE FALSE
        OBVIOUS
      <4>1. lease[u].running = k /\ lease'[u].running = NoToken
        BY <1>1 DEF Finish, Lease
      <4> QED
        BY <1>3, <4>1, TokenFacts DEF store
    <3>2. ~Superseded(u, k)
      BY <1>2, TokenFacts DEF LeaseInv, Superseded
    <3> QED
      BY <3>1, <3>2 DEF FinishAccepted
  <2>2. lease[u].running # k
    BY <1>2, <2>1, TokenFacts DEF LeaseInv, Completed
  <2> QED
    BY <1>1, <1>2, <1>3, <2>2 DEF store, StoreInv, LeaseInv
<1>4. CASE Finish(u, k)
  <2>1. /\ lease[u].running = k /\ issued' = issued
        /\ lease' = [lease EXCEPT ![u] = [@ EXCEPT !.running = NoToken, !.completed = k]]
    BY <1>4 DEF Finish
  <2> DEFINE l == [lease[u] EXCEPT !.running = NoToken, !.completed = k]
  <2>2. lease[u] \in Lease
    BY <1>1
  <2>3. /\ l \in Lease /\ l.running = NoToken /\ l.completed = k
        /\ l.parked = lease[u].parked /\ l.handedOff = lease[u].handedOff
    BY <2>2, TokenFacts DEF Lease
  <2>4. lease' = [lease EXCEPT ![u] = l]
    BY <2>1
  <2> HIDE DEF l
  <2>5. lease'[u] = l /\ \A v \in TurnRef \ {u} : lease'[v] = lease[v]
    BY <1>1, <2>4
  <2>6. lease' \in [TurnRef -> Lease]
    BY <1>1, <2>3, <2>4
  <2>7. StoreInv'
    <3> SUFFICES ASSUME NEW v \in TurnRef PROVE LeaseInv(v)'
      BY DEF StoreInv
    <3>1. LeaseInv(v)
      BY <1>2
    <3> QED
      BY <2>1, <2>3, <2>5, <3>1, TokenFacts DEF LeaseInv
  <2> QED
    BY <2>1, <2>3, <2>5, <2>6, <2>7, TokenFacts
<1> QED
  BY <1>3, <1>4 DEF FinishAccepted

\* A recovery ends the attempt and parks it while its children live, or finds
\* nothing to end.
LEMMA RecoverTurns ==
  ASSUME RInv, NEW u \in TurnRef, NEW k \in Tokens, NEW live \in BOOLEAN,
         RecoverAnswered(u, k, live)
  PROVE  /\ lease' \in [TurnRef -> Lease] /\ issued' = issued
         /\ Settled(u, k) => lease' = lease
         /\ ~Settled(u, k) => /\ k \in {lease[u].running, lease[u].parked}
                              /\ lease'[u].running = NoToken
                              /\ lease'[u].parked = IF live THEN k ELSE NoToken
                              /\ lease'[u].completed = lease[u].completed
         /\ \A v \in TurnRef \ {u} : lease'[v] = lease[v]
         /\ StoreInv'
<1>1. lease \in [TurnRef -> Lease]
  BY DEF RInv, RunnerTypeOK
<1>2. \A v \in TurnRef : LeaseInv(v)
  BY DEF RInv, StoreInv
<1>3. CASE Settled(u, k)
  <2>1. UNCHANGED store
    BY <1>3 DEF RecoverAnswered
  <2> QED
    BY <1>1, <1>2, <1>3, <2>1 DEF store, StoreInv, LeaseInv
<1>4. CASE ~Settled(u, k)
  <2> DEFINE parked == IF live THEN k ELSE NoToken
             l == [lease[u] EXCEPT !.running = NoToken, !.parked = parked]
  <2>1. /\ k \in {lease[u].running, lease[u].parked} /\ issued' = issued
        /\ lease' = [lease EXCEPT ![u] = l]
    BY <1>4 DEF RecoverAnswered, Recover, Owns
  <2>2. lease[u] \in Lease
    BY <1>1
  <2>3. parked \in {k, NoToken}
    OBVIOUS
  <2> HIDE DEF parked
  <2>4. /\ l \in Lease /\ l.running = NoToken /\ l.parked = parked
        /\ l.completed = lease[u].completed /\ l.handedOff = lease[u].handedOff
    BY <2>2, <2>3, TokenFacts DEF Lease
  <2> HIDE DEF l
  <2>5. lease'[u] = l /\ \A v \in TurnRef \ {u} : lease'[v] = lease[v]
    BY <1>1, <2>1
  <2>6. lease' \in [TurnRef -> Lease]
    BY <1>1, <2>1, <2>4
  <2>7. StoreInv'
    <3> SUFFICES ASSUME NEW v \in TurnRef PROVE LeaseInv(v)'
      BY DEF StoreInv
    <3>1. LeaseInv(v) /\ LeaseInv(u)
      BY <1>2
    <3> QED
      BY <2>1, <2>3, <2>4, <2>5, <3>1, TokenFacts DEF LeaseInv
  <2> QED
    BY <1>4, <2>1, <2>4, <2>5, <2>6, <2>7 DEF parked
<1> QED
  BY <1>3, <1>4

-----------------------------------------------------------------------------
(* The actions *)

LEMMA Types ==
  ASSUME RInv
  PROVE  /\ lease \in [TurnRef -> Lease] /\ issued \subseteq Tokens
         /\ jobs \subseteq Job /\ active \in [Tasks -> MaybeToken]
         /\ pass \subseteq orphans /\ orphans \subseteq TurnRef
         /\ journal \in [TurnRef -> MaybeToken] /\ done \in [TurnRef -> BOOLEAN]
         /\ receipt \in [TurnRef -> MaybeToken] /\ delivered \in [TurnRef -> MaybeToken]
         /\ children \in [TurnRef -> SUBSET Tokens]
         /\ faults \in 0 .. MaxFaults
BY DEF RInv, RunnerTypeOK

LEMMA FaultType == RInv /\ Fault => faults' \in 0 .. MaxFaults
BY Types, RunnerAssumption DEF Fault

\* No turn with an open journal is claimed: it was passed over, so it is parked.
LEMMA NoOrphanClaimed ==
  ASSUME RInv, NEW u \in TurnRef, NEW k \in Tokens, MayClaim(u), Begin(u, k)
  PROVE  u \notin orphans
<1>1. lease[u].parked = NoToken
  BY BeginTurns
<1> QED
  BY <1>1 DEF MayClaim, RInv, OrphansInv

LEMMA ClaimKeeps ==
  ASSUME RInv, NEW u \in TurnRef, NEW k \in Tokens, Claim(u, k)
  PROVE  RInv'
<1> DEFINE new == [turn |-> u, token |-> k, step |-> "execute"]
<1>1. /\ MayClaim(u) /\ Begin(u, k) /\ phase = "up" /\ pass = {}
      /\ journal' = [journal EXCEPT ![u] = k]
      /\ jobs' = jobs \cup {new}
      /\ active' = [active EXCEPT ![u[1]] = k]
      /\ UNCHANGED <<phase, orphans, pass, done, receipt, delivered, children, faults>>
  BY DEF Claim, MayClaim
<1>2. /\ lease' \in [TurnRef -> Lease] /\ issued' = issued \cup {k}
      /\ k \notin issued
      /\ lease[u].running = NoToken /\ lease[u].parked = NoToken
      /\ lease'[u].running = k /\ lease'[u].parked = NoToken
      /\ lease'[u].completed = lease[u].completed
      /\ \A v \in TurnRef \ {u} : lease'[v] = lease[v]
      /\ StoreInv'
  BY <1>1, BeginTurns
<1>3. new \in Job /\ new.turn = u /\ new.token = k /\ new.step = "execute"
  BY DEF Job
<1> HIDE DEF new
<1>4. /\ journal'[u] = k /\ \A v \in TurnRef \ {u} : journal'[v] = journal[v]
  BY <1>1, Types
<1>5. u \notin orphans
  BY <1>1, NoOrphanClaimed
<1>6. RunnerTypeOK'
  <2>1. journal' \in [TurnRef -> MaybeToken] /\ active' \in [Tasks -> MaybeToken]
    BY <1>1, Types, TokenFacts
  <2>2. jobs' \subseteq Job /\ issued' \subseteq Tokens
    BY <1>1, <1>2, <1>3, Types
  <2> QED
    BY <1>1, <1>2, <2>1, <2>2 DEF RInv, RunnerTypeOK
<1>7. JobsInv'
  <2>1. \A j \in jobs' : JobInv(j)'
    <3> SUFFICES ASSUME NEW j \in jobs' PROVE JobInv(j)'
      OBVIOUS
    <3>1. CASE j \in jobs
      <4>1. JobInv(j) /\ j.turn \in TurnRef /\ j.token \in Tokens
        BY <3>1, Types DEF RInv, JobsInv, Job
      <4> QED
        BY <1>1, <1>2, <4>1, TokenFacts DEF JobInv
    <3>2. CASE j = new
      <4>1. {receipt[u], delivered[u]} \subseteq issued \cup {NoToken}
        BY DEF RInv, FilesInv
      <4> QED
        BY <1>1, <1>2, <1>3, <3>2, <4>1, TokenFacts DEF JobInv
    <3> QED
      BY <1>1, <3>1, <3>2
  <2>2. \A i, j \in jobs' : i.token = j.token => i = j
    BY <1>1, <1>2, <1>3 DEF RInv, JobsInv, JobInv
  <2> QED
    BY <1>1, <2>1, <2>2 DEF JobsInv
<1>8. FilesInv'
  <2> SUFFICES ASSUME NEW v \in TurnRef
               PROVE  /\ {journal'[v], receipt[v], delivered[v]} \subseteq issued' \cup {NoToken}
                      /\ receipt[v] # NoToken /\ delivered[v] # receipt[v]
                           => receipt[v] \in {lease'[v].running, lease'[v].completed}
    BY <1>1 DEF FilesInv
  <2>1. /\ {journal[v], receipt[v], delivered[v]} \subseteq issued \cup {NoToken}
        /\ receipt[v] # NoToken /\ delivered[v] # receipt[v]
             => receipt[v] \in {lease[v].running, lease[v].completed}
    BY DEF RInv, FilesInv
  <2> QED
    BY <1>2, <1>4, <2>1
<1>9. ChildrenInv'
  <2>1. \A v \in TurnRef : children[v] \subseteq {lease'[v].running, lease'[v].parked}
    BY <1>2, Types, TokenFacts DEF RInv, ChildrenInv
  <2> QED
    BY <1>1, <2>1 DEF RInv, ChildrenInv
<1>10. OrphansInv'
  BY <1>1, <1>2, <1>4, <1>5, Types DEF RInv, OrphansInv, Undelivered
<1>11. OnceInv'
  <2> SUFFICES ASSUME NEW v \in AttemptedOnce
               PROVE  /\ \A j \in jobs' : j.turn = v => j.token = journal'[v]
                      /\ receipt[v] \in {NoToken, journal'[v]}
                      /\ receipt[v] # NoToken /\ delivered[v] = receipt[v]
                           => lease'[v].running # receipt[v]
    BY <1>1 DEF OnceInv, AttemptedOnce
  <2>1. /\ \A j \in jobs : j.turn = v => j.token = journal[v]
        /\ receipt[v] \in {NoToken, journal[v]}
        /\ receipt[v] # NoToken /\ delivered[v] = receipt[v]
             => lease[v].running # receipt[v]
        /\ v \in TurnRef
    BY DEF RInv, OnceInv, AttemptedOnce
  <2>2. CASE v # u
    BY <1>1, <1>2, <1>3, <1>4, <2>1, <2>2
  <2>3. CASE v = u
    <3>1. journal[u] = NoToken
      <4>1. journal[u] \in issued \cup {NoToken}
        BY DEF RInv, FilesInv
      <4> QED
        BY <1>1, <2>3, <4>1 DEF MayClaim, AttemptedOnce
    <3>2. \A j \in jobs : j.turn # u
      BY <2>1, <2>3, <3>1, Types, TokenFacts DEF Job
    <3> QED
      BY <1>1, <1>3, <1>4, <2>1, <2>3, <3>1, <3>2
  <2> QED
    BY <2>2, <2>3
<1> QED
  BY <1>2, <1>6, <1>7, <1>8, <1>9, <1>10, <1>11 DEF RInv

LEMMA ClaimLostKeeps ==
  ASSUME RInv, NEW u \in TurnRef, NEW k \in Tokens, ClaimLost(u, k)
  PROVE  RInv'
<1>1. /\ MayClaim(u) /\ Begin(u, k) /\ phase = "up" /\ pass = {} /\ Fault
      /\ pass' = orphans
      /\ UNCHANGED <<phase, jobs, active, orphans, journal, done, receipt, delivered, children>>
  BY DEF ClaimLost, MayClaim, files
<1>2. /\ lease' \in [TurnRef -> Lease] /\ issued' = issued \cup {k}
      /\ k \notin issued
      /\ lease[u].running = NoToken /\ lease[u].parked = NoToken
      /\ lease'[u].running = k /\ lease'[u].parked = NoToken
      /\ lease'[u].completed = lease[u].completed
      /\ \A v \in TurnRef \ {u} : lease'[v] = lease[v]
      /\ StoreInv'
  BY <1>1, BeginTurns
<1>3. u \notin orphans
  BY <1>1, NoOrphanClaimed
<1>4. RunnerTypeOK'
  BY <1>1, <1>2, FaultType DEF RInv, RunnerTypeOK
<1>5. JobsInv'
  <2>1. \A j \in jobs : JobInv(j)'
    <3> SUFFICES ASSUME NEW j \in jobs PROVE JobInv(j)'
      OBVIOUS
    <3>1. JobInv(j) /\ j.turn \in TurnRef /\ j.token \in Tokens
      BY Types DEF RInv, JobsInv, Job
    <3> QED
      BY <1>1, <1>2, <3>1, TokenFacts DEF JobInv
  <2> QED
    BY <1>1, <2>1 DEF RInv, JobsInv
<1>6. FilesInv'
  <2> SUFFICES ASSUME NEW v \in TurnRef
               PROVE  /\ {journal[v], receipt[v], delivered[v]} \subseteq issued' \cup {NoToken}
                      /\ receipt[v] # NoToken /\ delivered[v] # receipt[v]
                           => receipt[v] \in {lease'[v].running, lease'[v].completed}
    BY <1>1 DEF FilesInv
  <2>1. /\ {journal[v], receipt[v], delivered[v]} \subseteq issued \cup {NoToken}
        /\ receipt[v] # NoToken /\ delivered[v] # receipt[v]
             => receipt[v] \in {lease[v].running, lease[v].completed}
    BY DEF RInv, FilesInv
  <2> QED
    BY <1>2, <2>1
<1>7. ChildrenInv'
  <2>1. \A v \in TurnRef : children[v] \subseteq {lease'[v].running, lease'[v].parked}
    BY <1>2, Types, TokenFacts DEF RInv, ChildrenInv
  <2> QED
    BY <1>1, <2>1 DEF RInv, ChildrenInv
<1>8. OrphansInv'
  BY <1>1, <1>2, <1>3, Types DEF RInv, OrphansInv, Undelivered
<1>9. OnceInv'
  <2> SUFFICES ASSUME NEW v \in AttemptedOnce
               PROVE  receipt[v] # NoToken /\ delivered[v] = receipt[v]
                        => lease'[v].running # receipt[v]
    BY <1>1 DEF RInv, OnceInv, AttemptedOnce
  <2>1. /\ receipt[v] # NoToken /\ delivered[v] = receipt[v]
             => lease[v].running # receipt[v]
        /\ v \in TurnRef /\ receipt[v] \in issued \cup {NoToken}
    BY DEF RInv, OnceInv, AttemptedOnce, FilesInv
  <2> QED
    BY <1>2, <2>1
<1> QED
  BY <1>2, <1>4, <1>5, <1>6, <1>7, <1>8, <1>9 DEF RInv

\* Children come and go while the store and the files stay as they are.
LEMMA ChildrenKeep ==
  ASSUME RInv, NEW j \in jobs, NEW u \in TurnRef, NEW k \in Tokens,
         SpawnChild(j) \/ ChildExits(u, k)
  PROVE  RInv'
<1>1. UNCHANGED <<store, phase, memory, files, faults>>
  BY DEF SpawnChild, ChildExits
<1>2. /\ children' \in [TurnRef -> SUBSET Tokens]
      /\ \A v \in TurnRef :
           /\ children'[v] \subseteq {lease[v].running, lease[v].parked}
           /\ receipt[v] \notin children'[v]
  <2>1. CASE SpawnChild(j)
    <3>1. /\ j.turn \in TurnRef /\ j.token \in Tokens /\ JobInv(j) /\ j.step = "execute"
          /\ children' = [children EXCEPT ![j.turn] = @ \cup {j.token}]
      BY <2>1, Types DEF SpawnChild, JobAt, RInv, JobsInv, Job
    <3> QED
      BY <3>1, Types DEF RInv, ChildrenInv, JobInv
  <2>2. CASE ChildExits(u, k)
    <3>1. children' = [children EXCEPT ![u] = @ \ {k}]
      BY <2>2 DEF ChildExits
    <3> QED
      BY <3>1, Types DEF RInv, ChildrenInv
  <2> QED
    BY <2>1, <2>2
<1>3. RunnerTypeOK'
  BY <1>1, <1>2 DEF RInv, RunnerTypeOK, store, memory, files
<1>4. StoreInv' /\ JobsInv' /\ FilesInv' /\ OrphansInv' /\ OnceInv'
  BY <1>1 DEF RInv, StoreInv, LeaseInv, JobsInv, JobInv, FilesInv, OrphansInv, Undelivered,
              OnceInv, AttemptedOnce, store, memory, files
<1>5. ChildrenInv'
  BY <1>1, <1>2 DEF ChildrenInv, store, files
<1> QED
  BY <1>3, <1>4, <1>5 DEF RInv

\* A job goes on to its next step: the same attempt at the same turn.
LEMMA Advances ==
  ASSUME RInv, NEW j \in jobs, NEW step \in {"execute", "report", "settle"},
         Advance(j, step)
  PROVE  \E next \in Job :
           /\ next.turn = j.turn /\ next.token = j.token /\ next.step = step
           /\ jobs' = (jobs \ {j}) \cup {next}
           /\ jobs' \subseteq Job
           /\ \A a, b \in jobs' : a.token = b.token => a = b
<1> DEFINE next == [j EXCEPT !.step = step]
<1>1. j \in Job /\ jobs \subseteq Job /\ \A a, b \in jobs : a.token = b.token => a = b
  BY Types DEF RInv, JobsInv
<1>2. jobs' = (jobs \ {j}) \cup {next}
  BY DEF Advance
<1>3. next \in Job /\ next.turn = j.turn /\ next.token = j.token /\ next.step = step
  BY <1>1 DEF Job
<1> HIDE DEF next
<1>4. \A a, b \in jobs' : a.token = b.token => a = b
  BY <1>1, <1>2, <1>3
<1>5. jobs' \subseteq Job
  BY <1>1, <1>2, <1>3
<1> QED
  BY <1>2, <1>3, <1>4, <1>5

LEMMA ExecuteKeeps ==
  ASSUME RInv, NEW j \in jobs, Execute(j)
  PROVE  RInv'
<1> DEFINE u == j.turn
           k == j.token
<1>1. /\ j.step = "execute" /\ k \notin children[u]
      /\ receipt' = [receipt EXCEPT ![u] = k]
      /\ Advance(j, "report")
      /\ UNCHANGED <<store, phase, active, orphans, pass, journal, done, delivered,
                     children, faults>>
  BY DEF Execute, JobAt
<1>2. PICK next \in Job :
        /\ next.turn = u /\ next.token = k /\ next.step = "report"
        /\ jobs' = (jobs \ {j}) \cup {next}
        /\ jobs' \subseteq Job
        /\ \A a, b \in jobs' : a.token = b.token => a = b
  BY <1>1, Advances
<1>3. /\ u \in TurnRef /\ k \in Tokens /\ phase = "up" /\ k \in issued
      /\ lease[u].running = k /\ k \notin {receipt[u], delivered[u]}
  BY <1>1, Types DEF Job, RInv, JobsInv, JobInv
<1> HIDE DEF u, k
<1>4. receipt'[u] = k /\ \A v \in TurnRef \ {u} : receipt'[v] = receipt[v]
  BY <1>1, <1>3, Types
<1>5. RunnerTypeOK'
  <2>1. receipt' \in [TurnRef -> MaybeToken]
    BY <1>1, <1>3, Types, TokenFacts
  <2> QED
    BY <1>1, <1>2, <2>1 DEF RInv, RunnerTypeOK, store
<1>6. StoreInv'
  BY <1>1 DEF RInv, StoreInv, LeaseInv, store
<1>7. JobsInv'
  <2>1. \A i \in jobs' : JobInv(i)'
    <3> SUFFICES ASSUME NEW i \in jobs' PROVE JobInv(i)'
      OBVIOUS
    <3>1. CASE i = next
      BY <1>1, <1>2, <1>3, <1>4, <3>1 DEF JobInv, store
    <3>2. CASE i \in jobs /\ i # j
      <4>1. /\ JobInv(i) /\ i.turn \in TurnRef /\ i.token # k
        BY <3>2, Types DEF RInv, JobsInv, Job, k
      <4>2. i.turn = u => lease[u].running # i.token
        BY <1>3, <4>1
      <4> QED
        BY <1>1, <1>4, <4>1, <4>2 DEF JobInv, store
    <3> QED
      BY <1>2, <3>1, <3>2
  <2> QED
    BY <1>1, <1>2, <1>3, <2>1 DEF JobsInv
<1>8. FilesInv'
  <2> SUFFICES ASSUME NEW v \in TurnRef
               PROVE  /\ {journal[v], receipt'[v], delivered[v]} \subseteq issued \cup {NoToken}
                      /\ receipt'[v] # NoToken /\ delivered[v] # receipt'[v]
                           => receipt'[v] \in {lease[v].running, lease[v].completed}
    BY <1>1 DEF FilesInv, store
  <2> QED
    BY <1>3, <1>4 DEF RInv, FilesInv
<1>9. ChildrenInv'
  BY <1>1, <1>4 DEF RInv, ChildrenInv, store
<1>10. OrphansInv'
  BY <1>1, <1>3 DEF RInv, OrphansInv, store
<1>11. OnceInv'
  <2> SUFFICES ASSUME NEW v \in AttemptedOnce
               PROVE  /\ \A i \in jobs' : i.turn = v => i.token = journal[v]
                      /\ receipt'[v] \in {NoToken, journal[v]}
                      /\ receipt'[v] # NoToken /\ delivered[v] = receipt'[v]
                           => lease[v].running # receipt'[v]
    BY <1>1 DEF OnceInv, AttemptedOnce, store
  <2>1. /\ \A i \in jobs : i.turn = v => i.token = journal[v]
        /\ receipt[v] \in {NoToken, journal[v]}
        /\ receipt[v] # NoToken /\ delivered[v] = receipt[v]
             => lease[v].running # receipt[v]
        /\ v \in TurnRef
    BY DEF RInv, OnceInv, AttemptedOnce
  <2>2. \A i \in jobs' : i.turn = v => i.token = journal[v]
    BY <1>2, <2>1 DEF u, k
  <2>3. u = v => k = journal[v]
    BY <2>1 DEF u, k
  <2> QED
    BY <1>3, <1>4, <2>1, <2>2, <2>3
<1> QED
  BY <1>5, <1>6, <1>7, <1>8, <1>9, <1>10, <1>11 DEF RInv

\* What becomes of jobs, children and files when the store accepts the report of
\* an attempt whose result was written last, if it runs.
LEMMA AcceptedTurn ==
  ASSUME RInv, NEW u \in TurnRef, NEW k \in Tokens, FinishAccepted(u, k),
         lease[u].running = k => receipt[u] = k,
         \A i \in jobs : i.step = "execute" => i.token # k
  PROVE  /\ \A i \in jobs : JobInv(i) /\ receipt[i.turn]' = receipt[i.turn]
                              /\ (i.step = "execute" => delivered'[i.turn] # i.token)
                              => JobInv(i)'
         /\ \A v \in TurnRef : children[v] \subseteq {lease'[v].running, lease'[v].parked}
         /\ \A v \in TurnRef : receipt[v] \in {lease[v].running, lease[v].completed}
                                 => receipt[v] \in {lease'[v].running, lease'[v].completed, NoToken}
         /\ \A v \in orphans : phase = "up" => lease'[v].running = NoToken
         /\ \A v \in TurnRef : lease'[v].parked = lease[v].parked
         /\ \A v \in TurnRef : lease'[v].running \in {lease[v].running, NoToken}
<1>1. /\ lease'[u].parked = lease[u].parked /\ issued' = issued
      /\ \/ lease'[u].running = lease[u].running /\ lease'[u].completed = lease[u].completed
         \/ /\ lease[u].running = k
            /\ lease'[u].running = NoToken /\ lease'[u].completed = k
      /\ \A v \in TurnRef \ {u} : lease'[v] = lease[v]
  BY FinishTurns
<1>2. \A i \in jobs : JobInv(i) /\ receipt[i.turn]' = receipt[i.turn]
                        /\ (i.step = "execute" => delivered'[i.turn] # i.token)
                        => JobInv(i)'
  <2> SUFFICES ASSUME NEW i \in jobs, JobInv(i), receipt[i.turn]' = receipt[i.turn],
                      i.step = "execute" => delivered'[i.turn] # i.token
               PROVE  JobInv(i)'
    OBVIOUS
  <2>1. i.turn \in TurnRef /\ i.token \in Tokens
    BY Types DEF Job
  <2>2. lease'[i.turn].running \in {lease[i.turn].running, NoToken}
    BY <1>1, <2>1
  <2>3. i.step = "execute" => lease'[i.turn].running = i.token
    BY <1>1, <2>1 DEF JobInv
  <2> QED
    BY <1>1, <2>1, <2>2, <2>3, TokenFacts DEF JobInv
<1>3. \A v \in TurnRef : children[v] \subseteq {lease'[v].running, lease'[v].parked}
  <2> SUFFICES ASSUME NEW v \in TurnRef, NEW c \in children[v]
               PROVE  c \in {lease'[v].running, lease'[v].parked}
    OBVIOUS
  <2>1. c \in {lease[v].running, lease[v].parked} /\ c # receipt[v]
    BY DEF RInv, ChildrenInv
  <2> QED
    BY <1>1, <2>1
<1>4. \A v \in TurnRef : receipt[v] \in {lease[v].running, lease[v].completed}
                           => receipt[v] \in {lease'[v].running, lease'[v].completed, NoToken}
  <2> SUFFICES ASSUME NEW v \in TurnRef, receipt[v] \in {lease[v].running, lease[v].completed}
               PROVE  receipt[v] \in {lease'[v].running, lease'[v].completed, NoToken}
    OBVIOUS
  <2>1. CASE v # u
    BY <1>1, <2>1
  <2>2. CASE v = u
    BY <1>1, <2>2
  <2> QED
    BY <2>1, <2>2
<1>5. \A v \in orphans : phase = "up" => lease'[v].running = NoToken
  BY <1>1, Types DEF RInv, OrphansInv
<1>6. \A v \in TurnRef : /\ lease'[v].parked = lease[v].parked
                         /\ lease'[v].running \in {lease[v].running, NoToken}
  BY <1>1
<1> QED
  BY <1>2, <1>3, <1>4, <1>5, <1>6

\* A job that reports has written its result last, if its attempt still runs.
LEMMA ReportingJob ==
  ASSUME RInv, NEW j \in jobs, j.step = "report"
  PROVE  /\ j.turn \in TurnRef /\ j.token \in Tokens /\ phase = "up"
         /\ lease[j.turn].running = j.token => receipt[j.turn] = j.token
         /\ \A i \in jobs : i.step = "execute" => i.token # j.token
BY Types DEF Job, RInv, JobsInv, JobInv

LEMMA ReportKeeps ==
  ASSUME RInv, NEW j \in jobs, Report(j)
  PROVE  RInv'
<1> DEFINE u == j.turn
           k == j.token
<1>1. /\ j.step = "report" /\ FinishAccepted(u, k)
      /\ delivered' = [delivered EXCEPT ![u] = receipt[u]]
      /\ Advance(j, "settle")
      /\ UNCHANGED <<phase, active, orphans, pass, journal, done, receipt, children, faults>>
  BY DEF Report, JobAt
<1>2. PICK next \in Job :
        /\ next.turn = u /\ next.token = k /\ next.step = "settle"
        /\ jobs' = (jobs \ {j}) \cup {next}
        /\ jobs' \subseteq Job
        /\ \A a, b \in jobs' : a.token = b.token => a = b
  BY <1>1, Advances
<1>3. /\ u \in TurnRef /\ k \in Tokens /\ phase = "up"
      /\ lease[u].running = k => receipt[u] = k
      /\ \A i \in jobs : i.step = "execute" => i.token # k
      /\ k \in issued
  BY <1>1, ReportingJob DEF RInv, JobsInv, JobInv
<1>4. /\ lease' \in [TurnRef -> Lease] /\ issued' = issued
      /\ lease'[u].running # k /\ StoreInv'
  BY <1>1, <1>3, FinishTurns
<1>5. /\ \A i \in jobs : JobInv(i) /\ receipt[i.turn]' = receipt[i.turn]
                           /\ (i.step = "execute" => delivered'[i.turn] # i.token)
                           => JobInv(i)'
      /\ \A v \in TurnRef : children[v] \subseteq {lease'[v].running, lease'[v].parked}
      /\ \A v \in TurnRef : receipt[v] \in {lease[v].running, lease[v].completed}
                              => receipt[v] \in {lease'[v].running, lease'[v].completed, NoToken}
      /\ \A v \in orphans : phase = "up" => lease'[v].running = NoToken
      /\ \A v \in TurnRef : lease'[v].parked = lease[v].parked
      /\ \A v \in TurnRef : lease'[v].running \in {lease[v].running, NoToken}
  BY <1>1, <1>3, AcceptedTurn
<1> HIDE DEF u, k
<1>6. delivered'[u] = receipt[u] /\ \A v \in TurnRef \ {u} : delivered'[v] = delivered[v]
  BY <1>1, <1>3, Types
<1>7. RunnerTypeOK'
  <2>1. delivered' \in [TurnRef -> MaybeToken]
    BY <1>1, <1>3, Types
  <2> QED
    BY <1>1, <1>2, <1>4, <2>1 DEF RInv, RunnerTypeOK
<1>8. JobsInv'
  <2>1. \A i \in jobs' : JobInv(i)'
    <3> SUFFICES ASSUME NEW i \in jobs' PROVE JobInv(i)'
      OBVIOUS
    <3>1. CASE i = next
      BY <1>2, <1>3, <1>4, <3>1 DEF JobInv
    <3>2. CASE i \in jobs
      <4>1. JobInv(i) /\ i.turn \in TurnRef
        BY <3>2, Types DEF RInv, JobsInv, Job
      <4>2. i.step = "execute" => delivered'[i.turn] # i.token
        BY <1>6, <4>1 DEF JobInv
      <4> QED
        BY <1>1, <1>5, <3>2, <4>1, <4>2
    <3> QED
      BY <1>2, <3>1, <3>2
  <2> QED
    BY <1>1, <1>2, <1>3, <2>1 DEF JobsInv
<1>9. FilesInv'
  <2> SUFFICES ASSUME NEW v \in TurnRef
               PROVE  /\ {journal[v], receipt[v], delivered'[v]} \subseteq issued' \cup {NoToken}
                      /\ receipt[v] # NoToken /\ delivered'[v] # receipt[v]
                           => receipt[v] \in {lease'[v].running, lease'[v].completed}
    BY <1>1 DEF FilesInv
  <2>1. /\ {journal[v], receipt[v], delivered[v]} \subseteq issued \cup {NoToken}
        /\ receipt[v] # NoToken /\ delivered[v] # receipt[v]
             => receipt[v] \in {lease[v].running, lease[v].completed}
    BY DEF RInv, FilesInv
  <2> QED
    BY <1>4, <1>5, <1>6, <2>1
<1>10. ChildrenInv'
  BY <1>1, <1>5 DEF RInv, ChildrenInv
<1>11. OrphansInv'
  BY <1>1, <1>3, <1>5, Types DEF RInv, OrphansInv
<1>12. OnceInv'
  <2> SUFFICES ASSUME NEW v \in AttemptedOnce
               PROVE  /\ \A i \in jobs' : i.turn = v => i.token = journal[v]
                      /\ receipt[v] \in {NoToken, journal[v]}
                      /\ receipt[v] # NoToken /\ delivered'[v] = receipt[v]
                           => lease'[v].running # receipt[v]
    BY <1>1 DEF OnceInv, AttemptedOnce
  <2>1. /\ \A i \in jobs : i.turn = v => i.token = journal[v]
        /\ receipt[v] \in {NoToken, journal[v]}
        /\ receipt[v] # NoToken /\ delivered[v] = receipt[v]
             => lease[v].running # receipt[v]
        /\ v \in TurnRef
    BY DEF RInv, OnceInv, AttemptedOnce
  <2>2. \A i \in jobs' : i.turn = v => i.token = journal[v]
    BY <1>2, <2>1 DEF u, k
  <2>3. u = v => k = journal[v]
    BY <2>1 DEF u, k
  <2> QED
    BY <1>4, <1>5, <1>6, <2>1, <2>2, <2>3
<1> QED
  BY <1>4, <1>7, <1>8, <1>9, <1>10, <1>11, <1>12 DEF RInv

\* An answer that is lost, to a job or to the startup, leaves the files.
LEMMA AcceptedUnseen ==
  ASSUME RInv, NEW u \in TurnRef, NEW k \in Tokens, FinishAccepted(u, k),
         lease[u].running = k => receipt[u] = k,
         \A i \in jobs : i.step = "execute" => i.token # k,
         phase' \in Phase, phase' = phase \/ (phase = "replay" /\ phase' = "down"),
         faults' \in 0 .. MaxFaults,
         UNCHANGED <<memory, files, children>>
  PROVE  RInv'
<1>1. lease' \in [TurnRef -> Lease] /\ issued' = issued /\ StoreInv'
  BY FinishTurns
<1>2. /\ \A i \in jobs : JobInv(i) /\ receipt[i.turn]' = receipt[i.turn]
                           /\ (i.step = "execute" => delivered'[i.turn] # i.token)
                           => JobInv(i)'
      /\ \A v \in TurnRef : children[v] \subseteq {lease'[v].running, lease'[v].parked}
      /\ \A v \in TurnRef : receipt[v] \in {lease[v].running, lease[v].completed}
                              => receipt[v] \in {lease'[v].running, lease'[v].completed, NoToken}
      /\ \A v \in orphans : phase = "up" => lease'[v].running = NoToken
      /\ \A v \in TurnRef : lease'[v].parked = lease[v].parked
      /\ \A v \in TurnRef : lease'[v].running \in {lease[v].running, NoToken}
  BY AcceptedTurn
<1>3. UNCHANGED <<jobs, active, orphans, pass, journal, done, receipt, delivered>>
  BY DEF memory, files
<1>4. RunnerTypeOK'
  BY <1>1, <1>3 DEF RInv, RunnerTypeOK
<1>5. JobsInv'
  <2>1. \A i \in jobs : JobInv(i)'
    BY <1>2, <1>3 DEF RInv, JobsInv, JobInv
  <2> QED
    BY <1>3, <2>1 DEF RInv, JobsInv
<1>6. FilesInv'
  BY <1>1, <1>2, <1>3 DEF RInv, FilesInv
<1>7. ChildrenInv'
  BY <1>2, <1>3 DEF RInv, ChildrenInv
<1>8. OrphansInv'
  BY <1>2, <1>3, Types DEF RInv, OrphansInv, Undelivered
<1>9. OnceInv'
  BY <1>2, <1>3, TokenFacts DEF RInv, OnceInv, AttemptedOnce
<1> QED
  BY <1>1, <1>4, <1>5, <1>6, <1>7, <1>8, <1>9 DEF RInv

LEMMA ReportLostKeeps ==
  ASSUME RInv, NEW j \in jobs, ReportLost(j)
  PROVE  RInv'
<1>1. /\ j.step = "report" /\ FinishAccepted(j.turn, j.token) /\ Fault
      /\ UNCHANGED <<phase, memory, files, children>>
  BY DEF ReportLost, JobAt
<1> QED
  BY <1>1, ReportingJob, FaultType, AcceptedUnseen DEF RInv, RunnerTypeOK

LEMMA SettleKeeps ==
  ASSUME RInv, NEW j \in jobs, Settle(j)
  PROVE  RInv'
<1>1. /\ j.turn \in TurnRef
      /\ done' = [done EXCEPT ![j.turn] = TRUE]
      /\ jobs' = jobs \ {j}
      /\ active' = [active EXCEPT ![j.turn[1]] = NoToken]
      /\ UNCHANGED <<store, phase, orphans, pass, journal, receipt, delivered, children, faults>>
  BY Types DEF Settle, Job
<1>2. RunnerTypeOK'
  <2>1. done' \in [TurnRef -> BOOLEAN] /\ active' \in [Tasks -> MaybeToken] /\ jobs' \subseteq Job
    BY <1>1, Types, TokenFacts
  <2> QED
    BY <1>1, <2>1 DEF RInv, RunnerTypeOK, store
<1>3. JobsInv'
  BY <1>1 DEF RInv, JobsInv, JobInv, store
<1>4. StoreInv' /\ FilesInv' /\ ChildrenInv' /\ OrphansInv' /\ OnceInv'
  BY <1>1 DEF RInv, StoreInv, LeaseInv, FilesInv, ChildrenInv, OrphansInv, Undelivered,
              OnceInv, AttemptedOnce, store
<1> QED
  BY <1>2, <1>3, <1>4 DEF RInv

\* A runner that dies forgets its jobs; the store, the files and the children
\* of its jobs stay.
LEMMA ForgetKeeps ==
  ASSUME RInv, Forget, phase' = "down", faults' \in 0 .. MaxFaults,
         UNCHANGED <<store, files, children>>
  PROVE  RInv'
<1>1. /\ jobs' = {} /\ active' = [p \in Tasks |-> NoToken] /\ orphans' = {} /\ pass' = {}
      /\ UNCHANGED <<lease, issued, journal, done, receipt, delivered>>
  BY DEF Forget, store, files
<1>2. RunnerTypeOK'
  BY <1>1, TokenFacts DEF RInv, RunnerTypeOK, Phase
<1>3. JobsInv' /\ OrphansInv'
  BY <1>1 DEF JobsInv, OrphansInv
<1>4. StoreInv' /\ FilesInv' /\ ChildrenInv' /\ OnceInv'
  BY <1>1 DEF RInv, StoreInv, LeaseInv, FilesInv, ChildrenInv, OnceInv, AttemptedOnce
<1> QED
  BY <1>2, <1>3, <1>4 DEF RInv

LEMMA CrashKeeps == ASSUME RInv, Crash PROVE RInv'
BY ForgetKeeps, FaultType DEF Crash

LEMMA StartKeeps == ASSUME RInv, Start PROVE RInv'
<1>1. /\ phase = "down" /\ phase' = "replay"
      /\ UNCHANGED <<lease, issued, jobs, active, orphans, pass, journal, done, receipt,
                     delivered, children, faults>>
  BY DEF Start, store, memory, files
<1>2. RunnerTypeOK'
  BY <1>1 DEF RInv, RunnerTypeOK, Phase
<1>3. JobsInv' /\ OrphansInv'
  BY <1>1 DEF RInv, JobsInv, OrphansInv
<1>4. StoreInv' /\ FilesInv' /\ ChildrenInv' /\ OnceInv'
  BY <1>1 DEF RInv, StoreInv, LeaseInv, FilesInv, ChildrenInv, OnceInv, AttemptedOnce
<1> QED
  BY <1>2, <1>3, <1>4 DEF RInv

LEMMA ReplayKeeps ==
  ASSUME RInv, NEW u \in TurnRef, Replay(u)
  PROVE  RInv'
<1> DEFINE k == receipt[u]
<1>1. /\ phase = "replay" /\ u \in Undelivered /\ FinishAccepted(u, k)
      /\ delivered' = [delivered EXCEPT ![u] = k]
      /\ UNCHANGED <<phase, memory, journal, done, receipt, children, faults>>
  BY DEF Replay
<1>2. k \in Tokens /\ jobs = {} /\ jobs' = {} /\ orphans = {} /\ orphans' = {} /\ pass' = pass
  BY <1>1, Types DEF Undelivered, MaybeToken, RInv, JobsInv, OrphansInv, memory
<1>3. /\ lease' \in [TurnRef -> Lease] /\ issued' = issued
      /\ lease'[u].running # k /\ StoreInv'
  BY <1>1, <1>2, FinishTurns
<1>4. /\ \A v \in TurnRef : children[v] \subseteq {lease'[v].running, lease'[v].parked}
      /\ \A v \in TurnRef : receipt[v] \in {lease[v].running, lease[v].completed}
                              => receipt[v] \in {lease'[v].running, lease'[v].completed, NoToken}
      /\ \A v \in TurnRef : lease'[v].running \in {lease[v].running, NoToken}
  BY <1>1, <1>2, AcceptedTurn
<1>5. delivered'[u] = k /\ \A v \in TurnRef \ {u} : delivered'[v] = delivered[v]
  BY <1>1, Types
<1>6. RunnerTypeOK'
  <2>1. delivered' \in [TurnRef -> MaybeToken]
    BY <1>1, Types
  <2> QED
    BY <1>1, <1>3, <2>1 DEF RInv, RunnerTypeOK, memory
<1>7. JobsInv' /\ OrphansInv'
  BY <1>1, <1>2 DEF JobsInv, OrphansInv
<1>8. FilesInv'
  <2> SUFFICES ASSUME NEW v \in TurnRef
               PROVE  /\ {journal[v], receipt[v], delivered'[v]} \subseteq issued' \cup {NoToken}
                      /\ receipt[v] # NoToken /\ delivered'[v] # receipt[v]
                           => receipt[v] \in {lease'[v].running, lease'[v].completed}
    BY <1>1 DEF FilesInv
  <2>1. /\ {journal[v], receipt[v], delivered[v]} \subseteq issued \cup {NoToken}
        /\ receipt[v] # NoToken /\ delivered[v] # receipt[v]
             => receipt[v] \in {lease[v].running, lease[v].completed}
    BY DEF RInv, FilesInv
  <2> QED
    BY <1>3, <1>4, <1>5, <2>1
<1>9. ChildrenInv'
  BY <1>1, <1>4 DEF RInv, ChildrenInv
<1>10. OnceInv'
  <2> SUFFICES ASSUME NEW v \in AttemptedOnce
               PROVE  /\ receipt[v] \in {NoToken, journal[v]}
                      /\ receipt[v] # NoToken /\ delivered'[v] = receipt[v]
                           => lease'[v].running # receipt[v]
    BY <1>1, <1>2 DEF OnceInv, AttemptedOnce
  <2>1. /\ receipt[v] \in {NoToken, journal[v]}
        /\ receipt[v] # NoToken /\ delivered[v] = receipt[v]
             => lease[v].running # receipt[v]
        /\ v \in TurnRef
    BY DEF RInv, OnceInv, AttemptedOnce
  <2> QED
    BY <1>3, <1>4, <1>5, <2>1
<1> QED
  BY <1>3, <1>6, <1>7, <1>8, <1>9, <1>10 DEF RInv

LEMMA ReplayLostKeeps ==
  ASSUME RInv, NEW u \in TurnRef, ReplayLost(u)
  PROVE  RInv'
<1>1. /\ phase = "replay" /\ u \in Undelivered /\ FinishAccepted(u, receipt[u]) /\ Fault
      /\ phase' = "down"
      /\ UNCHANGED <<memory, files, children>>
  BY DEF ReplayLost
<1>2. receipt[u] \in Tokens /\ jobs = {}
  BY <1>1, Types DEF Undelivered, MaybeToken, RInv, JobsInv
<1>3. phase' \in Phase
  BY <1>1 DEF Phase
<1> QED
  BY <1>1, <1>2, <1>3, FaultType, AcceptedUnseen

LEMMA ScanKeeps == ASSUME RInv, Scan PROVE RInv'
<1>1. /\ phase = "replay" /\ Undelivered = {} /\ phase' = "recover"
      /\ orphans' = {u \in TurnRef : Unsettled(u)} /\ pass' = orphans'
      /\ UNCHANGED <<lease, issued, jobs, active, journal, done, receipt, delivered,
                     children, faults>>
  BY DEF Scan, Replayed, store, files
<1>2. RunnerTypeOK'
  BY <1>1 DEF RInv, RunnerTypeOK, Phase
<1>3. JobsInv' /\ OrphansInv'
  BY <1>1 DEF RInv, JobsInv, OrphansInv, Undelivered, Unsettled
<1>4. StoreInv' /\ FilesInv' /\ ChildrenInv' /\ OnceInv'
  BY <1>1 DEF RInv, StoreInv, LeaseInv, FilesInv, ChildrenInv, JobsInv, OnceInv, AttemptedOnce
<1> QED
  BY <1>2, <1>3, <1>4 DEF RInv

LEMMA IterateKeeps == ASSUME RInv, Iterate PROVE RInv'
<1>1. /\ phase \in {"recover", "up"} /\ pass = {} /\ phase' = "up" /\ pass' = orphans
      /\ UNCHANGED <<lease, issued, jobs, active, orphans, journal, done, receipt, delivered,
                     children, faults>>
  BY DEF Iterate, store, files
<1>2. RunnerTypeOK'
  BY <1>1 DEF RInv, RunnerTypeOK, Phase
<1>3. \A u \in orphans : lease[u].running = NoToken
  <2> SUFFICES ASSUME NEW u \in orphans PROVE lease[u].running = NoToken
    OBVIOUS
  <2>1. u \in TurnRef /\ lease[u].parked = journal[u] /\ journal[u] # NoToken
    BY <1>1, Types DEF RInv, OrphansInv
  <2> QED
    BY <2>1 DEF RInv, StoreInv, LeaseInv
<1>4. OrphansInv'
  BY <1>1, <1>3 DEF RInv, OrphansInv
<1>5. StoreInv' /\ JobsInv' /\ FilesInv' /\ ChildrenInv' /\ OnceInv'
  BY <1>1 DEF RInv, StoreInv, LeaseInv, JobsInv, JobInv, FilesInv, ChildrenInv, OnceInv, AttemptedOnce
<1> QED
  BY <1>2, <1>4, <1>5 DEF RInv

\* The recovery of an open journal, answered or not: nothing runs at its turn
\* afterwards that ran there under its token, and its children stay parked.
LEMMA RecoveredTurn ==
  ASSUME RInv, NEW u \in pass, phase \in {"recover", "up"},
         RecoverAnswered(u, journal[u], Lives(u, journal[u]))
  PROVE  /\ u \in TurnRef /\ u \in orphans /\ journal[u] \in Tokens
         /\ lease' \in [TurnRef -> Lease] /\ issued' = issued /\ StoreInv'
         /\ \A v \in TurnRef \ {u} : lease'[v] = lease[v]
         /\ \A i \in jobs : JobInv(i) => (i.step = "execute" => i.turn # u)
         /\ \A v \in TurnRef : children[v] \subseteq {lease'[v].running, lease'[v].parked}
         /\ \A v \in TurnRef : receipt[v] # NoToken /\ delivered[v] # receipt[v]
                                 => receipt[v] \in {lease'[v].running, lease'[v].completed}
         /\ lease'[u].running \in {lease[u].running, NoToken}
         /\ phase = "up" => lease'[u].running = NoToken
         /\ ~Closes(u, journal[u], Lives(u, journal[u])) => lease'[u].parked = journal[u]
<1> DEFINE k == journal[u]
           live == Lives(u, k)
<1>1. u \in TurnRef /\ u \in orphans /\ k \in Tokens
  BY Types DEF MaybeToken, RInv, OrphansInv
<1>2. live \in BOOLEAN /\ (live <=> k \in children[u])
  BY DEF Lives
<1>3. RecoverAnswered(u, k, live)
  OBVIOUS
<1> HIDE DEF k, live
<1>4. /\ lease' \in [TurnRef -> Lease] /\ issued' = issued
      /\ Settled(u, k) => lease' = lease
      /\ ~Settled(u, k) => /\ k \in {lease[u].running, lease[u].parked}
                           /\ lease'[u].running = NoToken
                           /\ lease'[u].parked = IF live THEN k ELSE NoToken
                           /\ lease'[u].completed = lease[u].completed
      /\ \A v \in TurnRef \ {u} : lease'[v] = lease[v]
      /\ StoreInv'
  BY <1>1, <1>2, <1>3, RecoverTurns
<1>5. phase = "up" => lease[u].running = NoToken
  BY <1>1 DEF RInv, OrphansInv
<1>6. \A i \in jobs : JobInv(i) => (i.step = "execute" => i.turn # u)
  BY <1>5, Types, TokenFacts DEF RInv, JobsInv, JobInv, Job
<1>7. \A v \in TurnRef : children[v] \subseteq {lease'[v].running, lease'[v].parked}
  <2> SUFFICES ASSUME NEW v \in TurnRef, NEW c \in children[v]
               PROVE  c \in {lease'[v].running, lease'[v].parked}
    OBVIOUS
  <2>1. c \in {lease[v].running, lease[v].parked} /\ c \in Tokens
    BY Types DEF RInv, ChildrenInv
  <2>2. CASE v # u \/ Settled(u, k)
    BY <1>4, <2>1, <2>2
  <2>3. CASE v = u /\ ~Settled(u, k)
    <3>1. lease[u].running = NoToken \/ lease[u].parked = NoToken
      BY <1>1 DEF RInv, StoreInv, LeaseInv
    <3>2. c = k
      BY <1>1, <1>4, <2>1, <2>3, <3>1, TokenFacts
    <3> QED
      BY <1>2, <1>4, <2>3, <3>2
  <2> QED
    BY <2>2, <2>3
<1>8. \A v \in TurnRef : receipt[v] # NoToken /\ delivered[v] # receipt[v]
                           => receipt[v] \in {lease'[v].running, lease'[v].completed}
  <2> SUFFICES ASSUME NEW v \in TurnRef, receipt[v] # NoToken, delivered[v] # receipt[v]
               PROVE  receipt[v] \in {lease'[v].running, lease'[v].completed}
    OBVIOUS
  <2>1. v \in Undelivered /\ phase = "up"
    BY DEF Undelivered, RInv, OrphansInv
  <2>2. receipt[v] \in {lease[v].running, lease[v].completed}
    BY DEF RInv, FilesInv
  <2> QED
    BY <1>4, <1>5, <2>1, <2>2
<1>9. lease'[u].running \in {lease[u].running, NoToken}
  BY <1>4
<1>10. phase = "up" => lease'[u].running = NoToken
  BY <1>4, <1>5
<1>11. ~Closes(u, k, live) => lease'[u].parked = k
  BY <1>4 DEF Closes
<1> QED
  BY <1>1, <1>4, <1>6, <1>7, <1>8, <1>9, <1>10, <1>11 DEF k, live

\* What the recovery of one journal leaves of everything but the open journals.
LEMMA RecoveryKeeps ==
  ASSUME RInv, NEW u \in pass, phase \in {"recover", "up"},
         RecoverAnswered(u, journal[u], Lives(u, journal[u])),
         phase' \in Phase, faults' \in 0 .. MaxFaults,
         done' \in [TurnRef -> BOOLEAN],
         pass' \subseteq orphans', orphans' \subseteq orphans,
         UNCHANGED <<journal, receipt, delivered, children>>,
         \/ phase' = phase /\ UNCHANGED <<jobs, active>>
         \/ Forget
  PROVE  OrphansInv' => RInv'
<1>1. /\ u \in TurnRef /\ u \in orphans /\ journal[u] \in Tokens
      /\ lease' \in [TurnRef -> Lease] /\ issued' = issued /\ StoreInv'
      /\ \A v \in TurnRef \ {u} : lease'[v] = lease[v]
      /\ \A i \in jobs : JobInv(i) => (i.step = "execute" => i.turn # u)
      /\ \A v \in TurnRef : children[v] \subseteq {lease'[v].running, lease'[v].parked}
      /\ \A v \in TurnRef : receipt[v] # NoToken /\ delivered[v] # receipt[v]
                              => receipt[v] \in {lease'[v].running, lease'[v].completed}
      /\ lease'[u].running \in {lease[u].running, NoToken}
  BY RecoveredTurn
<1>2. RunnerTypeOK'
  BY <1>1, Types, TokenFacts DEF RInv, RunnerTypeOK, Forget
<1>3. JobsInv'
  <2>1. CASE Forget
    BY <2>1 DEF Forget, JobsInv
  <2>2. CASE phase' = phase /\ UNCHANGED <<jobs, active>>
    <3> SUFFICES ASSUME NEW i \in jobs PROVE JobInv(i)'
      BY <2>2 DEF RInv, JobsInv
    <3>1. JobInv(i) /\ i.turn \in TurnRef /\ i.token \in Tokens
      BY Types DEF RInv, JobsInv, Job
    <3>2. lease'[i.turn].running \in {lease[i.turn].running, NoToken}
      BY <1>1, <3>1
    <3>3. i.step = "execute" => lease'[i.turn] = lease[i.turn]
      BY <1>1, <3>1
    <3> QED
      BY <1>1, <3>1, <3>2, <3>3, TokenFacts DEF JobInv
  <2> QED
    BY <2>1, <2>2
<1>4. FilesInv' /\ ChildrenInv'
  BY <1>1 DEF RInv, FilesInv, ChildrenInv
<1>5. OnceInv'
  <2>1. jobs' \subseteq jobs
    BY DEF Forget
  <2>2. \A v \in TurnRef : lease'[v].running \in {lease[v].running, NoToken}
    BY <1>1
  <2> QED
    BY <2>1, <2>2 DEF RInv, OnceInv, AttemptedOnce
<1> QED
  BY <1>1, <1>2, <1>3, <1>4, <1>5 DEF RInv

LEMMA RecoverOrphanKeeps ==
  ASSUME RInv, NEW u \in TurnRef, RecoverOrphan(u)
  PROVE  RInv'
<1> DEFINE k == journal[u]
           live == Lives(u, k)
<1>1. /\ phase \in {"recover", "up"} /\ u \in pass /\ RecoverAnswered(u, k, live)
      /\ pass' = pass \ {u}
      /\ \/ done' = [done EXCEPT ![u] = TRUE] /\ orphans' = orphans \ {u}
         \/ ~Closes(u, k, live) /\ UNCHANGED <<done, orphans>>
      /\ UNCHANGED <<phase, jobs, active, journal, receipt, delivered, children, faults>>
  BY DEF RecoverOrphan
<1>2. /\ \A v \in TurnRef \ {u} : lease'[v] = lease[v]
      /\ phase = "up" => lease'[u].running = NoToken
      /\ ~Closes(u, k, live) => lease'[u].parked = k
  BY <1>1, RecoveredTurn
<1> HIDE DEF live
<1>3. done' \in [TurnRef -> BOOLEAN] /\ pass' \subseteq orphans' /\ orphans' \subseteq orphans
  BY <1>1, Types
<1>4. OrphansInv'
  <2>1. \A v \in orphans' \ pass' : lease'[v].parked = journal'[v]
    <3> SUFFICES ASSUME NEW v \in orphans' \ pass' PROVE lease'[v].parked = journal[v]
      BY <1>1
    <3>1. v \in TurnRef /\ v \in orphans
      BY <1>3, Types
    <3>2. CASE v = u
      BY <1>1, <1>2, <3>2
    <3>3. CASE v # u
      BY <1>1, <1>2, <3>1, <3>3 DEF RInv, OrphansInv
    <3> QED
      BY <3>2, <3>3
  <2>2. phase' = "up" => \A v \in orphans' : lease'[v].running = NoToken
    BY <1>1, <1>2, <1>3, Types DEF RInv, OrphansInv
  <2> QED
    BY <1>1, <1>3, <2>1, <2>2 DEF RInv, OrphansInv, Undelivered
<1>5. phase' \in Phase /\ faults' \in 0 .. MaxFaults
  BY <1>1 DEF RInv, RunnerTypeOK
<1> QED
  BY <1>1, <1>3, <1>4, <1>5, RecoveryKeeps DEF live

LEMMA RecoverLostKeeps ==
  ASSUME RInv, NEW u \in TurnRef, RecoverLost(u)
  PROVE  RInv'
<1>1. /\ phase \in {"recover", "up"} /\ u \in pass
      /\ RecoverAnswered(u, journal[u], Lives(u, journal[u]))
      /\ \/ phase' = "down" /\ Forget
         \/ phase = "up" /\ pass' = orphans /\ UNCHANGED <<phase, jobs, active, orphans>>
      /\ UNCHANGED <<journal, done, receipt, delivered, children>>
      /\ faults' \in 0 .. MaxFaults
  BY FaultType DEF RecoverLost, files
<1>2. /\ \A v \in TurnRef \ {u} : lease'[v] = lease[v]
      /\ phase = "up" => lease'[u].running = NoToken
  BY <1>1, RecoveredTurn
<1>3. /\ done' \in [TurnRef -> BOOLEAN] /\ pass' \subseteq orphans' /\ orphans' \subseteq orphans
      /\ phase' \in Phase
  BY <1>1, Types DEF Forget, Phase
<1>4. OrphansInv'
  <2>1. CASE phase' = "down" /\ Forget
    BY <2>1 DEF Forget, OrphansInv
  <2>2. CASE phase = "up" /\ pass' = orphans /\ UNCHANGED <<phase, jobs, active, orphans>>
    BY <1>1, <1>2, <2>2, Types DEF RInv, OrphansInv
  <2> QED
    BY <1>1, <2>1, <2>2
<1> QED
  BY <1>1, <1>3, <1>4, RecoveryKeeps

-----------------------------------------------------------------------------
(* The specification. *)

LEMMA RunnerInitHolds == RunnerInit => RInv
<1> SUFFICES ASSUME RunnerInit PROVE RInv
  OBVIOUS
<1>1. /\ lease = [u \in TurnRef |-> NeverRun] /\ issued = {}
      /\ phase = "down" /\ jobs = {} /\ active = [p \in Tasks |-> NoToken]
      /\ orphans = {} /\ pass = {}
      /\ journal = [u \in TurnRef |-> NoToken] /\ done = [u \in TurnRef |-> FALSE]
      /\ receipt = [u \in TurnRef |-> NoToken] /\ delivered = [u \in TurnRef |-> NoToken]
      /\ children = [u \in TurnRef |-> {}] /\ faults = 0
  BY DEF RunnerInit, Init
<1>2. NeverRun \in Lease
  BY TokenFacts DEF NeverRun, Lease
<1>3. RunnerTypeOK
  BY <1>1, <1>2, TokenFacts, RunnerAssumption DEF RunnerTypeOK, Phase
<1>4. StoreInv
  BY <1>1 DEF StoreInv, LeaseInv, NeverRun
<1>5. JobsInv /\ FilesInv /\ OrphansInv
  BY <1>1 DEF JobsInv, FilesInv, OrphansInv
<1>6. ChildrenInv
  BY <1>1 DEF ChildrenInv
<1>7. OnceInv
  BY <1>1 DEF OnceInv, AttemptedOnce
<1> QED
  BY <1>3, <1>4, <1>5, <1>6, <1>7 DEF RInv

\* No step begins an attempt at a turn with living children.
StartsAlone ==
  \A u \in TurnRef :
    lease'[u].running \notin {NoToken, lease[u].running} => children[u] = {}

LEMMA RunnerStepKeeps == RInv /\ [RunnerNext]_runnerVars => RInv'
<1> SUFFICES ASSUME RInv, [RunnerNext]_runnerVars PROVE RInv'
  OBVIOUS
<1>1. CASE UNCHANGED runnerVars
  BY <1>1 DEF runnerVars, store, memory, files, RInv, RunnerTypeOK, StoreInv, LeaseInv,
              JobsInv, JobInv, FilesInv, ChildrenInv, OrphansInv, Undelivered, OnceInv,
              AttemptedOnce
<1>2. CASE JobStep
  <2>1. PICK j \in jobs :
          SpawnChild(j) \/ Execute(j) \/ Report(j) \/ ReportLost(j) \/ Settle(j)
    BY <1>2 DEF JobStep
  <2>2. j.turn \in TurnRef /\ j.token \in Tokens
    BY Types DEF Job
  <2> QED
    BY <2>1, <2>2, ChildrenKeep, ExecuteKeeps, ReportKeeps, ReportLostKeeps, SettleKeeps
<1>3. CASE \E u \in TurnRef : TurnStep(u)
  <2>1. PICK u \in TurnRef : TurnStep(u)
    BY <1>3
  <2>2. ASSUME NEW k \in Tokens, Claim(u, k) \/ ClaimLost(u, k)
        PROVE  RInv'
    BY <2>2, ClaimKeeps, ClaimLostKeeps
  <2>3. ASSUME NEW k \in Tokens, ChildExits(u, k)
        PROVE  RInv'
    <3>1. /\ UNCHANGED <<store, phase, memory, files, faults>>
          /\ children' = [children EXCEPT ![u] = @ \ {k}]
      BY <2>3 DEF ChildExits
    <3>2. /\ children' \in [TurnRef -> SUBSET Tokens]
          /\ \A v \in TurnRef : children'[v] \subseteq children[v]
      BY <3>1, Types
    <3> QED
      BY <3>1, <3>2 DEF store, memory, files, RInv, RunnerTypeOK, StoreInv, LeaseInv,
              JobsInv, JobInv, FilesInv, ChildrenInv, OrphansInv, Undelivered, OnceInv,
              AttemptedOnce
  <2> QED
    BY <2>1, <2>2, <2>3, ReplayKeeps, ReplayLostKeeps, RecoverOrphanKeeps, RecoverLostKeeps
       DEF TurnStep
<1>4. CASE Crash \/ Start \/ Scan \/ Iterate
  BY <1>4, CrashKeeps, StartKeeps, ScanKeeps, IterateKeeps
<1> QED
  BY <1>1, <1>2, <1>3, <1>4 DEF RunnerNext

LEMMA RunnerStepStarts == RInv /\ [RunnerNext]_runnerVars => StartsAlone
<1> SUFFICES ASSUME RInv, [RunnerNext]_runnerVars,
                    NEW u \in TurnRef, lease'[u].running \notin {NoToken, lease[u].running}
             PROVE  children[u] = {}
  BY DEF StartsAlone
<1>1. PICK w \in TurnRef, k \in Tokens : Begin(w, k)
  <2>1. ASSUME NEW w \in TurnRef, NEW k \in Tokens, FinishAccepted(w, k) PROVE FALSE
    BY <2>1, FinishTurns
  <2>2. ASSUME NEW w \in TurnRef, RecoverOrphan(w) \/ RecoverLost(w) PROVE FALSE
    <3>1. w \in pass /\ phase \in {"recover", "up"}
          /\ RecoverAnswered(w, journal[w], Lives(w, journal[w]))
      BY <2>2 DEF RecoverOrphan, RecoverLost
    <3> QED
      BY <3>1, RecoveredTurn
  <2>3. lease' # lease
    OBVIOUS
  <2>4. CASE JobStep
    <3>1. PICK j \in jobs :
            SpawnChild(j) \/ Execute(j) \/ Report(j) \/ ReportLost(j) \/ Settle(j)
      BY <2>4 DEF JobStep
    <3>2. j.turn \in TurnRef /\ j.token \in Tokens
      BY Types DEF Job
    <3>3. FinishAccepted(j.turn, j.token)
      BY <2>3, <3>1 DEF SpawnChild, Execute, Report, ReportLost, Settle, store
    <3> QED
      BY <2>1, <3>2, <3>3
  <2>5. CASE \E w \in TurnRef : TurnStep(w)
    <3>1. PICK w \in TurnRef : TurnStep(w)
      BY <2>5
    <3>2. CASE Replay(w) \/ ReplayLost(w)
      <4>1. receipt[w] \in Tokens /\ FinishAccepted(w, receipt[w])
        BY <3>2, Types DEF Replay, ReplayLost, Undelivered, MaybeToken
      <4> QED
        BY <2>1, <4>1
    <3> QED
      BY <2>2, <2>3, <3>1, <3>2 DEF TurnStep, Claim, ClaimLost, ChildExits, store
  <2> QED
    BY <2>3, <2>4, <2>5 DEF RunnerNext, runnerVars, store, Crash, Start, Scan, Iterate
<1>2. u = w /\ lease[u].running = NoToken /\ lease[u].parked = NoToken
  BY <1>1, BeginTurns
<1> QED
  BY <1>2, Types, TokenFacts DEF RInv, ChildrenInv

\* The runner's invariant holds through crashes, lost answers and replays.
THEOREM RunnerInductive == RunnerSpec => []RInv
BY RunnerInitHolds, RunnerStepKeeps, PTL DEF RunnerSpec

\* No attempt begins at a turn while a child of an earlier attempt at it lives,
\* however often the runner dies and whichever answers are lost.
THEOREM ChildrenBlockStarts == RunnerSpec => NoStartOverChildren
<1>1. RInv /\ [RunnerNext]_runnerVars
        => [\A u \in TurnRef :
              lease'[u].running \notin {NoToken, lease[u].running} => children[u] = {}]_runnerVars
  BY RunnerStepStarts DEF StartsAlone
<1> QED
  BY <1>1, RunnerInductive, PTL DEF RunnerSpec, NoStartOverChildren

\* A starting runner never meets a result that the store refuses.
THEOREM ReplayAccepted == RunnerSpec => []ReplayNeverRefused
<1>1. RInv => ReplayNeverRefused
  BY DEF RInv, FilesInv, ReplayNeverRefused, Undelivered, FinishRefused, Completed
<1> QED
  BY <1>1, RunnerInductive, PTL

\* A result of a turn attempted once that is marked delivered was accepted.
THEOREM DeliveredIsAccepted == RunnerSpec => []NoResultDropped
<1>1. RInv => NoResultDropped
  BY DEF RInv, OnceInv, NoResultDropped
<1> QED
  BY <1>1, RunnerInductive, PTL
=============================================================================
