-------------------------- MODULE ChatWorkerProofs --------------------------
(* Theorems about ChatWorker, for every value of its constants. *)
EXTENDS ChatWorker, TLAPS

-----------------------------------------------------------------------------
(* The inductive invariant *)

\* Why: the lease and the mark name only the event after the cursor, a prompted
\* event is closed or marked, and of the workers past begin-turn that have not
\* prompted yet no two hold one event, none a prompted one.
PastMark(p) == pc[p] \in {"begun", "prompt"}

ClosedOrMarked(e) == e <= cursor \/ turnEvent = e

TurnBarrier ==
  /\ leaseEvent \in {0, cursor + 1} /\ turnEvent \in {0, cursor + 1}
  /\ \A e \in Event : prompts[e] > 0 => ClosedOrMarked(e)
  /\ \A p \in Process : PastMark(p) =>
       ev[p] \in Event /\ ClosedOrMarked(ev[p]) /\ prompts[ev[p]] = 0
  /\ \A p, q \in Process : PastMark(p) /\ PastMark(q) /\ ev[p] = ev[q] => p = q

-----------------------------------------------------------------------------
(* Type correctness *)

\* Counting one more at a key that need not be in the domain stays typed.
LEMMA CountTyped ==
  ASSUME NEW S, NEW f \in [S -> Nat], NEW x
  PROVE  [f EXCEPT ![x] = @ + 1] \in [S -> Nat]
<1>1. CASE x \in S
  BY <1>1
<1>2. CASE x \notin S
  BY <1>2
<1> QED
  BY <1>1, <1>2

\* One call of one process changes.
LEMMA CallTyped ==
  ASSUME NEW p \in Process, NEW n \in 1..MaxSends, NEW v \in Progress,
         NEW f \in [Process -> [1..MaxSends -> Progress]]
  PROVE  [f EXCEPT ![p][n] = v] \in [Process -> [1..MaxSends -> Progress]]
<1>1. [f[p] EXCEPT ![n] = v] \in [1..MaxSends -> Progress]
  OBVIOUS
<1> QED
  BY <1>1

\* A step of the worker that needs no gate of the store beyond what it reads.
LEMMA WorkerStepTyped ==
  ASSUME TypeOK, NEW p \in Process, WorkerStep(p) \/ AgentStep(p)
  PROVE  TypeOK'
<1>0. /\ ep[p] \in Nat /\ ce[p] \in Nat /\ sess[p] \in Nat
      /\ ev[p] \in Event \cup {0} /\ reason[p] \in Pauses \cup {"none"}
      /\ conf[p] \in SUBSET Send /\ session \in Nat /\ Recorded \in SUBSET Send
  BY DEF TypeOK, StoreTypeOK, Recorded
<1> USE DEF TypeOK, StoreTypeOK, storeVars, leaseVars, stateVars, workerVars, fileVars, worldVars
<1>1. CASE Start(p)
  BY ZenonT(30), <1>1 DEF Start, Require, Throw, Goto, Pauses, Step
<1>2. CASE Lookup(p)
  BY ZenonT(30), <1>2 DEF Lookup, Require, Throw, Goto, Pauses, Step
<1>3. CASE Classify(p)
  BY ZenonT(30), <1>3 DEF Classify, Require, Throw, Goto, Pauses, Step, KnownEcho
<1>4. CASE Open(p)
  BY <1>0, <1>4 DEF Open, Bind, Goto, Step
<1>5. CASE BeginTurn(p)
  BY <1>0, <1>5 DEF BeginTurn, BeginTurnMark, Goto, Step
<1>6. CASE PromptGate(p)
  BY ZenonT(30), <1>6 DEF PromptGate, Require, Throw, Goto, Pauses, Step
<1>7. CASE Prompt(p)
  <2>1. prompts' \in [Event -> Nat]
    BY <1>7, CountTyped DEF Prompt
  <2> QED
    BY <1>7, <2>1 DEF Prompt, Goto, Step
<1>8. ASSUME NEW n \in 1..MaxSends, Dispatch(p, n)
      PROVE  TypeOK'
  <2>1. call' \in [Process -> [1..MaxSends -> Progress]]
    BY <1>8, CallTyped DEF Dispatch, Progress
  <2>2. <<ev[p], n>> \in Send
    BY <1>8 DEF Dispatch, Owns, Work, Send
  <2> QED
    BY <1>8, <2>1, <2>2 DEF Dispatch
<1>9. ASSUME NEW n \in 1..MaxSends, Confirm(p, n)
      PROVE  TypeOK'
  <2>1. call' \in [Process -> [1..MaxSends -> Progress]]
    BY <1>9, CallTyped DEF Confirm, Progress
  <2> QED
    BY <1>9, <2>1 DEF Confirm, JournalConfirm
<1>10. ASSUME NEW n \in 1..MaxSends, NotConfirmed(p, n)
       PROVE  TypeOK'
  BY <1>10 DEF NotConfirmed, JournalUncertain, Goto, Step, Pauses
<1>11. CASE HookFails(p) \/ AbortSettles(p)
  BY ZenonT(30), <1>11 DEF HookFails, AbortSettles, Throw, Goto, Step, Pauses
<1>12. CASE Settle(p)
  BY ZenonT(30), <1>12 DEF Settle, Require, Throw, Goto, Pauses, Step
<1>13. CASE AppendGate(p)
  BY ZenonT(30), <1>0, <1>13 DEF AppendGate, Require, Throw, Goto, Pauses, Step
<1>14. CASE WriteMarker(p)
  <2>1. markers' \in [Event -> Nat]
    BY <1>14, CountTyped DEF WriteMarker
  <2>2. named' \in [Event -> SUBSET Send]
    BY <1>0, <1>14 DEF WriteMarker
  <2> QED
    BY <1>14, <2>1, <2>2 DEF WriteMarker, Goto, Step
<1>15. CASE SyncMarker(p)
  BY ZenonT(30), <1>15 DEF SyncMarker, Require, Throw, Goto, Pauses, Step
<1>16. CASE Complete(p)
  BY <1>0, <1>16 DEF Complete, CompleteEvent, Work, Return, Step, NoCalls, Progress
<1>17. CASE CompleteFails(p)
  BY <1>17 DEF CompleteFails, Throw, Goto, Pauses, Step, Readable
<1>18. CASE Pause(p)
  BY <1>0, <1>18 DEF Pause, SetPause, Return, Step, NoCalls, Progress
<1>19. CASE GateLost(p)
  BY <1>19 DEF GateLost, Return, Step, NoCalls, Progress
<1>20. CASE PreparationFails(p) \/ PromptFails(p)
  BY ZenonT(30), <1>20 DEF PreparationFails, PromptFails, Throw, Goto, Pauses, Step
<1>21. CASE PromptLeavesCalls(p)
  BY ZenonT(30), <1>21 DEF PromptLeavesCalls, JournalUncertain, Throw, Goto, Pauses, Step
<1>22. ASSUME NEW n \in 1..MaxSends, BeginSend(p, n)
       PROVE  TypeOK'
  <2>1. call' \in [Process -> [1..MaxSends -> Progress]]
    BY <1>22, CallTyped DEF BeginSend, Progress
  <2> QED
    BY <1>22, <2>1 DEF BeginSend, JournalBegin
<1> QED
  BY <1>1, <1>2, <1>3, <1>4, <1>5, <1>6, <1>7, <1>8, <1>9, <1>10, <1>11, <1>12, <1>13,
     <1>14, <1>15, <1>16, <1>17, <1>18, <1>19, <1>20, <1>21, <1>22 DEF WorkerStep, AgentStep

\* The coordinator and the crashes of one process.
LEMMA ProcessStepTyped ==
  ASSUME TypeOK, NEW p \in Process,
         Acquire(p) \/ Claim(p) \/ LoseApp(p) \/ Drain(p) \/ FailClosed(p) \/ Crash(p)
  PROVE  TypeOK'
<1>0. MaxFaults \in Nat /\ ep[p] \in Nat
  BY WorkerAssumption DEF TypeOK
<1> USE DEF TypeOK, StoreTypeOK, storeVars, leaseVars, stateVars, workerVars, fileVars, worldVars
<1>1. CASE Acquire(p)
  BY SMTT(20), <1>1 DEF Acquire, AppAcquire
<1>2. CASE Claim(p)
  <2>1. ASSUME ClaimUnresolved(ep[p]), UNCHANGED workerVars
        PROVE  TypeOK'
    BY <1>2, <2>1 DEF Claim, ClaimUnresolved, Pauses
  <2>2. ASSUME ClaimGap(ep[p]), UNCHANGED workerVars
        PROVE  TypeOK'
    <3>1. gap' \in {"none", "open", "elapsed"}
      BY <2>2 DEF ClaimGap
    <3>2. pause' \in Pauses \cup {"none"}
      BY <2>2 DEF ClaimGap, Pauses
    <3> QED
      BY <1>2, <2>2, <3>1, <3>2 DEF Claim, ClaimGap
  <2>3. ASSUME ClaimGrant(ep[p]), Goto(p, "start"),
               ev' = [ev EXCEPT ![p] = cursor + 1], ce' = [ce EXCEPT ![p] = leaseEpoch + 1],
               UNCHANGED <<ep, sess, context, call, conf, reason>>
        PROVE  TypeOK'
    <3>1. cursor + 1 \in Event /\ leaseEpoch + 1 \in Nat
      BY <2>3 DEF ClaimGrant
    <3>2. pc' \in [Process -> Step]
      BY <2>3 DEF Goto, Step
    <3> QED
      BY <1>0, <1>2, <2>3, <3>1, <3>2 DEF Claim, ClaimGrant
  <2> QED
    BY <1>2, <2>1, <2>2, <2>3 DEF Claim
<1>3. CASE LoseApp(p)
  BY <1>3 DEF LoseApp
<1>4. CASE Drain(p)
  <2>1. faults' \in 0..MaxFaults
    BY <1>0, <1>4 DEF Drain, Fault
  <2> QED
    BY <1>4, <2>1 DEF Drain, AppRelease
<1>5. CASE FailClosed(p)
  BY <1>0, <1>5 DEF FailClosed, Fault
<1>6. CASE Crash(p)
  BY <1>0, <1>6 DEF Crash, Fault, Return, NoCalls, Progress, Step
<1> QED
  BY <1>1, <1>2, <1>3, <1>4, <1>5, <1>6

\* The intake, the network, the clocks and the failure of the machine.
LEMMA WorldStepTyped ==
  ASSUME TypeOK,
         \/ \E e \in Event : Admit(e)
         \/ \E a \in Send : Deliver(a) \/ DropSend(a)
         \/ ExpireApp \/ ExpireLease \/ GapTimer \/ HostCrash
  PROVE  TypeOK'
<1>0. MaxFaults \in Nat
  BY WorkerAssumption
<1> USE DEF TypeOK, StoreTypeOK, storeVars, leaseVars, stateVars, workerVars, fileVars, worldVars
<1>1. ASSUME NEW e \in Event, Admit(e) PROVE TypeOK'
  BY <1>1 DEF Admit, Accept
<1>2. ASSUME NEW a \in Send, Deliver(a) \/ DropSend(a) PROVE TypeOK'
  BY <1>2 DEF Deliver, DropSend
<1>3. CASE ExpireApp
  <2>1. faults' \in 0..MaxFaults
    BY <1>0, <1>3 DEF ExpireApp, Fault
  <2> QED
    BY <1>3, <2>1 DEF ExpireApp, AppExpires
<1>4. CASE ExpireLease
  <2>1. faults' \in 0..MaxFaults
    BY <1>0, <1>4 DEF ExpireLease, Fault
  <2> QED
    BY <1>4, <2>1 DEF ExpireLease, LeaseExpires
<1>5. CASE GapTimer
  BY <1>5 DEF GapTimer, GapElapses
<1>6. CASE HostCrash
  <2>1. markers' \in [Event -> Nat] /\ synced' \in [Event -> Nat]
    BY <1>6 DEF HostCrash
  <2>2. call' \in [Process -> [1..MaxSends -> Progress]]
    BY <1>6 DEF HostCrash, NoCalls, Progress
  <2> QED
    BY <1>0, <1>6, <2>1, <2>2 DEF HostCrash, Fault, Step
<1> QED
  BY <1>1, <1>2, <1>3, <1>4, <1>5, <1>6

\* Every variable keeps the type TypeOK gives it.
THEOREM TypeCorrect == Spec => []TypeOK
<1>1. Init => TypeOK
  <2> SUFFICES ASSUME Init PROVE TypeOK
    OBVIOUS
  <2>1. StoreTypeOK
    BY DEF Init, StoreInit, StoreTypeOK
  <2>2. call \in [Process -> [1..MaxSends -> Progress]]
    BY DEF Init, NoCalls, Progress
  <2>3. faults \in 0..MaxFaults
    BY WorkerAssumption DEF Init
  <2> QED
    BY <2>1, <2>2, <2>3 DEF Init, TypeOK, Step
<1>2. TypeOK /\ [Next]_vars => TypeOK'
  <2> SUFFICES ASSUME TypeOK, [Next]_vars
               PROVE  TypeOK'
    OBVIOUS
  <2>1. CASE Next
    BY <2>1, WorkerStepTyped, ProcessStepTyped, WorldStepTyped DEF Next
  <2>2. CASE UNCHANGED vars
    BY <2>2 DEF vars, storeVars, leaseVars, stateVars, workerVars, fileVars, worldVars,
                TypeOK, StoreTypeOK
  <2> QED
    BY <2>1, <2>2
<1> QED
  BY <1>1, <1>2, PTL DEF Spec

-----------------------------------------------------------------------------
(* At most one turn *)

OneTurnInv == TypeOK /\ TurnBarrier /\ AtMostOneTurn

\* Steps that move no mark, lease, cursor or prompt, and bring no worker past
\* begin-turn, cannot disturb the barrier.
LEMMA QuietStep ==
  ASSUME OneTurnInv,
         UNCHANGED <<cursor, turnEvent, leaseEvent, prompts>>,
         \A q \in Process : PastMark(q)' => PastMark(q) /\ ev'[q] = ev[q]
  PROVE  TurnBarrier' /\ AtMostOneTurn'
BY DEF OneTurnInv, TurnBarrier, AtMostOneTurn, ClosedOrMarked

\* The event of a fenced script is the one after the cursor.
LEMMA WorkIsNext ==
  ASSUME OneTurnInv, NEW ap, NEW k, NEW e, Work(ap, k, e)
  PROVE  e \in Event /\ e = cursor + 1
BY DEF OneTurnInv, TypeOK, StoreTypeOK, TurnBarrier, Work, Event

\* begin-turn: the first worker past the mark, for an event never prompted.
LEMMA BeginTurnKeeps ==
  ASSUME OneTurnInv, NEW p \in Process, BeginTurn(p)
  PROVE  TurnBarrier' /\ AtMostOneTurn'
<1>1. ev[p] \in Event /\ ev[p] = cursor + 1
  BY WorkIsNext DEF BeginTurn, BeginTurnMark
<1>2. /\ turnEvent = 0 /\ turnEvent' = ev[p]
      /\ UNCHANGED <<cursor, leaseEvent, prompts, ev>>
      /\ pc' = [pc EXCEPT ![p] = "begun"]
  BY DEF BeginTurn, BeginTurnMark, Goto, leaseVars, worldVars
<1>3. cursor \in Event \cup {0} /\ cursor \in Int /\ pc \in [Process -> Step]
  BY DEF OneTurnInv, TypeOK, StoreTypeOK, Event
<1>4. ~ClosedOrMarked(ev[p])
  BY <1>1, <1>2, <1>3 DEF ClosedOrMarked, Event
<1>5. prompts[ev[p]] = 0
  BY <1>1, <1>4 DEF OneTurnInv, TurnBarrier, TypeOK
<1>6. \A q \in Process : PastMark(q) => ev[q] # ev[p]
  BY <1>4 DEF OneTurnInv, TurnBarrier
<1>7. \A e \in Event : ClosedOrMarked(e) => ClosedOrMarked(e)'
  BY <1>2, <1>3 DEF ClosedOrMarked, Event
<1>8. ClosedOrMarked(ev[p])'
  BY <1>2 DEF ClosedOrMarked
<1>9. \A q \in Process : PastMark(q)' => q = p \/ PastMark(q)
  BY <1>2, <1>3 DEF PastMark
<1>10. leaseEvent' \in {0, (cursor + 1)'} /\ turnEvent' \in {0, (cursor + 1)'}
  BY <1>1, <1>2 DEF OneTurnInv, TurnBarrier
<1>11. \A e \in Event : prompts'[e] > 0 => ClosedOrMarked(e)'
  BY <1>2, <1>7 DEF OneTurnInv, TurnBarrier
<1>12. ASSUME NEW q \in Process, PastMark(q)'
       PROVE  ev'[q] \in Event /\ ClosedOrMarked(ev[q])' /\ prompts'[ev'[q]] = 0
  <2>1. CASE q = p
    BY <1>1, <1>2, <1>5, <1>8, <2>1
  <2>2. CASE PastMark(q)
    BY <1>2, <1>7, <2>2 DEF OneTurnInv, TurnBarrier
  <2> QED
    BY <1>9, <1>12, <2>1, <2>2
<1>13. \A q, r \in Process : PastMark(q)' /\ PastMark(r)' /\ ev'[q] = ev'[r] => q = r
  BY <1>2, <1>6, <1>9 DEF OneTurnInv, TurnBarrier
<1>14. AtMostOneTurn'
  BY <1>2 DEF OneTurnInv, AtMostOneTurn
<1> QED
  BY <1>10, <1>11, <1>12, <1>13, <1>14 DEF TurnBarrier

\* The prompt itself: its event becomes a prompted one, and no other worker
\* past the mark holds it.
LEMMA PromptKeeps ==
  ASSUME OneTurnInv, NEW p \in Process, Prompt(p)
  PROVE  TurnBarrier' /\ AtMostOneTurn'
<1>1. /\ PastMark(p) /\ UNCHANGED <<cursor, turnEvent, leaseEvent, ev>>
      /\ prompts' = [prompts EXCEPT ![ev[p]] = @ + 1]
      /\ pc' = [pc EXCEPT ![p] = "turn"]
  BY DEF Prompt, PastMark, Goto, storeVars, stateVars, leaseVars
<1>2. ev[p] \in Event /\ ClosedOrMarked(ev[p]) /\ prompts[ev[p]] = 0
  BY <1>1 DEF OneTurnInv, TurnBarrier
<1>3. prompts \in [Event -> Nat] /\ pc \in [Process -> Step]
  BY DEF OneTurnInv, TypeOK
<1>4. /\ prompts'[ev[p]] = 1
      /\ \A e \in Event : e # ev[p] => prompts'[e] = prompts[e]
  BY <1>1, <1>2, <1>3
<1>5. \A q \in Process : PastMark(q)' => PastMark(q) /\ ev[q] # ev[p]
  BY <1>1, <1>3 DEF PastMark, OneTurnInv, TurnBarrier
<1>6. \A x : ClosedOrMarked(x)' <=> ClosedOrMarked(x)
  BY <1>1 DEF ClosedOrMarked
<1> QED
  BY <1>1, <1>2, <1>4, <1>5, <1>6 DEF OneTurnInv, TurnBarrier, AtMostOneTurn

\* complete: the cursor takes over from the mark.
LEMMA CompleteKeeps ==
  ASSUME OneTurnInv, NEW p \in Process, Complete(p)
  PROVE  TurnBarrier' /\ AtMostOneTurn'
<1>1. ev[p] \in Event /\ ev[p] = cursor + 1
  BY WorkIsNext DEF Complete, CompleteEvent
<1>2. /\ cursor' = ev[p] /\ leaseEvent' = 0 /\ turnEvent' = 0 /\ UNCHANGED prompts
      /\ pc' = [pc EXCEPT ![p] = "idle"] /\ ev' = [ev EXCEPT ![p] = 0]
  BY DEF Complete, CompleteEvent, Return, worldVars
<1>3. /\ cursor \in Event \cup {0} /\ turnEvent \in {0, cursor + 1}
      /\ pc \in [Process -> Step] /\ ev \in [Process -> Event \cup {0}]
  BY DEF OneTurnInv, TypeOK, StoreTypeOK, TurnBarrier
<1>4. \A e \in Event : ClosedOrMarked(e) => ClosedOrMarked(e)'
  BY <1>1, <1>2, <1>3 DEF ClosedOrMarked, Event
<1>5. \A q \in Process : PastMark(q)' => PastMark(q) /\ ev'[q] = ev[q]
  BY <1>2, <1>3 DEF PastMark
<1> QED
  BY <1>2, <1>4, <1>5 DEF OneTurnInv, TurnBarrier, AtMostOneTurn

\* claim: a lease names the event after the cursor.
LEMMA ClaimKeeps ==
  ASSUME OneTurnInv, NEW p \in Process, Claim(p)
  PROVE  TurnBarrier' /\ AtMostOneTurn'
<1>1. UNCHANGED <<cursor, turnEvent, prompts>> /\ leaseEvent' \in {leaseEvent, cursor + 1}
  BY DEF Claim, ClaimUnresolved, ClaimGap, ClaimGrant, leaseVars, worldVars
<1>2. \A q \in Process : PastMark(q)' => PastMark(q) /\ ev'[q] = ev[q]
  BY DEF Claim, PastMark, Goto, workerVars, OneTurnInv, TypeOK
<1> QED
  BY <1>1, <1>2 DEF OneTurnInv, TurnBarrier, AtMostOneTurn, ClosedOrMarked

\* Every step keeps the barrier, four of them by the lemmas above.
LEMMA OneTurnStep ==
  ASSUME OneTurnInv, [Next]_vars
  PROVE  TurnBarrier' /\ AtMostOneTurn'
<1>0. pc \in [Process -> Step] /\ ev \in [Process -> Event \cup {0}]
  BY DEF OneTurnInv, TypeOK
<1> USE DEF storeVars, leaseVars, stateVars, workerVars, worldVars
<1>1. ASSUME NEW p \in Process, WorkerStep(p)
      PROVE  TurnBarrier' /\ AtMostOneTurn'
  <2>1. CASE BeginTurn(p) \/ Prompt(p) \/ Complete(p)
    BY <2>1, BeginTurnKeeps, PromptKeeps, CompleteKeeps
  <2>2. CASE Start(p) \/ Lookup(p) \/ Classify(p) \/ Open(p) \/ PromptGate(p)
    BY <1>0, <2>2, QuietStep
       DEF Start, Lookup, Classify, Open, Bind, PromptGate, Require, Throw, Goto, PastMark
  <2>3. ASSUME NEW n \in 1..MaxSends, Dispatch(p, n) \/ Confirm(p, n) \/ NotConfirmed(p, n)
        PROVE  TurnBarrier' /\ AtMostOneTurn'
    BY <1>0, <2>3, QuietStep
       DEF Dispatch, Confirm, NotConfirmed, JournalConfirm, JournalUncertain, Goto, PastMark
  <2>4. CASE HookFails(p) \/ Settle(p) \/ AbortSettles(p)
    BY <1>0, <2>4, QuietStep DEF HookFails, Settle, AbortSettles, Require, Throw, Goto, PastMark
  <2>5. CASE AppendGate(p) \/ WriteMarker(p) \/ SyncMarker(p)
    BY <1>0, <2>5, QuietStep
       DEF AppendGate, WriteMarker, SyncMarker, Require, Throw, Goto, PastMark
  <2>6. CASE CompleteFails(p) \/ Pause(p) \/ GateLost(p)
    BY <1>0, <2>6, QuietStep
       DEF CompleteFails, Pause, SetPause, GateLost, Return, Throw, Goto, PastMark
  <2> QED
    BY <1>1, <2>1, <2>2, <2>3, <2>4, <2>5, <2>6 DEF WorkerStep
<1>2. ASSUME NEW p \in Process, AgentStep(p)
      PROVE  TurnBarrier' /\ AtMostOneTurn'
  BY <1>0, <1>2, QuietStep
     DEF AgentStep, PreparationFails, PromptFails, PromptLeavesCalls, BeginSend,
         JournalBegin, JournalUncertain, Throw, Goto, PastMark
<1>3. ASSUME NEW p \in Process,
             Acquire(p) \/ LoseApp(p) \/ Drain(p) \/ FailClosed(p) \/ Crash(p)
      PROVE  TurnBarrier' /\ AtMostOneTurn'
  BY <1>0, <1>3, QuietStep
     DEF Acquire, AppAcquire, LoseApp, Drain, AppRelease, FailClosed, Crash, Return, PastMark
<1>4. CASE (\E e \in Event : Admit(e)) \/ (\E a \in Send : Deliver(a) \/ DropSend(a))
  BY <1>4, QuietStep DEF Admit, Accept, Deliver, DropSend, PastMark
<1>5. CASE ExpireApp \/ ExpireLease \/ GapTimer
  BY <1>5, QuietStep
     DEF ExpireApp, AppExpires, ExpireLease, LeaseExpires, GapTimer, GapElapses, PastMark
<1>6. CASE HostCrash
  BY <1>6, QuietStep DEF HostCrash, PastMark
<1>7. CASE UNCHANGED vars
  BY <1>7, QuietStep DEF vars, PastMark
<1> QED
  BY <1>1, <1>2, <1>3, <1>4, <1>5, <1>6, <1>7, ClaimKeeps DEF Next

\* The agent is prompted with an event at most once, for any number of
\* processes, events and faults: the inductive invariant is the barrier.
THEOREM PromptedAtMostOnce == Spec => [](AtMostOneTurn /\ TurnBarrier)
<1>1. Init => TurnBarrier /\ AtMostOneTurn
  BY DEF Init, StoreInit, TurnBarrier, AtMostOneTurn, PastMark, ClosedOrMarked
<1>2. TypeOK /\ TypeOK' /\ TurnBarrier /\ AtMostOneTurn /\ [Next]_vars
        => TurnBarrier' /\ AtMostOneTurn'
  BY OneTurnStep DEF OneTurnInv
<1> QED
  BY <1>1, <1>2, TypeCorrect, PTL DEF Spec
=============================================================================
