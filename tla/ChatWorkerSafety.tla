-------------------------- MODULE ChatWorkerSafety --------------------------
(***************************************************************************)
(* Theorems about ChatWorker, for every value of its constants: what its   *)
(* journal, its markers and its pauses promise, and that it implements     *)
(* TurnLedger.                                                             *)
(***************************************************************************)
EXTENDS ChatWorkerProofs

-----------------------------------------------------------------------------
(* The inductive invariant, beside TurnBarrier *)

\* The fence of p's scripts.
Owner(p) == Work(ep[p], ce[p], ev[p])

\* Why: every grant has an epoch of its own, so at most one worker passes the
\* fence, and who has lost it never gets it back.
Fences ==
  /\ leaseApp <= appEpoch /\ leaseEvent \in admitted \cup {0}
  /\ \A p \in Process :
       /\ ep[p] <= appEpoch
       /\ pc[p] = "idle" => ev[p] = 0 /\ ce[p] = 0
       /\ pc[p] # "idle" => ev[p] \in Event /\ ce[p] \in 1..leaseEpoch
  /\ \A p, q \in Process : pc[p] # "idle" /\ ce[p] = ce[q] => p = q

\* Why: whoever pauses the chat holds the fence and is past its last script, or
\* found that nobody passes the fence any more.
PausedOwner == pause # "none" => \A p \in Process : Owner(p) => pc[p] \in {"abort", "catch"}

\* A worker from begin-turn to its marker; an own echo gets its marker without.
HasTurn(p) ==
  pc[p] \in {"begun", "prompt", "turn", "abort"} \/ (pc[p] \in {"append", "write"} /\ Echo[ev[p]] = NoSend)

\* Why: the mark names the one event that has a turn, and no marker of it is
\* written before its turn is over.
Turns ==
  /\ \A p \in Process :
       /\ HasTurn(p) => turnEvent = ev[p] /\ Echo[ev[p]] = NoSend /\ markers[ev[p]] = 0
       /\ PastMark(p) => Recorded = {}
       /\ pc[p] \in {"turn", "abort"} => prompts[ev[p]] > 0
  /\ \A p, q \in Process : HasTurn(p) /\ HasTurn(q) => p = q
  /\ \A e \in Event : Echo[e] = NoSend /\ markers[e] > 0 => ClosedOrMarked(e)
  /\ \A a \in Recorded : a[1] = turnEvent /\ prompts[a[1]] > 0

\* Why: own echoes leave the path to the agent when they are classified.
Echoes ==
  /\ \A e \in admitted : Echo[e] # NoSend => Echo[e] \in sent
  /\ \A p \in Process :
       /\ pc[p] = "open" => (context[p] <=> Echo[ev[p]] # NoSend)
       /\ pc[p] = "prepare" => Echo[ev[p]] = NoSend

\* Why: a call of the owner is in the journal and leaves once; what the journal
\* calls confirmed was sent.
Calls ==
  /\ inflight \cap sent = {}
  /\ \A a \in Send : tools[a] = "confirmed" => a \in sent
  /\ \A p \in Process :
       /\ pc[p] \in {"idle", "start", "lookup", "classify", "open", "prepare", "begun", "prompt"}
            => call[p] = NoCalls
       /\ pc[p] = "turn" /\ Owner(p) =>
            \A n \in 1..MaxSends : call[p][n] # "none" =>
              /\ tools[<<ev[p], n>>] = "attempting"
              /\ call[p][n] = "begun" => <<ev[p], n>> \notin inflight \cup sent

\* Why: a marker names only sends, and what is known to be on disk is there.
Files ==
  /\ \A p \in Process : pc[p] = "write" => conf[p] \subseteq sent \cap SendsOf(ev[p])
  /\ \A e \in Event : named[e] \subseteq sent \cap SendsOf(e) /\ synced[e] <= markers[e]

-----------------------------------------------------------------------------
(* What a step may change *)

\* The variables of q's worker do not change.
Stays(q) ==
  /\ pc'[q] = pc[q] /\ ev'[q] = ev[q] /\ ce'[q] = ce[q] /\ ep'[q] = ep[q]
  /\ context'[q] = context[q] /\ call'[q] = call[q] /\ conf'[q] = conf[q]

\* p's worker is over.
Returned(p) == pc'[p] = "idle" /\ ev'[p] = 0 /\ ce'[p] = 0 /\ call'[p] = NoCalls

\* A step of p's worker leaves the workers of others alone, and its own lease
\* until it returns.
LEMMA Moves ==
  ASSUME TypeOK, NEW p \in Process, WorkerStep(p) \/ AgentStep(p)
  PROVE  /\ UNCHANGED <<appEpoch, appLive, leaseApp, leaseEpoch, ep>>
         /\ pc[p] # "idle"
         /\ \A q \in Process : q # p => Stays(q)
         /\ Returned(p) \/ (pc'[p] # "idle" /\ ev'[p] = ev[p] /\ ce'[p] = ce[p])
<1> USE DEF TypeOK, Stays, Returned, Goto, Throw, Require, Return,
            storeVars, leaseVars, stateVars, fileVars, worldVars
<1>1. CASE Start(p)
  BY <1>1 DEF Start
<1>2. CASE Lookup(p)
  BY <1>2 DEF Lookup
<1>3. CASE Classify(p)
  BY <1>3 DEF Classify
<1>4. CASE Open(p)
  BY <1>4 DEF Open, Bind
<1>5. CASE BeginTurn(p)
  BY <1>5 DEF BeginTurn, BeginTurnMark
<1>6. CASE PromptGate(p)
  BY <1>6 DEF PromptGate
<1>7. CASE Prompt(p)
  BY <1>7 DEF Prompt
<1>8. ASSUME NEW n \in 1..MaxSends, Dispatch(p, n) \/ Confirm(p, n) \/ NotConfirmed(p, n)
             \/ BeginSend(p, n)
      PROVE  /\ UNCHANGED <<appEpoch, appLive, leaseApp, leaseEpoch, ep>>
             /\ pc[p] # "idle"
             /\ \A q \in Process : q # p => Stays(q)
             /\ pc'[p] # "idle" /\ ev'[p] = ev[p] /\ ce'[p] = ce[p]
  BY <1>8 DEF Dispatch, Confirm, NotConfirmed, BeginSend, JournalBegin, JournalConfirm,
              JournalUncertain
<1>9. CASE HookFails(p) \/ AbortSettles(p)
  BY <1>9 DEF HookFails, AbortSettles
<1>10. CASE Settle(p)
  BY <1>10 DEF Settle
<1>11. CASE AppendGate(p)
  BY <1>11 DEF AppendGate
<1>12. CASE WriteMarker(p)
  BY <1>12 DEF WriteMarker
<1>13. CASE SyncMarker(p)
  BY <1>13 DEF SyncMarker
<1>14. CASE Complete(p)
  BY <1>14 DEF Complete, CompleteEvent
<1>15. CASE CompleteFails(p)
  BY <1>15 DEF CompleteFails
<1>16. CASE Pause(p)
  BY <1>16 DEF Pause, SetPause
<1>17. CASE GateLost(p)
  BY <1>17 DEF GateLost
<1>18. CASE PreparationFails(p) \/ PromptFails(p)
  BY <1>18 DEF PreparationFails, PromptFails
<1>19. CASE PromptLeavesCalls(p)
  BY <1>19 DEF PromptLeavesCalls, JournalUncertain
<1> QED
  BY <1>1, <1>2, <1>3, <1>4, <1>5, <1>6, <1>7, <1>8, <1>9, <1>10, <1>11, <1>12, <1>13,
     <1>14, <1>15, <1>16, <1>17, <1>18, <1>19 DEF WorkerStep, AgentStep

\* The coordinator of p leaves the workers of others alone, too.
LEMMA CoordinatorMoves ==
  ASSUME TypeOK, NEW p \in Process,
         Acquire(p) \/ Claim(p) \/ LoseApp(p) \/ Drain(p) \/ FailClosed(p) \/ Crash(p)
  PROVE  \A q \in Process : q # p => Stays(q)
BY DEF TypeOK, Acquire, Claim, LoseApp, Drain, FailClosed, Crash, Stays, Goto, Return, workerVars

-----------------------------------------------------------------------------
(* The fence *)

\* At most one worker passes the fence, with the event after the cursor.
LEMMA OneOwner ==
  ASSUME TypeOK, TurnBarrier, Fences, NEW p \in Process, Owner(p)
  PROVE  /\ pc[p] # "idle" /\ ev[p] \in Event /\ ev[p] = cursor + 1
         /\ ce[p] = leaseEpoch /\ leaseEvent = ev[p]
         /\ \A q \in Process : Owner(q) => q = p
<1>1. ev[p] \in Event /\ leaseEvent = ev[p] /\ ce[p] = leaseEpoch /\ ev[p] # 0
  BY DEF Owner, Work, TypeOK, StoreTypeOK, Event
<1>2. pc[p] # "idle"
  BY <1>1 DEF Fences
<1>3. ev[p] = cursor + 1
  BY <1>1 DEF TurnBarrier
<1>4. \A q \in Process : Owner(q) => ce[q] = ce[p]
  BY <1>1 DEF Owner, Work
<1> QED
  BY <1>1, <1>2, <1>3, <1>4 DEF Fences

\* Every step keeps the fences.
LEMMA FencesKept ==
  ASSUME TypeOK, TurnBarrier, Fences, [Next]_vars
  PROVE  Fences'
<1>0. /\ appEpoch \in Nat /\ leaseApp \in Nat /\ leaseEpoch \in Nat /\ leaseEvent \in Event \cup {0}
      /\ ep \in [Process -> Nat] /\ pc \in [Process -> Step] /\ ev \in [Process -> Event \cup {0}]
      /\ ce \in [Process -> Nat] /\ admitted \subseteq Event /\ cursor \in Nat
  BY DEF TypeOK, StoreTypeOK, Event
<1> DEFINE Local(q) == /\ pc'[q] = "idle" => ev'[q] = 0 /\ ce'[q] = 0
                       /\ pc'[q] # "idle" => pc[q] # "idle" /\ ev'[q] = ev[q] /\ ce'[q] = ce[q]
\* Steps that grant nothing.
<1>1. ASSUME UNCHANGED <<appEpoch, leaseApp, leaseEpoch, ep>>,
             leaseEvent' \in admitted' \cup {0}, \A q \in Process : Local(q)
      PROVE  Fences'
  BY <1>0, <1>1 DEF Fences
<1>2. ASSUME NEW p \in Process, WorkerStep(p) \/ AgentStep(p)
      PROVE  Fences'
  <2>1. \A q \in Process : Local(q)
    BY <1>2, Moves DEF Stays, Returned, Fences
  <2>2. leaseEvent' \in admitted' \cup {0}
    <3>1. CASE Complete(p)
      BY <3>1 DEF Complete, CompleteEvent
    <3>2. CASE ~Complete(p)
      <4>1. UNCHANGED <<leaseEvent, admitted>>
        BY <1>2, <3>2 DEF WorkerStep, AgentStep, Start, Lookup, Classify, Open, Bind,
              BeginTurn, BeginTurnMark, PromptGate, Prompt, Dispatch, Confirm, JournalConfirm,
              NotConfirmed, JournalUncertain, HookFails, Settle, AbortSettles, AppendGate,
              WriteMarker, SyncMarker, CompleteFails, Pause, SetPause, GateLost,
              PreparationFails, PromptFails, PromptLeavesCalls, BeginSend, JournalBegin,
              storeVars, leaseVars
      <4> QED
        BY <4>1 DEF Fences
    <3> QED
      BY <3>1, <3>2
  <2> QED
    BY <1>1, <1>2, <2>1, <2>2, Moves
<1>3. ASSUME NEW p \in Process, Acquire(p)
      PROVE  Fences'
  <2>1. /\ appEpoch' = appEpoch + 1 /\ ep' = [ep EXCEPT ![p] = appEpoch + 1]
        /\ UNCHANGED <<leaseApp, leaseEvent, leaseEpoch, admitted, pc, ev, ce>>
    BY <1>3 DEF Acquire, AppAcquire, leaseVars
  <2> QED
    BY <1>0, <2>1 DEF Fences
<1>4. ASSUME NEW p \in Process, Claim(p)
      PROVE  Fences'
  <2>1. CASE UNCHANGED workerVars
    <3>1. CASE ClaimUnresolved(ep[p]) \/ ClaimGap(ep[p])
      BY <2>1, <3>1 DEF Fences, ClaimUnresolved, ClaimGap, leaseVars, workerVars
    <3>2. CASE Goto(p, "start")
      BY <1>0, <1>4, <2>1, <3>2 DEF Claim, Goto, workerVars, Step
    <3> QED
      BY <1>4, <3>1, <3>2 DEF Claim
  <2>2. CASE /\ ClaimGrant(ep[p]) /\ Goto(p, "start")
             /\ ev' = [ev EXCEPT ![p] = cursor + 1] /\ ce' = [ce EXCEPT ![p] = leaseEpoch + 1]
             /\ UNCHANGED ep
    <3>1. /\ appEpoch = ep[p] /\ UNCHANGED <<appEpoch, admitted>> /\ leaseApp' = ep[p]
          /\ leaseEpoch' = leaseEpoch + 1 /\ leaseEvent' = cursor + 1 /\ cursor + 1 \in admitted
          /\ pc[p] = "idle" /\ pc' = [pc EXCEPT ![p] = "start"]
      BY <1>4, <2>2 DEF Claim, ClaimGrant, MayClaim, AppAlive, Goto
    <3>2. \A q \in Process : q # p => pc'[q] = pc[q] /\ ev'[q] = ev[q] /\ ce'[q] = ce[q]
      BY <1>0, <2>2, <3>1
    <3>3. pc'[p] = "start" /\ ev'[p] = cursor + 1 /\ ce'[p] = leaseEpoch + 1
      BY <1>0, <2>2, <3>1
    <3>4. \A q \in Process : q # p => ce'[q] # ce'[p]
      BY <1>0, <3>2, <3>3 DEF Fences
    <3>5. \A q \in Process :
            /\ ep'[q] <= appEpoch'
            /\ pc'[q] = "idle" => ev'[q] = 0 /\ ce'[q] = 0
            /\ pc'[q] # "idle" => ev'[q] \in Event /\ ce'[q] \in 1..leaseEpoch'
      BY <1>0, <2>2, <3>1, <3>2, <3>3 DEF Fences
    <3>6. \A q, r \in Process : pc'[q] # "idle" /\ ce'[q] = ce'[r] => q = r
      BY <3>2, <3>3, <3>4 DEF Fences
    <3> QED
      BY <1>0, <3>1, <3>5, <3>6 DEF Fences
  <2> QED
    BY <1>4, <2>1, <2>2 DEF Claim, workerVars
<1>5. ASSUME NEW p \in Process, LoseApp(p) \/ Drain(p) \/ FailClosed(p)
      PROVE  Fences'
  BY <1>5 DEF LoseApp, Drain, AppRelease, FailClosed, Fences, storeVars, leaseVars, workerVars
<1>6. ASSUME NEW p \in Process, Crash(p)
      PROVE  Fences'
  <2>1. \A q \in Process : Local(q)
    BY <1>0, <1>6 DEF Crash, Return, Fences
  <2> QED
    BY <1>1, <1>6, <2>1 DEF Crash, Fences, storeVars, leaseVars
<1>7. CASE HostCrash
  BY <1>1, <1>7 DEF HostCrash, Fences, storeVars, leaseVars
<1>8. ASSUME NEW e \in Event, Admit(e) PROVE Fences'
  BY <1>8 DEF Admit, Accept, Fences, leaseVars, workerVars
<1>9. ASSUME NEW a \in Send, Deliver(a) \/ DropSend(a) PROVE Fences'
  BY <1>9 DEF Deliver, DropSend, Fences, storeVars, leaseVars, workerVars
<1>10. CASE ExpireApp \/ ExpireLease \/ GapTimer
  BY <1>10 DEF ExpireApp, AppExpires, ExpireLease, LeaseExpires, GapTimer, GapElapses, Fences,
               leaseVars, workerVars
<1>11. CASE UNCHANGED vars
  BY <1>11 DEF vars, Fences, storeVars, leaseVars, workerVars
<1> QED
  BY <1>2, <1>3, <1>4, <1>5, <1>6, <1>7, <1>8, <1>9, <1>10, <1>11 DEF Next

\* Who passes the fence passed it before the step with the same lease, or was
\* granted it in this step.
LEMMA OwnerBefore ==
  ASSUME TypeOK, TurnBarrier, Fences, [Next]_vars, NEW p \in Process, Owner(p)'
  PROVE  \/ Owner(p) /\ pc'[p] # "idle" /\ ev'[p] = ev[p]
         \/ pc[p] = "idle" /\ pc'[p] = "start" /\ Claim(p) /\ ClaimGrant(ep[p])
<1>0. /\ appEpoch \in Nat /\ leaseApp \in Nat /\ leaseEpoch \in Nat /\ leaseEvent \in Event \cup {0}
      /\ ep \in [Process -> Nat] /\ pc \in [Process -> Step] /\ ev \in [Process -> Event \cup {0}]
      /\ ce \in [Process -> Nat] /\ admitted \subseteq Event /\ cursor \in Nat
      /\ appLive \in BOOLEAN /\ leaseLive \in BOOLEAN
  BY DEF TypeOK, StoreTypeOK, Event
<1>a. /\ appLive' /\ appEpoch' = ep'[p] /\ leaseLive' /\ leaseEpoch' = ce'[p] /\ leaseApp' = ep'[p]
      /\ leaseEvent' = ev'[p] /\ ev'[p] \in admitted'
  BY DEF Owner, Work, AppAlive
\* Steps that give out no lease.
<1>1. ASSUME UNCHANGED <<appEpoch, leaseApp, leaseEpoch, ep>>, appLive' => appLive,
             leaseLive' => leaseLive /\ leaseEvent' = leaseEvent, admitted' \subseteq Event,
             pc'[p] # "idle" => pc[p] # "idle" /\ ev'[p] = ev[p] /\ ce'[p] = ce[p],
             pc'[p] = "idle" => ev'[p] = 0
      PROVE  Owner(p) /\ pc'[p] # "idle" /\ ev'[p] = ev[p]
  <2>1. ev'[p] # 0
    BY <1>0, <1>1, <1>a DEF Event
  <2>2. pc'[p] # "idle"
    BY <1>1, <2>1
  <2>3. leaseEvent \in admitted
    BY <1>0, <1>1, <1>a, <2>1 DEF Fences
  <2> QED
    BY <1>1, <1>a, <2>2, <2>3 DEF Owner, Work, AppAlive
<1>2. ASSUME NEW q \in Process, WorkerStep(q) \/ AgentStep(q)
      PROVE  Owner(p) /\ pc'[p] # "idle" /\ ev'[p] = ev[p]
  <2>1. /\ pc'[p] # "idle" => pc[p] # "idle" /\ ev'[p] = ev[p] /\ ce'[p] = ce[p]
        /\ pc'[p] = "idle" => ev'[p] = 0
    BY <1>2, Moves DEF Stays, Returned, Fences
  <2>2. /\ leaseLive' => leaseLive /\ leaseEvent' = leaseEvent
        /\ admitted' \subseteq Event
    <3>1. CASE Complete(q)
      BY <1>0, <3>1 DEF Complete, CompleteEvent
    <3>2. CASE ~Complete(q)
      <4>1. UNCHANGED <<leaseEvent, leaseLive, admitted>>
        BY <1>2, <3>2 DEF WorkerStep, AgentStep, Start, Lookup, Classify, Open, Bind,
              BeginTurn, BeginTurnMark, PromptGate, Prompt, Dispatch, Confirm, JournalConfirm,
              NotConfirmed, JournalUncertain, HookFails, Settle, AbortSettles, AppendGate,
              WriteMarker, SyncMarker, CompleteFails, Pause, SetPause, GateLost,
              PreparationFails, PromptFails, PromptLeavesCalls, BeginSend, JournalBegin,
              storeVars, leaseVars
      <4> QED
        BY <1>0, <4>1
    <3> QED
      BY <3>1, <3>2
  <2> QED
    BY <1>1, <1>2, <2>1, <2>2, Moves
<1>3. ASSUME NEW q \in Process, Acquire(q)
      PROVE  FALSE
  <2>1. /\ appEpoch' = appEpoch + 1 /\ leaseApp' = leaseApp
    BY <1>3 DEF Acquire, AppAcquire, leaseVars
  <2> QED
    BY <1>0, <1>a, <2>1 DEF Fences
<1>4. ASSUME NEW q \in Process, Claim(q)
      PROVE  \/ Owner(p) /\ pc'[p] # "idle" /\ ev'[p] = ev[p]
             \/ pc[p] = "idle" /\ pc'[p] = "start" /\ Claim(p) /\ ClaimGrant(ep[p])
  <2>1. CASE (ClaimUnresolved(ep[q]) \/ ClaimGap(ep[q])) /\ UNCHANGED workerVars
    <3>1. pc'[p] = pc[p] /\ ev'[p] = ev[p] /\ ce'[p] = ce[p] /\ UNCHANGED ep
      BY <2>1 DEF workerVars
    <3>2. UNCHANGED <<appEpoch, appLive, leaseVars, admitted>>
      BY <2>1 DEF ClaimUnresolved, ClaimGap
    <3> QED
      BY <1>0, <1>1, <3>1, <3>2 DEF leaseVars, Fences
  <2>2. CASE /\ ClaimGrant(ep[q]) /\ Goto(q, "start")
             /\ ev' = [ev EXCEPT ![q] = cursor + 1] /\ ce' = [ce EXCEPT ![q] = leaseEpoch + 1]
    <3>1. CASE p = q
      BY <1>0, <1>4, <2>2, <3>1 DEF Claim, Goto
    <3>2. CASE p # q
      <4>1. leaseEpoch' = leaseEpoch + 1 /\ ce'[p] = ce[p] /\ ev'[p] = ev[p] /\ UNCHANGED admitted
        BY <1>0, <2>2, <3>2 DEF ClaimGrant
      <4>2. pc[p] # "idle"
        BY <1>0, <1>a, <4>1 DEF Fences, Event
      <4>3. ce[p] \in 1..leaseEpoch
        BY <4>2 DEF Fences
      <4>4. leaseEpoch' = ce'[p]
        BY <1>a
      <4>5. FALSE
        BY <1>0, <4>1, <4>3, <4>4
      <4> QED
        BY <4>5
    <3> QED
      BY <3>1, <3>2
  <2> QED
    BY <1>4, <2>1, <2>2 DEF Claim
<1>5. ASSUME NEW q \in Process, LoseApp(q) \/ Drain(q) \/ FailClosed(q)
      PROVE  Owner(p) /\ pc'[p] # "idle" /\ ev'[p] = ev[p]
  BY <1>0, <1>1, <1>5
     DEF LoseApp, Drain, AppRelease, FailClosed, Fences, storeVars, leaseVars, workerVars
<1>6. ASSUME NEW q \in Process, Crash(q)
      PROVE  Owner(p) /\ pc'[p] # "idle" /\ ev'[p] = ev[p]
  BY <1>0, <1>1, <1>6 DEF Crash, Return, Fences, storeVars, leaseVars
<1>7. CASE HostCrash
  BY <1>0, <1>1, <1>7 DEF HostCrash, storeVars, leaseVars
<1>8. ASSUME NEW e \in Event, Admit(e)
      PROVE  Owner(p) /\ pc'[p] # "idle" /\ ev'[p] = ev[p]
  BY <1>0, <1>1, <1>8 DEF Admit, Accept, Fences, leaseVars, workerVars
<1>9. ASSUME NEW a \in Send, Deliver(a) \/ DropSend(a)
      PROVE  Owner(p) /\ pc'[p] # "idle" /\ ev'[p] = ev[p]
  BY <1>0, <1>1, <1>9 DEF Deliver, DropSend, Fences, storeVars, leaseVars, workerVars
<1>10. CASE ExpireApp \/ ExpireLease \/ GapTimer
  BY <1>0, <1>1, <1>10
     DEF ExpireApp, AppExpires, ExpireLease, LeaseExpires, GapTimer, GapElapses, Fences,
         leaseVars, workerVars
<1>11. CASE UNCHANGED vars
  BY <1>0, <1>1, <1>11 DEF vars, Fences, storeVars, leaseVars, workerVars
<1> QED
  BY <1>2, <1>3, <1>4, <1>5, <1>6, <1>7, <1>8, <1>9, <1>10, <1>11 DEF Next

\* What a step of p's own worker may do to the pause.
LEMMA PauseOf ==
  ASSUME TypeOK, NEW p \in Process, WorkerStep(p) \/ AgentStep(p)
  PROVE  \/ UNCHANGED pause
         \/ Owner(p) /\ pc'[p] \in {"abort", "catch", "idle"}
BY DEF WorkerStep, AgentStep, Start, Lookup, Classify, Open, Bind,
       BeginTurn, BeginTurnMark, PromptGate, Prompt, Dispatch, Confirm, JournalConfirm,
       NotConfirmed, JournalUncertain, HookFails, Settle, AbortSettles, AppendGate,
       WriteMarker, SyncMarker, Complete, CompleteEvent, CompleteFails, Pause, SetPause, GateLost,
       PreparationFails, PromptFails, PromptLeavesCalls, BeginSend, JournalBegin,
       storeVars, stateVars, Owner, Goto, Throw, Return, TypeOK

\* A worker on its way out stays on it.
LEMMA OutStaysOut ==
  ASSUME TypeOK, NEW p \in Process, WorkerStep(p) \/ AgentStep(p), pc[p] \in {"abort", "catch"}
  PROVE  pc'[p] \in {"catch", "idle"}
BY DEF WorkerStep, AgentStep, Start, Lookup, Classify, Open, BeginTurn, PromptGate, Prompt,
       Dispatch, Confirm, NotConfirmed, HookFails, Settle, AbortSettles, AppendGate,
       WriteMarker, SyncMarker, Complete, CompleteFails, Pause, GateLost,
       PreparationFails, PromptFails, PromptLeavesCalls, BeginSend,
       Goto, Throw, Return, TypeOK

\* Every step keeps the owner of a paused chat on its way out.
LEMMA PausedOwnerKept ==
  ASSUME TypeOK, TurnBarrier, Fences, PausedOwner, [Next]_vars
  PROVE  PausedOwner'
<1> SUFFICES ASSUME pause' # "none", NEW p \in Process, Owner(p)'
             PROVE  pc'[p] \in {"abort", "catch"}
  BY DEF PausedOwner, Owner
<1>0. ~ClaimGrant(ep[p])
  BY DEF ClaimGrant, MayClaim
<1>1. Owner(p) /\ pc'[p] # "idle"
  BY <1>0, OwnerBefore
<1>2. ASSUME NEW q \in Process, WorkerStep(q) \/ AgentStep(q)
      PROVE  pc'[p] \in {"abort", "catch"}
  <2>1. CASE pause # "none"
    <3>1. pc[p] \in {"abort", "catch"}
      BY <1>1, <2>1 DEF PausedOwner
    <3>2. CASE q = p
      BY <1>1, <1>2, <3>1, <3>2, OutStaysOut
    <3>3. CASE q # p
      BY <1>2, <3>1, <3>3, Moves DEF Stays
    <3> QED
      BY <3>2, <3>3
  <2>2. CASE pause = "none"
    <3>1. Owner(q) /\ pc'[q] \in {"abort", "catch", "idle"}
      BY <1>2, <2>2, PauseOf
    <3> QED
      BY <1>1, <3>1, OneOwner
  <2> QED
    BY <2>1, <2>2
<1>3. ASSUME NEW q \in Process, Claim(q)
      PROVE  pc'[p] \in {"abort", "catch"}
  <2>1. MayClaim(ep[q])
    BY <1>3 DEF Claim, ClaimUnresolved, ClaimGap, ClaimGrant
  <2>2. ~Owner(p)
    BY <2>1 DEF MayClaim, AppAlive, Owner, Work
  <2> QED
    BY <1>1, <2>2
<1>4. ASSUME UNCHANGED pause, pc'[p] = pc[p] \/ pc'[p] = "idle"
      PROVE  pc'[p] \in {"abort", "catch"}
  BY <1>1, <1>4 DEF PausedOwner
<1>5. ASSUME NEW q \in Process,
             Acquire(q) \/ LoseApp(q) \/ Drain(q) \/ FailClosed(q) \/ Crash(q)
      PROVE  UNCHANGED pause /\ (pc'[p] = pc[p] \/ pc'[p] = "idle")
  BY <1>5 DEF Acquire, AppAcquire, LoseApp, Drain, AppRelease, FailClosed, Crash, Return,
              storeVars, stateVars, workerVars, TypeOK
<1>6. ASSUME NEW e \in Event, Admit(e) PROVE UNCHANGED <<pause, pc>>
  BY <1>6 DEF Admit, Accept, stateVars, workerVars
<1>7. ASSUME NEW a \in Send, Deliver(a) \/ DropSend(a) PROVE UNCHANGED <<pause, pc>>
  BY <1>7 DEF Deliver, DropSend, storeVars, stateVars, workerVars
<1>8. ExpireApp \/ ExpireLease \/ GapTimer \/ UNCHANGED vars => UNCHANGED <<pause, pc>>
  BY DEF ExpireApp, AppExpires, ExpireLease, LeaseExpires, GapTimer, GapElapses, vars,
         storeVars, stateVars, workerVars
<1>9. HostCrash => UNCHANGED pause /\ pc'[p] = "idle"
  BY DEF HostCrash, storeVars, stateVars
<1> QED
  BY <1>2, <1>3, <1>4, <1>5, <1>6, <1>7, <1>8, <1>9 DEF Next

\* The leases are fenced, for any number of processes and faults.
LEMMA Fenced == Spec => [](Fences /\ PausedOwner)
<1>1. Init => Fences /\ PausedOwner
  BY DEF Init, StoreInit, Fences, PausedOwner
<1>2. TypeOK /\ TurnBarrier /\ Fences /\ PausedOwner /\ [Next]_vars => Fences' /\ PausedOwner'
  BY FencesKept, PausedOwnerKept
<1> QED
  BY <1>1, <1>2, TypeCorrect, PromptedAtMostOnce, PTL DEF Spec

\* In a paused chat nobody completes an event, begins a turn or is granted the
\* chat, a stale worker included, though begin-turn and complete look at no pause.
THEOREM PauseHolds == Spec => PausedChatIsFrozen
<1>1. ASSUME TypeOK, PausedOwner, [Next]_vars, pause # "none"
      PROVE  UNCHANGED <<cursor, turnEvent, leaseEpoch>>
  <2>1. ASSUME NEW p \in Process, WorkerStep(p) \/ AgentStep(p)
        PROVE  UNCHANGED <<cursor, turnEvent, leaseEpoch>>
    <3>1. ~BeginTurn(p) /\ ~Complete(p)
      BY <1>1 DEF PausedOwner, BeginTurn, BeginTurnMark, Complete, CompleteEvent, Owner
    <3> QED
      BY <2>1, <3>1 DEF WorkerStep, AgentStep, Start, Lookup, Classify, Open, Bind,
         PromptGate, Prompt, Dispatch, Confirm, JournalConfirm,
         NotConfirmed, JournalUncertain, HookFails, Settle, AbortSettles, AppendGate,
         WriteMarker, SyncMarker, CompleteFails, Pause, SetPause, GateLost,
         PreparationFails, PromptFails, PromptLeavesCalls, BeginSend, JournalBegin,
         storeVars, stateVars, leaseVars
  <2>2. ASSUME NEW p \in Process,
               Acquire(p) \/ Claim(p) \/ LoseApp(p) \/ Drain(p) \/ FailClosed(p) \/ Crash(p)
        PROVE  UNCHANGED <<cursor, turnEvent, leaseEpoch>>
    BY <1>1, <2>2 DEF Acquire, AppAcquire, Claim, ClaimUnresolved, ClaimGap, ClaimGrant, MayClaim,
       LoseApp, Drain, AppRelease, FailClosed, Crash, storeVars, stateVars, leaseVars
  <2>3. ASSUME \/ \E e \in Event : Admit(e)
               \/ \E a \in Send : Deliver(a) \/ DropSend(a)
               \/ ExpireApp \/ ExpireLease \/ GapTimer \/ HostCrash \/ UNCHANGED vars
        PROVE  UNCHANGED <<cursor, turnEvent, leaseEpoch>>
    BY <2>3 DEF Admit, Accept, Deliver, DropSend, ExpireApp, AppExpires, ExpireLease,
       LeaseExpires, GapTimer, GapElapses, HostCrash, vars, storeVars, stateVars, leaseVars
  <2> QED
    BY <1>1, <2>1, <2>2, <2>3 DEF Next
<1>2. TypeOK /\ PausedOwner /\ [Next]_vars
        => [pause # "none" => UNCHANGED <<cursor, turnEvent, leaseEpoch>>]_vars
  BY <1>1
<1> QED
  BY <1>2, TypeCorrect, Fenced, PTL DEF Spec, PausedChatIsFrozen


-----------------------------------------------------------------------------
(* Turns *)

\* The inductive invariant of the chat.
ChatInv ==
  /\ TypeOK /\ TurnBarrier /\ AtMostOneTurn
  /\ Fences /\ PausedOwner /\ Turns /\ Echoes /\ Calls /\ Files
  /\ SendsAccounted /\ CompletedIsDurable

\* A step that brings nobody closer to the agent, and adds neither a record to
\* the journal nor a marker to the file, leaves the turns as they are.
LEMMA QuietTurns ==
  ASSUME TypeOK, Turns, UNCHANGED <<cursor, turnEvent, prompts>>,
         \A e \in Event : markers'[e] > 0 => markers[e] > 0,
         \A e \in Event : markers[e] = 0 => markers'[e] = 0,
         Recorded' \subseteq Recorded,
         \A q \in Process : /\ HasTurn(q)' => HasTurn(q) /\ ev'[q] = ev[q] /\ ev[q] \in Event
                            /\ PastMark(q)' => PastMark(q)
                            /\ pc'[q] \in {"turn", "abort"} => pc[q] \in {"turn", "abort"}
  PROVE  Turns'
<1>1. \A q \in Process :
        /\ HasTurn(q)' => turnEvent' = ev'[q] /\ Echo[ev'[q]] = NoSend /\ markers'[ev'[q]] = 0
        /\ PastMark(q)' => Recorded' = {}
        /\ pc'[q] \in {"turn", "abort"} => prompts'[ev'[q]] > 0
  <2> SUFFICES ASSUME NEW q \in Process
               PROVE  /\ HasTurn(q)' => turnEvent' = ev'[q] /\ Echo[ev'[q]] = NoSend /\ markers'[ev'[q]] = 0
                      /\ PastMark(q)' => Recorded' = {}
                      /\ pc'[q] \in {"turn", "abort"} => prompts'[ev'[q]] > 0
    OBVIOUS
  <2>1. HasTurn(q)' => turnEvent' = ev'[q] /\ Echo[ev'[q]] = NoSend /\ markers'[ev'[q]] = 0
    BY DEF Turns
  <2>2. PastMark(q)' => Recorded' = {}
    BY DEF Turns
  <2>3. pc'[q] \in {"turn", "abort"} => HasTurn(q)'
    BY DEF HasTurn
  <2>4. pc'[q] \in {"turn", "abort"} => prompts'[ev'[q]] > 0
    BY <2>3 DEF Turns
  <2> QED
    BY <2>1, <2>2, <2>4
<1>2. \A q, r \in Process : HasTurn(q)' /\ HasTurn(r)' => q = r
  BY DEF Turns
<1>3. \A e \in Event : Echo[e] = NoSend /\ markers'[e] > 0 => ClosedOrMarked(e)'
  BY DEF Turns, ClosedOrMarked
<1>4. \A a \in Recorded' : a[1] = turnEvent' /\ prompts'[a[1]] > 0
  BY DEF Turns
<1> QED
  BY <1>1, <1>2, <1>3, <1>4 DEF Turns

\* begin-turn: the first and only worker in a turn, with an empty journal.
LEMMA BeginTurnTurns ==
  ASSUME ChatInv, NEW p \in Process, BeginTurn(p)
  PROVE  Turns'
<1>0. /\ pc \in [Process -> Step] /\ ev \in [Process -> Event \cup {0}]
      /\ cursor \in Nat /\ prompts \in [Event -> Nat] /\ Event \subseteq Nat \ {0}
      /\ markers \in [Event -> Nat]
      /\ Recorded \subseteq Send /\ \A a \in Send : a[1] \in Event
  BY DEF ChatInv, TypeOK, StoreTypeOK, Event, Send, Recorded
<1>1. /\ Owner(p) /\ turnEvent = 0 /\ turnEvent' = ev[p] /\ pc[p] = "prepare"
      /\ pc' = [pc EXCEPT ![p] = "begun"] /\ UNCHANGED <<cursor, tools, ev, markers, prompts>>
  BY DEF BeginTurn, BeginTurnMark, Owner, Goto, fileVars, worldVars
<1>2. ev[p] \in Event /\ ev[p] = cursor + 1
  BY <1>1, OneOwner DEF ChatInv
<1>3. Recorded = {} /\ Recorded' = {}
  <2>1. \A a \in Recorded : FALSE
    BY <1>0, <1>1 DEF ChatInv, Turns
  <2>2. Recorded' = Recorded
    BY <1>1 DEF Recorded
  <2> QED
    BY <2>1, <2>2
<1>4. \A q \in Process : ~HasTurn(q)
  <2> SUFFICES ASSUME NEW q \in Process, HasTurn(q) PROVE FALSE
    OBVIOUS
  <2>1. pc[q] # "idle" /\ ev[q] = 0
    BY <1>1 DEF ChatInv, Turns, HasTurn
  <2> QED
    BY <1>0, <2>1 DEF ChatInv, Fences
<1>5. ~ClosedOrMarked(ev[p])
  BY <1>0, <1>1, <1>2 DEF ClosedOrMarked
<1>6. Echo[ev[p]] = NoSend /\ markers[ev[p]] = 0
  BY <1>0, <1>1, <1>2, <1>5 DEF ChatInv, Turns, Echoes
<1>7. \A q \in Process : q # p => pc'[q] = pc[q]
  BY <1>0, <1>1
<1>8. \A q \in Process : HasTurn(q)' => q = p
  BY <1>1, <1>4, <1>7 DEF HasTurn
<1>9. pc'[p] = "begun"
  BY <1>0, <1>1
<1>10. \A e \in Event : ClosedOrMarked(e) => ClosedOrMarked(e)'
  BY <1>0, <1>1 DEF ClosedOrMarked
<1>11. \A q \in Process : pc'[q] \notin {"turn", "abort"}
  BY <1>4, <1>7, <1>9 DEF HasTurn
<1> QED
  BY <1>1, <1>3, <1>6, <1>8, <1>10, <1>11 DEF Turns, ChatInv

\* The prompt makes its event one that was given to the agent.
LEMMA PromptTurns ==
  ASSUME ChatInv, NEW p \in Process, Prompt(p)
  PROVE  Turns'
<1>0. /\ pc \in [Process -> Step] /\ ev \in [Process -> Event \cup {0}]
      /\ prompts \in [Event -> Nat]
  BY DEF ChatInv, TypeOK
<1>1. /\ pc[p] = "prompt" /\ prompts' = [prompts EXCEPT ![ev[p]] = @ + 1]
      /\ pc' = [pc EXCEPT ![p] = "turn"] /\ UNCHANGED <<cursor, turnEvent, tools, ev, markers>>
  BY DEF Prompt, Goto, storeVars, stateVars, fileVars
<1>2. ev[p] \in Event /\ HasTurn(p)
  BY <1>1 DEF ChatInv, Fences, HasTurn
<1>3. /\ pc'[p] = "turn" /\ \A q \in Process : q # p => pc'[q] = pc[q]
      /\ prompts'[ev[p]] > 0 /\ \A e \in Event : prompts[e] > 0 => prompts'[e] > 0
  BY <1>0, <1>1, <1>2
<1>4. \A q \in Process : HasTurn(q)' => HasTurn(q)
  BY <1>1, <1>2, <1>3 DEF HasTurn
<1>5. \A q \in Process : PastMark(q)' => PastMark(q)
  BY <1>3 DEF PastMark
<1>6. Recorded' = Recorded /\ \A a \in Recorded : a[1] \in Event
  BY <1>1 DEF Recorded, Send
<1>7. ASSUME NEW q \in Process, pc'[q] \in {"turn", "abort"}
      PROVE  prompts'[ev'[q]] > 0
  <2>1. CASE q = p
    BY <1>1, <1>3, <2>1
  <2>2. CASE q # p
    <3>1. pc[q] \in {"turn", "abort"} /\ ev[q] \in Event
      BY <1>3, <1>7, <2>2 DEF ChatInv, Fences
    <3> QED
      BY <1>1, <1>3, <3>1 DEF ChatInv, Turns
  <2> QED
    BY <2>1, <2>2
<1>8. \A e \in Event : ClosedOrMarked(e)' <=> ClosedOrMarked(e)
  BY <1>1 DEF ClosedOrMarked
<1> QED
  BY <1>1, <1>3, <1>4, <1>5, <1>6, <1>7, <1>8 DEF Turns, ChatInv

\* A record is made in the turn, when nobody is on the way to a prompt.
LEMMA BeginSendTurns ==
  ASSUME ChatInv, NEW p \in Process, NEW n \in 1..MaxSends, BeginSend(p, n)
  PROVE  Turns'
<1>1. /\ pc[p] = "turn" /\ turnEvent = ev[p] /\ tools' = [tools EXCEPT ![<<ev[p], n>>] = "attempting"]
      /\ UNCHANGED <<cursor, turnEvent, ev, pc, markers, prompts>>
  BY DEF BeginSend, JournalBegin, stateVars, fileVars, worldVars
<1>2. HasTurn(p) /\ prompts[ev[p]] > 0
  BY <1>1 DEF ChatInv, Turns, HasTurn
<1>3. \A a \in Recorded' : a \in Recorded \/ a = <<ev[p], n>>
  BY <1>1 DEF Recorded, ChatInv, TypeOK, StoreTypeOK
<1>4. \A q \in Process : ~PastMark(q)
  BY <1>1, <1>2 DEF ChatInv, Turns, HasTurn, PastMark
<1>5. \A q \in Process : (HasTurn(q)' <=> HasTurn(q)) /\ (PastMark(q)' <=> PastMark(q))
  BY <1>1 DEF HasTurn, PastMark
<1>6. \A e \in Event : ClosedOrMarked(e)' <=> ClosedOrMarked(e)
  BY <1>1 DEF ClosedOrMarked
<1>7. \A a \in Recorded' : a[1] = turnEvent' /\ prompts'[a[1]] > 0
  BY <1>1, <1>2, <1>3 DEF ChatInv, Turns
<1> QED
  BY <1>1, <1>4, <1>5, <1>6, <1>7 DEF Turns, ChatInv

\* The marker ends the turn of its event; a writer of an echo's has none.
LEMMA WriteMarkerTurns ==
  ASSUME ChatInv, NEW p \in Process, WriteMarker(p)
  PROVE  Turns'
<1>0. /\ pc \in [Process -> Step] /\ markers \in [Event -> Nat]
  BY DEF ChatInv, TypeOK
<1>1. /\ pc[p] = "write" /\ markers' = [markers EXCEPT ![ev[p]] = @ + 1]
      /\ pc' = [pc EXCEPT ![p] = "sync"]
      /\ UNCHANGED <<cursor, turnEvent, tools, ev, prompts>>
  BY DEF WriteMarker, Goto, storeVars, stateVars, worldVars
<1>2. ev[p] \in Event
  BY <1>1 DEF ChatInv, Fences
<1>3. /\ pc'[p] = "sync" /\ \A q \in Process : q # p => pc'[q] = pc[q]
      /\ \A e \in Event : e # ev[p] => markers'[e] = markers[e]
  BY <1>0, <1>1
<1>4. ASSUME NEW q \in Process, HasTurn(q)'
      PROVE  HasTurn(q) /\ q # p /\ ev[q] # ev[p] /\ ev[q] \in Event
  <2>1. q # p /\ HasTurn(q)
    BY <1>1, <1>3, <1>4 DEF HasTurn
  <2>2. Echo[ev[q]] = NoSend /\ ev[q] \in Event
    BY <2>1 DEF ChatInv, Turns, Fences, HasTurn
  <2>3. ev[q] # ev[p]
    <3> SUFFICES ASSUME ev[q] = ev[p] PROVE FALSE
      OBVIOUS
    <3>1. HasTurn(p)
      BY <1>1, <2>2 DEF HasTurn
    <3> QED
      BY <2>1, <3>1 DEF ChatInv, Turns
  <2> QED
    BY <2>1, <2>2, <2>3
<1>5. Echo[ev[p]] = NoSend => ClosedOrMarked(ev[p])
  BY <1>1 DEF ChatInv, Turns, HasTurn, ClosedOrMarked
<1>6. \A e \in Event : Echo[e] = NoSend /\ markers'[e] > 0 => ClosedOrMarked(e)'
  BY <1>1, <1>3, <1>5 DEF ChatInv, Turns, ClosedOrMarked
<1>7. Recorded' = Recorded
  BY <1>1 DEF Recorded
<1>8. \A q \in Process : /\ PastMark(q)' => PastMark(q)
                         /\ pc'[q] \in {"turn", "abort"} => pc[q] \in {"turn", "abort"}
  BY <1>3 DEF PastMark
<1>9. \A q \in Process :
        HasTurn(q)' => turnEvent' = ev'[q] /\ Echo[ev'[q]] = NoSend /\ markers'[ev'[q]] = 0
  BY <1>1, <1>3, <1>4 DEF ChatInv, Turns
<1>10. \A q, r \in Process : HasTurn(q)' /\ HasTurn(r)' => q = r
  BY <1>4 DEF ChatInv, Turns
<1> QED
  BY <1>1, <1>6, <1>7, <1>8, <1>9, <1>10 DEF Turns, ChatInv

\* complete: the marker it read is proof that nobody is in the event's turn.
LEMMA CompleteTurns ==
  ASSUME ChatInv, NEW p \in Process, Complete(p)
  PROVE  Turns' /\ \A q \in Process : ~HasTurn(q)
<1>0. /\ pc \in [Process -> Step] /\ ev \in [Process -> Event \cup {0}] /\ cursor \in Nat
      /\ markers \in [Event -> Nat] /\ Event \subseteq Nat \ {0}
  BY DEF ChatInv, TypeOK, StoreTypeOK, Event
<1>1. /\ Owner(p) /\ markers[ev[p]] = 1 /\ cursor' = ev[p] /\ turnEvent' = 0
      /\ tools' = [a \in Send |-> "none"] /\ UNCHANGED <<markers, prompts>>
      /\ pc' = [pc EXCEPT ![p] = "idle"] /\ ev' = [ev EXCEPT ![p] = 0]
  BY DEF Complete, CompleteEvent, Owner, Return, worldVars
<1>2. ev[p] = cursor + 1
  BY <1>1, OneOwner DEF ChatInv
<1>3. \A q \in Process : ~HasTurn(q)
  <2> SUFFICES ASSUME NEW q \in Process, HasTurn(q) PROVE FALSE
    OBVIOUS
  <2>1. pc[q] # "idle" /\ turnEvent = ev[q] /\ markers[ev[q]] = 0
    BY DEF ChatInv, Turns, HasTurn
  <2>2. ev[q] \in Event
    BY <2>1 DEF ChatInv, Fences
  <2>3. turnEvent = cursor + 1
    BY <1>0, <2>1, <2>2 DEF ChatInv, TurnBarrier
  <2> QED
    BY <1>1, <1>2, <2>1, <2>3
<1>4. \A q \in Process : pc'[q] = pc[q] \/ pc'[q] = "idle"
  BY <1>0, <1>1
<1>5. \A q \in Process : ev'[q] = ev[q] \/ pc'[q] = "idle"
  BY <1>0, <1>1
<1>6. \A q \in Process : ~HasTurn(q)'
  BY <1>3, <1>4, <1>5 DEF HasTurn
<1>7. \A q \in Process : ~PastMark(q)' /\ pc'[q] \notin {"turn", "abort"}
  BY <1>6 DEF HasTurn, PastMark
<1>8. Recorded' = {}
  BY <1>1 DEF Recorded
<1>9. \A e \in Event : ClosedOrMarked(e) => ClosedOrMarked(e)'
  BY <1>0, <1>1, <1>2 DEF ClosedOrMarked, ChatInv, TurnBarrier
<1>10. \A e \in Event : Echo[e] = NoSend /\ markers'[e] > 0 => ClosedOrMarked(e)'
  BY <1>1, <1>9 DEF ChatInv, Turns
<1> QED
  BY <1>3, <1>6, <1>7, <1>8, <1>10 DEF Turns


\* The other steps of a worker leave the turns as they are: the one that skips
\* the agent does so for own echoes only.
LEMMA WorkerTurns ==
  ASSUME ChatInv, NEW p \in Process, WorkerStep(p) \/ AgentStep(p)
  PROVE  Turns'
<1>0. /\ pc \in [Process -> Step] /\ ev \in [Process -> Event \cup {0}]
      /\ tools \in [Send -> {"none", "attempting", "confirmed", "uncertain"}]
  BY DEF ChatInv, TypeOK, StoreTypeOK
<1>a. ASSUME UNCHANGED <<cursor, turnEvent, prompts, markers>>, Recorded' \subseteq Recorded,
             HasTurn(p)' => HasTurn(p), PastMark(p)' => PastMark(p),
             pc'[p] \in {"turn", "abort"} => pc[p] \in {"turn", "abort"}
      PROVE  Turns'
  <2>1. \A q \in Process : HasTurn(q)' => HasTurn(q) /\ ev'[q] = ev[q] /\ ev[q] \in Event
    <3>1. ASSUME NEW q \in Process, HasTurn(q)'
          PROVE  HasTurn(q) /\ ev'[q] = ev[q]
      <4>1. CASE q = p
        BY <1>a, <3>1, <4>1, Moves DEF HasTurn, Returned, ChatInv
      <4>2. CASE q # p
        BY <3>1, <4>2, Moves DEF HasTurn, Stays, ChatInv
      <4> QED
        BY <4>1, <4>2
    <3>2. \A q \in Process : HasTurn(q) => ev[q] \in Event
      BY DEF HasTurn, ChatInv, Fences
    <3> QED
      BY <3>1, <3>2
  <2>2. \A q \in Process : /\ PastMark(q)' => PastMark(q)
                           /\ pc'[q] \in {"turn", "abort"} => pc[q] \in {"turn", "abort"}
    BY <1>a, Moves DEF PastMark, Stays, ChatInv
  <2> QED
    BY <1>a, <2>1, <2>2, QuietTurns DEF ChatInv
<1> USE DEF Goto, Throw, Require, HasTurn, PastMark,
            storeVars, leaseVars, stateVars, fileVars, worldVars
<1>1. CASE Start(p) \/ Lookup(p) \/ Classify(p)
  <2>1. pc'[p] \in {"lookup", "complete", "classify", "open", "catch"}
    BY <1>0, <1>1 DEF Start, Lookup, Classify
  <2>2. UNCHANGED <<cursor, turnEvent, prompts, markers, tools>>
    BY <1>1 DEF Start, Lookup, Classify
  <2> QED
    BY <1>a, <2>1, <2>2 DEF Recorded
<1>2. CASE Open(p)
  <2>1. /\ pc[p] = "open" /\ pc'[p] = IF context[p] THEN "append" ELSE "prepare"
        /\ UNCHANGED <<cursor, turnEvent, prompts, markers, tools, ev>>
    BY <1>0, <1>2 DEF Open, Bind
  <2>2. ~HasTurn(p)'
    BY <2>1 DEF ChatInv, Echoes
  <2> QED
    BY <1>a, <2>1, <2>2 DEF Recorded
<1>3. CASE PromptGate(p)
  <2>1. pc[p] = "begun" /\ pc'[p] \in {"prompt", "catch"}
    BY <1>0, <1>3 DEF PromptGate
  <2>2. UNCHANGED <<cursor, turnEvent, prompts, markers, tools>>
    BY <1>3 DEF PromptGate
  <2> QED
    BY <1>a, <2>1, <2>2 DEF Recorded
<1>4. ASSUME NEW n \in 1..MaxSends, Dispatch(p, n) \/ Confirm(p, n) \/ NotConfirmed(p, n)
      PROVE  Turns'
  <2>1. pc[p] = "turn" /\ pc'[p] \in {"turn", "abort"}
    BY <1>0, <1>4 DEF Dispatch, Confirm, NotConfirmed
  <2>2. UNCHANGED <<cursor, turnEvent, prompts, markers>>
    BY <1>4 DEF Dispatch, Confirm, JournalConfirm, NotConfirmed, JournalUncertain
  <2>3. Recorded' \subseteq Recorded
    BY <1>0, <1>4 DEF Dispatch, Confirm, JournalConfirm, NotConfirmed, JournalUncertain, Recorded
  <2> QED
    BY <1>a, <2>1, <2>2, <2>3
<1>5. CASE HookFails(p) \/ AbortSettles(p) \/ Settle(p) \/ PromptFails(p)
  <2>1. /\ pc[p] \in {"turn", "abort"} /\ pc'[p] \in {"abort", "catch", "append"}
        /\ UNCHANGED <<cursor, turnEvent, prompts, markers, tools>>
    BY <1>0, <1>5 DEF HookFails, AbortSettles, Settle, PromptFails
  <2> QED
    BY <1>a, <2>1 DEF Recorded
<1>6. CASE PromptLeavesCalls(p)
  <2>1. pc'[p] = "catch" /\ UNCHANGED <<cursor, turnEvent, prompts, markers>>
    BY <1>0, <1>6 DEF PromptLeavesCalls, JournalUncertain
  <2>2. Recorded' \subseteq Recorded
    BY <1>0, <1>6 DEF PromptLeavesCalls, JournalUncertain, Recorded
  <2> QED
    BY <1>a, <2>1, <2>2
<1>7. CASE AppendGate(p)
  <2>1. /\ pc[p] = "append" /\ pc'[p] \in {"write", "catch"}
        /\ UNCHANGED <<cursor, turnEvent, prompts, markers, tools, ev>>
    BY <1>0, <1>7 DEF AppendGate
  <2> QED
    BY <1>a, <2>1 DEF Recorded
<1>8. CASE SyncMarker(p) \/ CompleteFails(p) \/ PreparationFails(p)
  <2>1. /\ pc'[p] \in {"complete", "catch"}
        /\ UNCHANGED <<cursor, turnEvent, prompts, markers, tools>>
    BY <1>0, <1>8 DEF SyncMarker, CompleteFails, PreparationFails
  <2> QED
    BY <1>a, <2>1 DEF Recorded
<1>9. CASE Pause(p) \/ GateLost(p)
  <2>1. /\ pc'[p] = "idle" /\ UNCHANGED <<cursor, turnEvent, prompts, markers, tools>>
    BY <1>0, <1>9 DEF Pause, SetPause, GateLost, Return
  <2> QED
    BY <1>a, <2>1 DEF Recorded
<1> QED
  BY <1>1, <1>2, <1>3, <1>4, <1>5, <1>6, <1>7, <1>8, <1>9,
     BeginTurnTurns, PromptTurns, BeginSendTurns, WriteMarkerTurns, CompleteTurns
     DEF WorkerStep, AgentStep

\* Every step keeps the turns.
LEMMA TurnsKept ==
  ASSUME ChatInv, [Next]_vars
  PROVE  Turns'
<1>0. /\ pc \in [Process -> Step] /\ ev \in [Process -> Event \cup {0}]
      /\ tools \in [Send -> {"none", "attempting", "confirmed", "uncertain"}]
      /\ markers \in [Event -> Nat] /\ synced \in [Event -> Nat]
  BY DEF ChatInv, TypeOK, StoreTypeOK
<1>a. ASSUME UNCHANGED <<cursor, turnEvent, prompts, markers>>, Recorded' \subseteq Recorded,
             \A q \in Process : \/ pc'[q] \in {"idle", "start"}
                                \/ pc'[q] = pc[q] /\ ev'[q] = ev[q]
      PROVE  Turns'
  <2>1. \A q \in Process : HasTurn(q) => ev[q] \in Event
    BY DEF HasTurn, ChatInv, Fences
  <2>2. \A q \in Process : /\ HasTurn(q)' => HasTurn(q) /\ ev'[q] = ev[q]
                           /\ PastMark(q)' => PastMark(q)
                           /\ pc'[q] \in {"turn", "abort"} => pc[q] \in {"turn", "abort"}
    BY <1>a DEF HasTurn, PastMark
  <2> QED
    BY <1>a, <2>1, <2>2, QuietTurns DEF ChatInv
<1> USE DEF storeVars, leaseVars, stateVars, workerVars, fileVars, worldVars
<1>1. ASSUME NEW p \in Process, Acquire(p) \/ LoseApp(p) \/ Drain(p) \/ FailClosed(p)
      PROVE  Turns'
  <2>1. UNCHANGED <<cursor, turnEvent, prompts, markers, tools, pc, ev>>
    BY <1>1 DEF Acquire, AppAcquire, LoseApp, Drain, AppRelease, FailClosed
  <2> QED
    BY <1>a, <2>1 DEF Recorded
<1>2. ASSUME NEW p \in Process, Claim(p)
      PROVE  Turns'
  <2>1. UNCHANGED <<cursor, turnEvent, prompts, markers>>
    BY <1>2 DEF Claim, ClaimUnresolved, ClaimGap, ClaimGrant
  <2>2. Recorded' \subseteq Recorded
    BY <1>0, <1>2 DEF Claim, ClaimUnresolved, ClaimGap, ClaimGrant, Recorded, Unresolved
  <2>3. \A q \in Process : pc'[q] = "start" \/ (pc'[q] = pc[q] /\ ev'[q] = ev[q])
    BY <1>0, <1>2 DEF Claim, Goto
  <2> QED
    BY <1>a, <2>1, <2>2, <2>3
<1>3. ASSUME NEW p \in Process, Crash(p)
      PROVE  Turns'
  <2>1. UNCHANGED <<cursor, turnEvent, prompts, markers, tools>>
    BY <1>3 DEF Crash
  <2>2. \A q \in Process : pc'[q] = "idle" \/ (pc'[q] = pc[q] /\ ev'[q] = ev[q])
    BY <1>0, <1>3 DEF Crash, Return
  <2> QED
    BY <1>a, <2>1, <2>2 DEF Recorded
<1>4. CASE HostCrash
  <2>1. /\ UNCHANGED <<cursor, turnEvent, prompts, tools>> /\ \A q \in Process : pc'[q] = "idle"
    BY <1>4 DEF HostCrash
  <2>2. \A e \in Event : markers'[e] = markers[e] \/ markers'[e] = synced[e]
    BY <1>4 DEF HostCrash
  <2>3. \A e \in Event : /\ markers'[e] > 0 => markers[e] > 0
                         /\ markers[e] = 0 => markers'[e] = 0
    BY <1>0, <2>2 DEF ChatInv, Files
  <2>4. \A q \in Process : ~HasTurn(q)' /\ ~PastMark(q)' /\ pc'[q] \notin {"turn", "abort"}
    BY <2>1 DEF HasTurn, PastMark
  <2>5. Recorded' = Recorded
    BY <2>1 DEF Recorded
  <2> QED
    BY <2>1, <2>3, <2>4, <2>5, QuietTurns DEF ChatInv
<1>5. ASSUME \/ \E e \in Event : Admit(e)
             \/ \E a \in Send : Deliver(a) \/ DropSend(a)
             \/ ExpireApp \/ ExpireLease \/ GapTimer \/ UNCHANGED vars
      PROVE  Turns'
  <2>1. UNCHANGED <<cursor, turnEvent, prompts, markers, tools, pc, ev>>
    BY <1>5 DEF Admit, Accept, Deliver, DropSend, ExpireApp, AppExpires, ExpireLease,
       LeaseExpires, GapTimer, GapElapses, vars
  <2> QED
    BY <1>a, <2>1 DEF Recorded
<1> QED
  BY <1>1, <1>2, <1>3, <1>4, <1>5, WorkerTurns DEF Next

-----------------------------------------------------------------------------
(* Echoes, calls and files *)

\* q's worker is none, was just granted the chat, or does not change.
Undisturbed(q) ==
  \/ pc'[q] = "idle" /\ call'[q] = NoCalls
  \/ pc'[q] = "start" /\ pc[q] = "idle" /\ call'[q] = call[q]
  \/ /\ pc'[q] = pc[q] /\ ev'[q] = ev[q] /\ context'[q] = context[q]
     /\ call'[q] = call[q] /\ conf'[q] = conf[q]

\* A step that is nobody's worker's moves neither the cursor nor the mark, names
\* no send, lets none leave and confirms none.
LEMMA Outside ==
  ASSUME ChatInv, [Next]_vars, \A p \in Process : ~WorkerStep(p) /\ ~AgentStep(p)
  PROVE  /\ UNCHANGED <<cursor, turnEvent, named, prompts>>
         /\ sent \subseteq sent' /\ inflight' \cup sent' \subseteq inflight \cup sent
         /\ \A a \in Send : tools'[a] = tools[a] \/ (tools[a] # "none" /\ tools'[a] = "uncertain")
         /\ \A e \in Event : /\ markers'[e] \in {markers[e], synced[e]}
                             /\ synced'[e] \in {synced[e], markers'[e]}
                             /\ synced'[e] <= markers'[e]
         /\ \A q \in Process : Undisturbed(q)
<1>0. /\ pc \in [Process -> Step] /\ ev \in [Process -> Event \cup {0}]
      /\ call \in [Process -> [1..MaxSends -> Progress]] /\ context \in [Process -> BOOLEAN]
      /\ conf \in [Process -> SUBSET Send]
      /\ tools \in [Send -> {"none", "attempting", "confirmed", "uncertain"}]
      /\ markers \in [Event -> Nat] /\ synced \in [Event -> Nat]
      /\ \A e \in Event : synced[e] <= markers[e]
  BY DEF ChatInv, TypeOK, StoreTypeOK, Files
<1> DEFINE Chat == UNCHANGED <<cursor, turnEvent, named, prompts>>
           World == sent \subseteq sent' /\ inflight' \cup sent' \subseteq inflight \cup sent
           Journal == \A a \in Send :
             tools'[a] = tools[a] \/ (tools[a] # "none" /\ tools'[a] = "uncertain")
           File == \A e \in Event : /\ markers'[e] \in {markers[e], synced[e]}
                                    /\ synced'[e] \in {synced[e], markers'[e]}
                                    /\ synced'[e] <= markers'[e]
           Goal == Chat /\ World /\ Journal /\ File /\ \A q \in Process : Undisturbed(q)
<1> USE DEF storeVars, leaseVars, stateVars, workerVars, fileVars, worldVars
<1>a. UNCHANGED <<markers, synced>> => File
  BY <1>0
<1>b. UNCHANGED worldVars => World /\ UNCHANGED prompts
  OBVIOUS
<1>c. UNCHANGED workerVars => \A q \in Process : Undisturbed(q)
  BY DEF Undisturbed
<1>1. ASSUME NEW p \in Process, Acquire(p) \/ LoseApp(p) \/ Drain(p) \/ FailClosed(p)
      PROVE  Goal
  <2>1. UNCHANGED <<cursor, turnEvent, tools, fileVars, worldVars, pc, ev, call, context, conf>>
    BY <1>1 DEF Acquire, AppAcquire, LoseApp, Drain, AppRelease, FailClosed
  <2> QED
    BY <1>0, <2>1 DEF Undisturbed
<1>2. ASSUME NEW p \in Process, Claim(p)
      PROVE  Goal
  <2>1. UNCHANGED <<cursor, turnEvent, fileVars, worldVars>>
    BY <1>2 DEF Claim, ClaimUnresolved, ClaimGap, ClaimGrant
  <2>2. Journal
    BY <1>0, <1>2 DEF Claim, ClaimUnresolved, ClaimGap, ClaimGrant, Unresolved
  <2>3. \A q \in Process : Undisturbed(q)
    <3>1. CASE UNCHANGED workerVars
      BY <1>c, <3>1
    <3>2. CASE /\ Goto(p, "start") /\ ev' = [ev EXCEPT ![p] = cursor + 1]
               /\ UNCHANGED <<context, call, conf>>
      BY <1>0, <1>2, <3>2 DEF Claim, Goto, Undisturbed
    <3> QED
      BY <1>2, <3>1, <3>2 DEF Claim
  <2> QED
    BY <1>0, <2>1, <2>2, <2>3
<1>3. ASSUME NEW p \in Process, Crash(p)
      PROVE  Goal
  <2>1. UNCHANGED <<cursor, turnEvent, tools, fileVars, worldVars>>
    BY <1>3 DEF Crash
  <2>2. \A q \in Process : Undisturbed(q)
    BY <1>0, <1>3 DEF Crash, Return, Undisturbed
  <2> QED
    BY <1>0, <2>1, <2>2
<1>4. CASE HostCrash
  <2>1. UNCHANGED <<cursor, turnEvent, tools, named, worldVars>> /\ synced' = markers'
    BY <1>4 DEF HostCrash
  <2>2. \A q \in Process : Undisturbed(q)
    BY <1>4 DEF HostCrash, Undisturbed
  <2>3. File
    BY <1>0, <1>4 DEF HostCrash
  <2> QED
    BY <2>1, <2>2, <2>3
<1>5. ASSUME NEW a \in Send, Deliver(a) \/ DropSend(a)
      PROVE  Goal
  <2>1. UNCHANGED <<cursor, turnEvent, tools, fileVars, prompts, workerVars>> /\ World
    BY <1>5 DEF Deliver, DropSend
  <2> QED
    BY <1>a, <1>c, <2>1
<1>6. ASSUME \/ \E e \in Event : Admit(e)
             \/ ExpireApp \/ ExpireLease \/ GapTimer \/ UNCHANGED vars
      PROVE  Goal
  <2>1. UNCHANGED <<cursor, turnEvent, tools, fileVars, worldVars, workerVars>>
    BY <1>6 DEF Admit, Accept, ExpireApp, AppExpires, ExpireLease,
       LeaseExpires, GapTimer, GapElapses, vars
  <2> QED
    BY <1>a, <1>b, <1>c, <2>1
<1> QED
  BY <1>1, <1>2, <1>3, <1>4, <1>5, <1>6 DEF Next

\* Every send is answered before the cursor passes its event, so an echo the owner
\* classifies is known by the marker that names its send.
LEMMA EchoesKnown ==
  ASSUME ChatInv, NEW p \in Process, Owner(p)
  PROVE  KnownEcho(ev[p]) <=> Echo[ev[p]] # NoSend
<1>0. /\ markers \in [Event -> Nat] /\ synced \in [Event -> Nat] /\ cursor \in Nat
      /\ Event \subseteq Nat \ {0}
  BY DEF ChatInv, TypeOK, StoreTypeOK, Event
<1>1. ev[p] \in Event /\ ev[p] = cursor + 1 /\ ev[p] \in admitted
  BY OneOwner DEF ChatInv, Owner, Work
<1>2. ASSUME Echo[ev[p]] # NoSend
      PROVE  KnownEcho(ev[p])
  <2> DEFINE a == Echo[ev[p]]
  <2>1. a \in Send /\ a[1] \in Event /\ a[1] < ev[p]
    BY <1>1, <1>2, WorkerAssumption DEF Send
  <2>2. a[1] <= cursor
    BY <1>0, <1>1, <2>1
  <2>3. a \in sent
    BY <1>1, <1>2 DEF ChatInv, Echoes
  <2>4. synced[a[1]] > 0 /\ a \in named[a[1]]
    BY <2>1, <2>2, <2>3 DEF ChatInv, CompletedIsDurable, SendsOf
  <2>5. synced[a[1]] <= markers[a[1]]
    BY <2>1 DEF ChatInv, Files
  <2>6. markers[a[1]] \in Nat /\ synced[a[1]] \in Nat
    BY <1>0, <2>1
  <2>7. markers[a[1]] > 0
    BY <2>4, <2>5, <2>6
  <2> QED
    BY <1>2, <2>1, <2>4, <2>7 DEF KnownEcho
<1> QED
  BY <1>2 DEF KnownEcho

\* Every step keeps the echoes off the path to the agent.
LEMMA EchoesKept ==
  ASSUME ChatInv, [Next]_vars
  PROVE  Echoes'
<1>0. /\ pc \in [Process -> Step] /\ ev \in [Process -> Event \cup {0}]
      /\ context \in [Process -> BOOLEAN]
  BY DEF ChatInv, TypeOK
<1> USE DEF storeVars, leaseVars, stateVars, workerVars, fileVars, worldVars
<1>1. ASSUME NEW e \in admitted', Echo[e] # NoSend
      PROVE  Echo[e] \in sent'
  <2>1. ASSUME NEW p \in Process, WorkerStep(p) \/ AgentStep(p)
        PROVE  admitted' \subseteq admitted /\ sent \subseteq sent'
    BY <2>1 DEF WorkerStep, AgentStep, Start, Lookup, Classify, Open, Bind, BeginTurn,
       BeginTurnMark, PromptGate, Prompt, Dispatch, Confirm, JournalConfirm,
       NotConfirmed, JournalUncertain, HookFails, Settle, AbortSettles, AppendGate,
       WriteMarker, SyncMarker, Complete, CompleteEvent, CompleteFails, Pause, SetPause, GateLost,
       PreparationFails, PromptFails, PromptLeavesCalls, BeginSend, JournalBegin
  <2>2. ASSUME NEW d \in Event, Admit(d)
        PROVE  Echo[e] \in sent'
    BY <1>1, <2>2 DEF Admit, Accept, ChatInv, Echoes
  <2>3. ASSUME NEW a \in Send, Deliver(a) \/ DropSend(a)
        PROVE  admitted' \subseteq admitted /\ sent \subseteq sent'
    BY <2>3 DEF Deliver, DropSend
  <2>4. ASSUME NEW p \in Process,
               Acquire(p) \/ Claim(p) \/ LoseApp(p) \/ Drain(p) \/ FailClosed(p) \/ Crash(p)
        PROVE  UNCHANGED <<admitted, sent>>
    BY <2>4 DEF Acquire, AppAcquire, Claim, ClaimUnresolved, ClaimGap, ClaimGrant, LoseApp,
       Drain, AppRelease, FailClosed, Crash
  <2>5. ExpireApp \/ ExpireLease \/ GapTimer \/ HostCrash \/ UNCHANGED vars
          => UNCHANGED <<admitted, sent>>
    BY DEF ExpireApp, AppExpires, ExpireLease, LeaseExpires, GapTimer, GapElapses, HostCrash, vars
  <2> QED
    BY <1>1, <2>1, <2>2, <2>3, <2>4, <2>5 DEF Next, ChatInv, Echoes
<1>2. ASSUME NEW q \in Process
      PROVE  /\ pc'[q] = "open" => (context'[q] <=> Echo[ev'[q]] # NoSend)
             /\ pc'[q] = "prepare" => Echo[ev'[q]] = NoSend
  <2>1. ASSUME NEW p \in Process, WorkerStep(p) \/ AgentStep(p), q # p
        PROVE  pc'[q] = pc[q] /\ ev'[q] = ev[q] /\ context'[q] = context[q]
    BY <2>1, Moves DEF Stays, ChatInv
  <2>2. ASSUME Classify(q)
        PROVE  pc'[q] = "open" => (context'[q] <=> Echo[ev'[q]] # NoSend)
    <3>1. Owner(q) /\ context'[q] = KnownEcho(ev[q]) /\ ev' = ev
      BY <1>0, <2>2 DEF Classify, Owns, Owner
    <3> QED
      BY <3>1, EchoesKnown
  <2>3. Classify(q) => pc'[q] # "prepare"
    BY <1>0 DEF Classify, Require, Goto, Throw
  <2>4. Open(q) => pc'[q] # "open" /\ (pc'[q] = "prepare" => Echo[ev'[q]] = NoSend)
    BY <1>0 DEF Open, Goto, ChatInv, Echoes
  <2>5. ASSUME WorkerStep(q) \/ AgentStep(q), ~Classify(q), ~Open(q)
        PROVE  pc'[q] \notin {"open", "prepare"}
    BY <1>0, <2>5 DEF WorkerStep, AgentStep, Start, Lookup, BeginTurn, PromptGate, Prompt,
       Dispatch, Confirm, NotConfirmed, HookFails, Settle, AbortSettles, AppendGate,
       WriteMarker, SyncMarker, Complete, CompleteFails, Pause, GateLost,
       PreparationFails, PromptFails, PromptLeavesCalls, BeginSend, Goto, Throw, Require, Return
  <2>6. ASSUME \A p \in Process : ~WorkerStep(p) /\ ~AgentStep(p),
               pc'[q] \in {"open", "prepare"}
        PROVE  pc'[q] = pc[q] /\ ev'[q] = ev[q] /\ context'[q] = context[q]
    BY <2>6, Outside DEF Undisturbed
  <2> QED
    BY <2>1, <2>2, <2>3, <2>4, <2>5, <2>6 DEF ChatInv, Echoes
<1> QED
  BY <1>1, <1>2 DEF Echoes

\* The journal, the sends on their way and the calls change only by a step of the
\* owner, apart from what Outside allows.
LEMMA OwnersStep ==
  ASSUME ChatInv, NEW p \in Process, WorkerStep(p) \/ AgentStep(p)
  PROVE  /\ UNCHANGED sent
         /\ UNCHANGED <<tools, inflight>> \/ Owner(p)
<1> USE DEF storeVars, worldVars
<1> QED
  BY DEF WorkerStep, AgentStep, Start, Lookup, Classify, Open, Bind, BeginTurn,
     BeginTurnMark, PromptGate, Prompt, Dispatch, Confirm, JournalConfirm,
     NotConfirmed, JournalUncertain, HookFails, Settle, AbortSettles, AppendGate,
     WriteMarker, SyncMarker, Complete, CompleteEvent, CompleteFails, Pause, SetPause, GateLost,
     PreparationFails, PromptFails, PromptLeavesCalls, BeginSend, JournalBegin, Owns, Owner

\* The owner's calls stay in the journal, and each leaves once.
LEMMA OwnCalls ==
  ASSUME ChatInv, NEW p \in Process, WorkerStep(p) \/ AgentStep(p), pc'[p] = "turn", Owner(p),
         NEW n \in 1..MaxSends, call'[p][n] # "none"
  PROVE  /\ tools'[<<ev[p], n>>] = "attempting"
         /\ call'[p][n] = "begun" => <<ev[p], n>> \notin inflight' \cup sent'
<1>0. /\ pc \in [Process -> Step] /\ call \in [Process -> [1..MaxSends -> Progress]]
      /\ tools \in [Send -> {"none", "attempting", "confirmed", "uncertain"}]
      /\ cursor \in Nat
  BY DEF ChatInv, TypeOK, StoreTypeOK, Event
<1>1. /\ ev[p] \in Event /\ ev[p] = cursor + 1
      /\ \A m \in 1..MaxSends : <<ev[p], m>> \in Send
  BY OneOwner DEF ChatInv, Send
<1>2. ASSUME pc[p] = "turn", call[p][n] # "none"
      PROVE  /\ tools[<<ev[p], n>>] = "attempting"
             /\ call[p][n] = "begun" => <<ev[p], n>> \notin inflight \cup sent
  BY <1>2 DEF ChatInv, Calls
<1>3. CASE Prompt(p)
  <2>1. call'[p] = NoCalls
    BY <1>3 DEF Prompt, ChatInv, Calls
  <2> QED
    BY <2>1 DEF NoCalls
<1>4. ASSUME NEW m \in 1..MaxSends, BeginSend(p, m)
      PROVE  /\ tools'[<<ev[p], n>>] = "attempting"
             /\ call'[p][n] = "begun" => <<ev[p], n>> \notin inflight' \cup sent'
  <2>1. /\ pc[p] = "turn" /\ tools[<<ev[p], m>>] = "none"
        /\ tools' = [tools EXCEPT ![<<ev[p], m>>] = "attempting"]
        /\ call' = [call EXCEPT ![p][m] = "begun"] /\ UNCHANGED <<inflight, sent>>
    BY <1>4 DEF BeginSend, JournalBegin, worldVars
  <2>2. CASE n = m
    <3>1. <<ev[p], m>> \notin Recorded
      BY <2>1 DEF Recorded
    <3>2. <<ev[p], m>> \notin inflight \cup sent
      BY <1>0, <1>1, <3>1 DEF ChatInv, SendsAccounted
    <3> QED
      BY <1>0, <1>1, <2>1, <2>2, <3>2
  <2>3. CASE n # m
    <3>1. call'[p][n] = call[p][n] /\ tools'[<<ev[p], n>>] = tools[<<ev[p], n>>]
      BY <1>0, <1>1, <2>1, <2>3
    <3> QED
      BY <1>2, <2>1, <3>1
  <2> QED
    BY <2>2, <2>3
<1>5. ASSUME NEW m \in 1..MaxSends, Dispatch(p, m)
      PROVE  /\ tools'[<<ev[p], n>>] = "attempting"
             /\ call'[p][n] = "begun" => <<ev[p], n>> \notin inflight' \cup sent'
  <2>1. /\ pc[p] = "turn" /\ UNCHANGED <<tools, sent>> /\ call[p][m] = "begun"
        /\ call' = [call EXCEPT ![p][m] = "gone"] /\ inflight' = inflight \cup {<<ev[p], m>>}
    BY <1>5 DEF Dispatch, storeVars
  <2>2. /\ n # m => call'[p][n] = call[p][n]
        /\ n = m => call'[p][n] = "gone"
    BY <1>0, <2>1
  <2> QED
    BY <1>2, <2>1, <2>2
<1>6. ASSUME NEW m \in 1..MaxSends, Confirm(p, m)
      PROVE  /\ tools'[<<ev[p], n>>] = "attempting"
             /\ call'[p][n] = "begun" => <<ev[p], n>> \notin inflight' \cup sent'
  <2>1. /\ pc[p] = "turn" /\ UNCHANGED <<inflight, sent>>
        /\ tools' = [tools EXCEPT ![<<ev[p], m>>] = "confirmed"]
        /\ call' = [call EXCEPT ![p][m] = "none"]
    BY <1>6 DEF Confirm, JournalConfirm, worldVars
  <2>2. n # m
    BY <1>0, <2>1
  <2>3. call'[p][n] = call[p][n] /\ tools'[<<ev[p], n>>] = tools[<<ev[p], n>>]
    BY <1>0, <1>1, <2>1, <2>2
  <2> QED
    BY <1>2, <2>1, <2>3
<1>7. ASSUME ~Prompt(p),
             \A m \in 1..MaxSends : ~BeginSend(p, m) /\ ~Dispatch(p, m) /\ ~Confirm(p, m)
      PROVE  FALSE
  BY <1>0, <1>7 DEF WorkerStep, AgentStep, Start, Lookup, Classify, Open, BeginTurn, PromptGate,
     NotConfirmed, HookFails, Settle, AbortSettles, AppendGate,
     WriteMarker, SyncMarker, Complete, CompleteFails, Pause, GateLost,
     PreparationFails, PromptFails, PromptLeavesCalls, Goto, Throw, Require, Return
<1> QED
  BY <1>3, <1>4, <1>5, <1>6, <1>7

\* What leaves was begun by the owner, and what is confirmed was sent.
LEMMA SendsMove ==
  ASSUME ChatInv, [Next]_vars
  PROVE  /\ inflight' \cap sent' = {}
         /\ \A a \in Send : tools'[a] = "confirmed" => a \in sent'
<1>0. tools \in [Send -> {"none", "attempting", "confirmed", "uncertain"}]
  BY DEF ChatInv, TypeOK, StoreTypeOK
<1>1. inflight \cap sent = {} /\ \A a \in Send : tools[a] = "confirmed" => a \in sent
  BY DEF ChatInv, Calls
<1>2. ASSUME NEW p \in Process, WorkerStep(p) \/ AgentStep(p)
      PROVE  /\ inflight' \cap sent' = {}
             /\ \A a \in Send : tools'[a] = "confirmed" => a \in sent'
  <2>1. ASSUME NEW n \in 1..MaxSends, Dispatch(p, n)
        PROVE  /\ inflight' \cap sent' = {} /\ UNCHANGED tools
    <3>1. Owner(p) /\ pc[p] = "turn" /\ call[p][n] = "begun"
      BY <2>1 DEF Dispatch, Owns, Owner
    <3>2. <<ev[p], n>> \notin sent
      BY <3>1 DEF ChatInv, Calls
    <3> QED
      BY <1>1, <2>1, <3>2 DEF Dispatch, storeVars
  <2>2. ASSUME \A n \in 1..MaxSends : ~Dispatch(p, n)
        PROVE  UNCHANGED <<inflight, sent>>
    BY <1>2, <2>2 DEF WorkerStep, AgentStep, Start, Lookup, Classify, Open, BeginTurn,
       PromptGate, Prompt, Confirm, NotConfirmed, HookFails, Settle, AbortSettles,
       AppendGate, WriteMarker, SyncMarker, Complete, CompleteFails, Pause, GateLost,
       PreparationFails, PromptFails, PromptLeavesCalls, BeginSend, worldVars
  <2>3. UNCHANGED sent
    BY <1>2, OwnersStep
  <2>4. ASSUME NEW n \in 1..MaxSends, Confirm(p, n)
        PROVE  \A a \in Send : tools'[a] = "confirmed" => a \in sent
    BY <1>0, <1>1, <2>4 DEF Confirm, JournalConfirm
  <2>5. ASSUME \A n \in 1..MaxSends : ~Confirm(p, n)
        PROVE  \A a \in Send : tools'[a] = "confirmed" => tools[a] = "confirmed"
    BY <1>0, <1>2, <2>5 DEF WorkerStep, AgentStep, Start, Lookup, Classify, Open, Bind, BeginTurn,
       BeginTurnMark, PromptGate, Prompt, Dispatch, NotConfirmed, JournalUncertain, HookFails,
       Settle, AbortSettles, AppendGate, WriteMarker, SyncMarker, Complete, CompleteEvent,
       CompleteFails, Pause, SetPause, GateLost, PreparationFails, PromptFails,
       PromptLeavesCalls, BeginSend, JournalBegin, storeVars
  <2> QED
    BY <1>1, <2>1, <2>2, <2>3, <2>4, <2>5
<1>3. ASSUME \A p \in Process : ~WorkerStep(p) /\ ~AgentStep(p)
      PROVE  \A a \in Send : tools'[a] = "confirmed" => a \in sent'
  BY <1>1, <1>3, Outside
<1>4. ASSUME \A p \in Process : ~WorkerStep(p) /\ ~AgentStep(p)
      PROVE  inflight' \cap sent' = {}
  <2>1. ASSUME NEW a \in Send, Deliver(a) \/ DropSend(a)
        PROVE  inflight' \cap sent' = {}
    BY <1>1, <2>1 DEF Deliver, DropSend
  <2>2. ASSUME \A a \in Send : ~Deliver(a) /\ ~DropSend(a)
        PROVE  UNCHANGED <<inflight, sent>>
    BY <1>4, <2>2 DEF Next, Admit, Acquire, Claim, LoseApp, Drain, FailClosed, Crash, HostCrash,
       ExpireApp, ExpireLease, GapTimer, vars, worldVars
  <2> QED
    BY <1>1, <2>1, <2>2
<1> QED
  BY <1>2, <1>3, <1>4

\* Every step keeps the calls in the journal.
LEMMA CallsKept ==
  ASSUME ChatInv, [Next]_vars
  PROVE  Calls'
<1>0. /\ pc \in [Process -> Step] /\ call \in [Process -> [1..MaxSends -> Progress]]
  BY DEF ChatInv, TypeOK
<1> DEFINE Early == {"idle", "start", "lookup", "classify", "open", "prepare", "begun", "prompt"}
<1>1. ASSUME NEW q \in Process, pc'[q] \in Early
      PROVE  call'[q] = NoCalls
  <2>1. ASSUME NEW p \in Process, WorkerStep(p) \/ AgentStep(p), q # p
        PROVE  pc'[q] = pc[q] /\ call'[q] = call[q]
    BY <2>1, Moves DEF Stays, ChatInv
  <2>2. ASSUME WorkerStep(q) \/ AgentStep(q), pc'[q] # "idle"
        PROVE  pc[q] \in Early /\ call'[q] = call[q]
    BY <1>0, <1>1, <2>2 DEF WorkerStep, AgentStep, Start, Lookup, Classify, Open, BeginTurn,
       PromptGate, Prompt, Dispatch, Confirm, NotConfirmed, HookFails, Settle, AbortSettles,
       AppendGate, WriteMarker, SyncMarker, Complete, CompleteFails, Pause, GateLost,
       PreparationFails, PromptFails, PromptLeavesCalls, BeginSend, Goto, Throw, Require, Return
  <2>3. ASSUME WorkerStep(q) \/ AgentStep(q), pc'[q] = "idle"
        PROVE  call'[q] = NoCalls
    BY <2>3, Moves DEF Returned, ChatInv
  <2>4. ASSUME \A p \in Process : ~WorkerStep(p) /\ ~AgentStep(p)
        PROVE  call'[q] = NoCalls
    BY <1>1, <2>4, Outside DEF Undisturbed, ChatInv, Calls
  <2> QED
    BY <1>1, <2>1, <2>2, <2>3, <2>4 DEF ChatInv, Calls
<1>2. ASSUME NEW q \in Process, pc'[q] = "turn", Owner(q)', NEW n \in 1..MaxSends,
             call'[q][n] # "none"
      PROVE  /\ tools'[<<ev'[q], n>>] = "attempting"
             /\ call'[q][n] = "begun" => <<ev'[q], n>> \notin inflight' \cup sent'
  <2>1. Owner(q) /\ ev'[q] = ev[q]
    BY <1>2, OwnerBefore DEF ChatInv
  <2>2. CASE WorkerStep(q) \/ AgentStep(q)
    BY <1>2, <2>1, <2>2, OwnCalls
  <2>3. ASSUME NEW p \in Process, WorkerStep(p) \/ AgentStep(p), q # p
        PROVE  /\ tools'[<<ev'[q], n>>] = "attempting"
               /\ call'[q][n] = "begun" => <<ev'[q], n>> \notin inflight' \cup sent'
    <3>1. ~Owner(p)
      BY <2>1, <2>3, OneOwner DEF ChatInv
    <3>2. UNCHANGED <<tools, inflight, sent>>
      BY <2>3, <3>1, OwnersStep
    <3>3. pc[q] = "turn" /\ call'[q] = call[q]
      BY <1>2, <2>3, Moves DEF Stays, ChatInv
    <3> QED
      BY <1>2, <2>1, <3>2, <3>3 DEF ChatInv, Calls
  <2>4. ASSUME \A p \in Process : ~WorkerStep(p) /\ ~AgentStep(p)
        PROVE  /\ tools'[<<ev'[q], n>>] = "attempting"
               /\ call'[q][n] = "begun" => <<ev'[q], n>> \notin inflight' \cup sent'
    <3>1. \A p \in Process : ~ClaimUnresolved(ep[p])
      BY <2>1 DEF ClaimUnresolved, MayClaim, AppAlive, Owner, Work
    <3>2. UNCHANGED tools
      BY <2>4, <3>1 DEF Next, Admit, Accept, Acquire, AppAcquire, Claim, ClaimGap, ClaimGrant,
         LoseApp, Drain, AppRelease, FailClosed, Crash, HostCrash, Deliver, DropSend, ExpireApp,
         AppExpires, ExpireLease, LeaseExpires, GapTimer, GapElapses, vars, storeVars
    <3>3. pc[q] = "turn" /\ call'[q] = call[q] /\ inflight' \cup sent' \subseteq inflight \cup sent
      BY <1>2, <2>4, Outside DEF Undisturbed
    <3> QED
      BY <1>2, <2>1, <3>2, <3>3 DEF ChatInv, Calls
  <2> QED
    BY <2>2, <2>3, <2>4
<1> QED
  BY <1>1, <1>2, SendsMove DEF Calls

\* Every step keeps the file to what was sent.
LEMMA FilesKept ==
  ASSUME ChatInv, [Next]_vars
  PROVE  Files'
<1>0. /\ pc \in [Process -> Step] /\ ev \in [Process -> Event \cup {0}]
      /\ conf \in [Process -> SUBSET Send] /\ named \in [Event -> SUBSET Send]
      /\ markers \in [Event -> Nat] /\ synced \in [Event -> Nat]
  BY DEF ChatInv, TypeOK
<1>1. \A q \in Process : pc[q] = "write" => conf[q] \subseteq sent \cap SendsOf(ev[q])
  BY DEF ChatInv, Files
<1>2. sent \subseteq sent'
  BY OwnersStep, Outside
<1>3. ASSUME NEW q \in Process, pc'[q] = "write"
      PROVE  conf'[q] \subseteq sent' \cap SendsOf(ev'[q])
  <2>1. ASSUME NEW p \in Process, WorkerStep(p) \/ AgentStep(p), q # p
        PROVE  pc'[q] = pc[q] /\ conf'[q] = conf[q] /\ ev'[q] = ev[q]
    BY <2>1, Moves DEF Stays, ChatInv
  <2>2. ASSUME AppendGate(q)
        PROVE  conf'[q] \subseteq sent \cap SendsOf(ev'[q])
    <3>1. AllConfirmed(ev[q]) /\ conf'[q] = Recorded /\ ev' = ev
      BY <1>0, <1>3, <2>2 DEF AppendGate, Require, Throw, Goto
    <3>2. \A a \in Recorded : a \in Send /\ a \in sent /\ a[1] = ev[q]
      BY <3>1 DEF AllConfirmed, Recorded, ChatInv, Calls
    <3> QED
      BY <3>1, <3>2 DEF SendsOf
  <2>3. ASSUME WorkerStep(q) \/ AgentStep(q)
        PROVE  AppendGate(q)
    BY <1>0, <1>3, <2>3 DEF WorkerStep, AgentStep, Start, Lookup, Classify, Open, BeginTurn,
       PromptGate, Prompt, Dispatch, Confirm, NotConfirmed, HookFails, Settle, AbortSettles,
       WriteMarker, SyncMarker, Complete, CompleteFails, Pause, GateLost,
       PreparationFails, PromptFails, PromptLeavesCalls, BeginSend, Goto, Throw, Require, Return
  <2>4. ASSUME \A p \in Process : ~WorkerStep(p) /\ ~AgentStep(p)
        PROVE  pc'[q] = pc[q] /\ conf'[q] = conf[q] /\ ev'[q] = ev[q]
    BY <1>3, <2>4, Outside DEF Undisturbed
  <2> QED
    BY <1>1, <1>2, <1>3, <2>1, <2>2, <2>3, <2>4
<1>4. ASSUME NEW e \in Event
      PROVE  named'[e] \subseteq sent' \cap SendsOf(e)
  <2>1. named[e] \subseteq sent \cap SendsOf(e)
    BY DEF ChatInv, Files
  <2>2. ASSUME NEW p \in Process, WriteMarker(p)
        PROVE  named'[e] \subseteq sent \cap SendsOf(e)
    <3>1. named'[e] = named[e] \/ (e = ev[p] /\ named'[e] = conf[p])
      BY <1>0, <2>2 DEF WriteMarker
    <3> QED
      BY <1>1, <2>1, <2>2, <3>1 DEF WriteMarker
  <2>3. ASSUME NEW p \in Process, WorkerStep(p) \/ AgentStep(p), ~WriteMarker(p)
        PROVE  UNCHANGED named
    BY <2>3 DEF WorkerStep, AgentStep, Start, Lookup, Classify, Open, BeginTurn,
       PromptGate, Prompt, Dispatch, Confirm, NotConfirmed, HookFails, Settle, AbortSettles,
       AppendGate, SyncMarker, Complete, CompleteFails, Pause, GateLost,
       PreparationFails, PromptFails, PromptLeavesCalls, BeginSend, fileVars
  <2> QED
    BY <1>2, <2>1, <2>2, <2>3, Outside
<1>5. ASSUME NEW e \in Event
      PROVE  synced'[e] <= markers'[e]
  <2>1. synced[e] <= markers[e] /\ markers[e] \in Nat
    BY <1>0 DEF ChatInv, Files
  <2>2. ASSUME NEW p \in Process, WriteMarker(p)
        PROVE  synced'[e] <= markers'[e]
    <3>1. markers'[e] \in {markers[e], markers[e] + 1} /\ synced' = synced
      BY <1>0, <2>2 DEF WriteMarker
    <3> QED
      BY <1>0, <2>1, <3>1
  <2>3. ASSUME NEW p \in Process, WorkerStep(p) \/ AgentStep(p), ~WriteMarker(p)
        PROVE  UNCHANGED markers /\ (synced' = synced \/ synced' = markers)
    BY <2>3 DEF WorkerStep, AgentStep, Start, Lookup, Classify, Open, BeginTurn,
       PromptGate, Prompt, Dispatch, Confirm, NotConfirmed, HookFails, Settle, AbortSettles,
       AppendGate, SyncMarker, Complete, CompleteFails, Pause, GateLost,
       PreparationFails, PromptFails, PromptLeavesCalls, BeginSend, fileVars
  <2> QED
    BY <2>1, <2>2, <2>3, Outside
<1> QED
  BY <1>3, <1>4, <1>5 DEF Files

-----------------------------------------------------------------------------
(* The ledger of sends *)

\* What the marker of a completed event names never changes.
LEMMA NamedForGood ==
  ASSUME ChatInv, [Next]_vars, NEW e \in Event, e <= cursor
  PROVE  named'[e] = named[e] /\ synced'[e] > 0
<1>0. /\ markers \in [Event -> Nat] /\ synced \in [Event -> Nat] /\ named \in [Event -> SUBSET Send]
  BY DEF ChatInv, TypeOK
<1>1. synced[e] > 0 /\ synced[e] <= markers[e] /\ markers[e] \in Nat /\ synced[e] \in Nat
  BY <1>0 DEF ChatInv, CompletedIsDurable, Files
<1>2. ASSUME NEW p \in Process, WriteMarker(p)
      PROVE  named'[e] = named[e] /\ synced' = synced
  <2>1. named' = [named EXCEPT ![ev[p]] = IF markers[ev[p]] = 0 THEN conf[p] ELSE @]
        /\ synced' = synced
    BY <1>2 DEF WriteMarker
  <2>2. CASE e = ev[p]
    BY <1>0, <1>1, <2>1, <2>2
  <2>3. CASE e # ev[p]
    BY <1>0, <2>1, <2>3
  <2> QED
    BY <2>1, <2>2, <2>3
<1>3. ASSUME NEW p \in Process, WorkerStep(p) \/ AgentStep(p), ~WriteMarker(p)
      PROVE  UNCHANGED named /\ (synced' = synced \/ synced' = markers)
  BY <1>3 DEF WorkerStep, AgentStep, Start, Lookup, Classify, Open, BeginTurn,
     PromptGate, Prompt, Dispatch, Confirm, NotConfirmed, HookFails, Settle, AbortSettles,
     AppendGate, SyncMarker, Complete, CompleteFails, Pause, GateLost,
     PreparationFails, PromptFails, PromptLeavesCalls, BeginSend, fileVars
<1>4. ASSUME \A p \in Process : ~WorkerStep(p) /\ ~AgentStep(p)
      PROVE  named' = named /\ synced'[e] > 0
  BY <1>1, <1>4, Outside
<1> QED
  BY <1>1, <1>2, <1>3, <1>4

\* A send leaves only as an attempt of the owner's turn.
LEMMA Leaving ==
  ASSUME ChatInv, [Next]_vars, NEW a \in inflight' \cup sent', a \notin inflight \cup sent
  PROVE  a \in Recorded /\ a[1] = cursor + 1 /\ UNCHANGED <<cursor, tools, named, sent>>
<1>1. PICK p \in Process : WorkerStep(p) \/ AgentStep(p)
  BY Outside
<1>2. PICK n \in 1..MaxSends : Dispatch(p, n)
  BY <1>1 DEF WorkerStep, AgentStep, Start, Lookup, Classify, Open, BeginTurn,
     PromptGate, Prompt, Confirm, NotConfirmed, HookFails, Settle, AbortSettles,
     AppendGate, WriteMarker, SyncMarker, Complete, CompleteFails, Pause, GateLost,
     PreparationFails, PromptFails, PromptLeavesCalls, BeginSend, worldVars
<1>3. /\ Owner(p) /\ pc[p] = "turn" /\ call[p][n] = "begun" /\ a = <<ev[p], n>>
      /\ UNCHANGED <<cursor, tools, named, sent>>
  BY <1>2 DEF Dispatch, Owns, Owner, storeVars, stateVars, fileVars
<1>4. ev[p] \in Event /\ ev[p] = cursor + 1
  BY <1>3, OneOwner DEF ChatInv
<1>5. tools[a] = "attempting"
  BY <1>3 DEF ChatInv, Calls
<1> QED
  BY <1>3, <1>4, <1>5 DEF Recorded, Send

\* complete closes the event with a marker that names exactly its sends.
LEMMA Closing ==
  ASSUME ChatInv, NEW p \in Process, Complete(p)
  PROVE  /\ cursor' = cursor + 1 /\ cursor' = ev[p] /\ ev[p] \in Event
         /\ Recorded \subseteq named[ev[p]] /\ \A a \in Recorded : a[1] = ev[p]
         /\ named[ev[p]] = sent \cap SendsOf(ev[p]) /\ inflight \cap SendsOf(ev[p]) = {}
         /\ synced'[ev[p]] > 0
         /\ UNCHANGED <<named, sent, inflight, prompts>>
<1>0. cursor \in Nat /\ named \in [Event -> SUBSET Send] /\ inflight \subseteq Send
  BY DEF ChatInv, TypeOK, StoreTypeOK, Event
<1>1. /\ Owner(p) /\ cursor' = ev[p] /\ markers[ev[p]] = 1 /\ synced' = markers
      /\ \A a \in Recorded : tools[a] = "confirmed" /\ a[1] = ev[p] /\ a \in named[ev[p]]
      /\ UNCHANGED <<named, sent, inflight, prompts>>
  BY DEF Complete, CompleteEvent, MayComplete, Owner, worldVars
<1>2. ev[p] \in Event /\ ev[p] = cursor + 1
  BY <1>1, OneOwner DEF ChatInv
<1>3. \A a \in (inflight \cup sent) \cap SendsOf(ev[p]) : a \in Recorded
  BY <1>0, <1>2 DEF ChatInv, SendsAccounted, SendsOf
<1>4. named[ev[p]] = sent \cap SendsOf(ev[p])
  <2>1. named[ev[p]] \subseteq sent \cap SendsOf(ev[p])
    BY <1>2 DEF ChatInv, Files
  <2> QED
    BY <1>1, <1>3, <2>1
<1>5. \A a \in inflight \cap SendsOf(ev[p]) : a \in sent
  BY <1>0, <1>1, <1>3 DEF ChatInv, Calls
<1>6. inflight \cap SendsOf(ev[p]) = {}
  BY <1>5 DEF ChatInv, Calls
<1> QED
  BY <1>1, <1>2, <1>4, <1>6

\* Only complete moves the cursor or takes records out of the journal.
LEMMA OnlyComplete ==
  ASSUME ChatInv, [Next]_vars, \A p \in Process : ~Complete(p)
  PROVE  cursor' = cursor /\ Recorded \subseteq Recorded'
<1>0. tools \in [Send -> {"none", "attempting", "confirmed", "uncertain"}]
  BY DEF ChatInv, TypeOK, StoreTypeOK
<1>1. ASSUME NEW p \in Process, WorkerStep(p) \/ AgentStep(p)
      PROVE  cursor' = cursor /\ \A a \in Recorded : tools'[a] # "none"
  <2>1. ASSUME NEW n \in 1..MaxSends, Confirm(p, n) \/ NotConfirmed(p, n) \/ BeginSend(p, n)
        PROVE  cursor' = cursor /\ \A a \in Recorded : tools'[a] # "none"
    BY <1>0, <2>1 DEF Confirm, JournalConfirm, NotConfirmed, JournalUncertain, BeginSend,
       JournalBegin, stateVars, Recorded
  <2>2. CASE PromptLeavesCalls(p)
    BY <1>0, <2>2 DEF PromptLeavesCalls, JournalUncertain, Recorded
  <2>3. ASSUME \A n \in 1..MaxSends : ~Confirm(p, n) /\ ~NotConfirmed(p, n) /\ ~BeginSend(p, n),
               ~PromptLeavesCalls(p)
        PROVE  cursor' = cursor /\ tools' = tools
    BY <1>1, <2>3 DEF WorkerStep, AgentStep, Start, Lookup, Classify, Open, Bind, BeginTurn,
       BeginTurnMark, PromptGate, Prompt, Dispatch, HookFails, Settle, AbortSettles, AppendGate,
       WriteMarker, SyncMarker, CompleteFails, Pause, SetPause, GateLost,
       PreparationFails, PromptFails, storeVars, stateVars
  <2> QED
    BY <2>1, <2>2, <2>3 DEF Recorded
<1>2. ASSUME \A p \in Process : ~WorkerStep(p) /\ ~AgentStep(p)
      PROVE  cursor' = cursor /\ \A a \in Recorded : tools'[a] # "none"
  BY <1>2, Outside DEF Recorded
<1> QED
  BY <1>1, <1>2 DEF Recorded

\* Every step keeps every send that left in the journal or in a marker.
LEMMA AccountedKept ==
  ASSUME ChatInv, [Next]_vars
  PROVE  SendsAccounted'
<1> SUFFICES ASSUME NEW a \in inflight' \cup sent'
             PROVE  a \in Recorded' \/ (a[1] <= cursor' /\ a \in named'[a[1]])
  BY DEF SendsAccounted, Recorded
<1>0. cursor \in Nat /\ inflight \subseteq Send /\ sent \subseteq Send /\ Event \subseteq Nat
      /\ \A b \in Send : b[1] \in Event
  BY DEF ChatInv, TypeOK, StoreTypeOK, Event, Send
<1>1. CASE a \notin inflight \cup sent
  BY <1>1, Leaving DEF Recorded
<1>2. CASE a \in inflight \cup sent /\ a[1] <= cursor /\ a \in named[a[1]]
  <2>1. a[1] \in Event
    BY <1>0, <1>2
  <2>2. named'[a[1]] = named[a[1]]
    BY <1>2, <2>1, NamedForGood
  <2>3. cursor' = cursor \/ cursor' = cursor + 1
    BY OnlyComplete, Closing
  <2>4. \A n \in Nat : n <= cursor => n <= cursor'
    BY <1>0, <2>3
  <2>5. a[1] <= cursor'
    BY <1>0, <1>2, <2>1, <2>4
  <2> QED
    BY <1>2, <2>2, <2>5
<1>3. CASE a \in Recorded
  <2>1. ASSUME NEW p \in Process, Complete(p)
        PROVE  a[1] <= cursor' /\ a \in named'[a[1]]
    BY <1>0, <1>3, <2>1, Closing
  <2>2. ASSUME \A p \in Process : ~Complete(p)
        PROVE  a \in Recorded'
    BY <1>3, <2>2, OnlyComplete
  <2> QED
    BY <2>1, <2>2
<1> QED
  BY <1>1, <1>2, <1>3 DEF ChatInv, SendsAccounted

\* Every step keeps the completed events' markers true.
LEMMA DurableKept ==
  ASSUME ChatInv, [Next]_vars
  PROVE  CompletedIsDurable'
<1> SUFFICES ASSUME NEW e \in Event, e <= cursor'
             PROVE  /\ synced'[e] > 0
                    /\ named'[e] = sent' \cap SendsOf(e)
                    /\ inflight' \cap SendsOf(e) = {}
  BY DEF CompletedIsDurable
<1>0. cursor \in Nat /\ e \in Nat
  BY DEF ChatInv, TypeOK, StoreTypeOK, Event
<1>1. CASE e <= cursor
  <2>1. named[e] = sent \cap SendsOf(e) /\ inflight \cap SendsOf(e) = {}
    BY <1>1 DEF ChatInv, CompletedIsDurable
  <2>2. named'[e] = named[e] /\ synced'[e] > 0
    BY <1>1, NamedForGood
  <2>3. \A a \in SendsOf(e) : a \in inflight' \cup sent' => a \in inflight \cup sent
    BY <1>0, <1>1, Leaving DEF SendsOf
  <2>4. sent \subseteq sent'
    BY OwnersStep, Outside
  <2>5. inflight' \cap sent' = {}
    BY SendsMove
  <2> QED
    BY <2>1, <2>2, <2>3, <2>4, <2>5
<1>2. CASE ~(e <= cursor)
  <2>1. PICK p \in Process : Complete(p)
    BY <1>2, OnlyComplete
  <2>2. e = ev[p]
    BY <1>0, <1>2, <2>1, Closing
  <2> QED
    BY <2>1, <2>2, Closing
<1> QED
  BY <1>1, <1>2

\* The invariant of the chat, for any number of events, sends, processes and faults.
LEMMA ChatHolds == Spec => []ChatInv
<1>1. Init => Turns /\ Echoes /\ Calls /\ Files /\ SendsAccounted /\ CompletedIsDurable
  <2> SUFFICES ASSUME Init
               PROVE  Turns /\ Echoes /\ Calls /\ Files /\ SendsAccounted /\ CompletedIsDurable
    OBVIOUS
  <2>1. Recorded = {}
    BY DEF Init, StoreInit, Recorded
  <2>2. Turns
    BY <2>1 DEF Init, Turns, HasTurn, PastMark
  <2>3. Echoes
    BY DEF Init, StoreInit, Echoes
  <2>4. Calls
    BY DEF Init, StoreInit, Calls
  <2>5. Files
    BY DEF Init, Files
  <2>6. SendsAccounted /\ CompletedIsDurable
    BY DEF Init, StoreInit, SendsAccounted, CompletedIsDurable, Event
  <2> QED
    BY <2>2, <2>3, <2>4, <2>5, <2>6
<1>2. ASSUME ChatInv, [Next]_vars
      PROVE  Turns' /\ Echoes' /\ Calls' /\ Files' /\ SendsAccounted' /\ CompletedIsDurable'
  BY <1>2, TurnsKept, EchoesKept, CallsKept, FilesKept, AccountedKept, DurableKept
<1> DEFINE Rest == Turns /\ Echoes /\ Calls /\ Files /\ SendsAccounted /\ CompletedIsDurable
           Base == TypeOK /\ TurnBarrier /\ AtMostOneTurn /\ Fences /\ PausedOwner
<1>3. ChatInv <=> Base /\ Rest
  BY DEF ChatInv
<1>4. Base /\ Rest /\ [Next]_vars => Rest'
  BY <1>2, <1>3
<1>5. Spec => []Base
  BY TypeCorrect, PromptedAtMostOnce, Fenced, PTL
<1>6. Init => Rest
  BY <1>1
<1> HIDE DEF Rest, Base
<1> QED
  BY <1>3, <1>4, <1>5, <1>6, PTL DEF Spec

\* Every send that left is in the journal until the marker of its completed event
\* names it: only complete takes records out, and it closes the event they are of.
THEOREM SendsKept == Spec => []SendsAccounted
BY ChatHolds, PTL DEF ChatInv

\* The cursor passes an event only with a marker on disk that names exactly the
\* sends of its turn, none of them still on its way.
THEOREM CursorIsDurable == Spec => []CompletedIsDurable
BY ChatHolds, PTL DEF ChatInv

\* Only the prompt starts a turn.
LEMMA OnlyPrompt ==
  ASSUME ChatInv, [Next]_vars, \A p \in Process : ~Prompt(p)
  PROVE  prompts' = prompts
<1>1. ASSUME NEW p \in Process, WorkerStep(p) \/ AgentStep(p)
      PROVE  UNCHANGED prompts
  BY <1>1 DEF WorkerStep, AgentStep, Start, Lookup, Classify, Open, BeginTurn,
     PromptGate, Dispatch, Confirm, NotConfirmed, HookFails, Settle, AbortSettles,
     AppendGate, WriteMarker, SyncMarker, Complete, CompleteFails, Pause, GateLost,
     PreparationFails, PromptFails, PromptLeavesCalls, BeginSend, worldVars
<1> QED
  BY <1>1, Outside

\* The echo of a send of the agent is never given to the agent as a message: a
\* worker in a turn holds an event that is no echo.
THEOREM EchoesNeverPrompt == Spec => []EchoNeverPrompts
<1>1. Init => EchoNeverPrompts
  BY DEF Init, EchoNeverPrompts
<1>2. ASSUME ChatInv, EchoNeverPrompts, [Next]_vars
      PROVE  EchoNeverPrompts'
  <2>1. ASSUME NEW p \in Process, Prompt(p)
        PROVE  EchoNeverPrompts'
    <3>1. /\ Echo[ev[p]] = NoSend /\ prompts' = [prompts EXCEPT ![ev[p]] = @ + 1]
          /\ prompts \in [Event -> Nat]
      BY <1>2, <2>1 DEF Prompt, ChatInv, TypeOK, Turns, HasTurn
    <3> QED
      BY <1>2, <3>1 DEF EchoNeverPrompts
  <2> QED
    BY <1>2, <2>1, OnlyPrompt DEF EchoNeverPrompts
<1>3. ChatInv /\ EchoNeverPrompts /\ [Next]_vars => EchoNeverPrompts'
  BY <1>2
<1> QED
  BY <1>1, <1>3, ChatHolds, PTL DEF Spec

\* The file keeps one marker for an event that had a turn, even with a writer that
\* was suspended past its leases: it is the one worker in that turn.
THEOREM MarkersOnce == Spec => []OneMarkerPerTurn
<1>1. Init => OneMarkerPerTurn
  BY DEF Init, OneMarkerPerTurn
<1>2. ASSUME ChatInv, OneMarkerPerTurn, [Next]_vars, NEW e \in Event, Echo[e] = NoSend
      PROVE  markers'[e] <= 1
  <2>0. /\ markers \in [Event -> Nat] /\ markers[e] <= 1
        /\ synced[e] \in Nat /\ synced[e] <= markers[e]
    BY <1>2 DEF ChatInv, TypeOK, Files, OneMarkerPerTurn
  <2>1. ASSUME NEW p \in Process, WriteMarker(p)
        PROVE  markers'[e] <= 1
    <3>1. markers' = [markers EXCEPT ![ev[p]] = @ + 1] /\ pc[p] = "write"
      BY <2>1 DEF WriteMarker
    <3>2. CASE e = ev[p]
      <4>1. markers[e] = 0
        BY <1>2, <3>1, <3>2 DEF ChatInv, Turns, HasTurn
      <4> QED
        BY <2>0, <3>1, <3>2, <4>1
    <3>3. CASE e # ev[p]
      BY <2>0, <3>1, <3>3
    <3> QED
      BY <3>2, <3>3
  <2>2. ASSUME NEW p \in Process, WorkerStep(p) \/ AgentStep(p), ~WriteMarker(p)
        PROVE  UNCHANGED markers
    BY <2>2 DEF WorkerStep, AgentStep, Start, Lookup, Classify, Open, BeginTurn,
       PromptGate, Prompt, Dispatch, Confirm, NotConfirmed, HookFails, Settle, AbortSettles,
       AppendGate, SyncMarker, Complete, CompleteFails, Pause, GateLost,
       PreparationFails, PromptFails, PromptLeavesCalls, BeginSend, fileVars
  <2>3. ASSUME \A p \in Process : ~WorkerStep(p) /\ ~AgentStep(p)
        PROVE  markers'[e] \in {markers[e], synced[e]}
    BY <1>2, <2>3, Outside
  <2>4. (\A p \in Process : ~WorkerStep(p) /\ ~AgentStep(p)) => markers'[e] <= 1
    BY <2>0, <2>3
  <2> QED
    BY <2>0, <2>1, <2>2, <2>4
<1>3. ChatInv /\ OneMarkerPerTurn /\ [Next]_vars => OneMarkerPerTurn'
  BY <1>2 DEF OneMarkerPerTurn
<1> QED
  BY <1>1, <1>3, ChatHolds, PTL DEF Spec

\* At the prompt the journal is empty, so every send that left is named by the
\* marker of a completed event and none is on its way.
LEMMA SettledAtPrompt ==
  ASSUME ChatInv, NEW p \in Process, Prompt(p)
  PROVE  inflight = {} /\ \A a \in sent : a[1] <= cursor /\ a \in named[a[1]]
<1>0. inflight \subseteq Send /\ \A b \in Send : b[1] \in Event
  BY DEF ChatInv, TypeOK, Send
<1>1. Recorded = {}
  BY DEF Prompt, ChatInv, Turns, PastMark
<1>2. \A a \in inflight \cup sent : a[1] <= cursor /\ a \in named[a[1]]
  BY <1>1 DEF ChatInv, SendsAccounted
<1>3. \A a \in inflight : FALSE
  <2> SUFFICES ASSUME NEW a \in inflight PROVE FALSE
    OBVIOUS
  <2>1. a[1] \in Event /\ a[1] <= cursor /\ a \in SendsOf(a[1])
    BY <1>0, <1>2 DEF SendsOf
  <2> QED
    BY <2>1 DEF ChatInv, CompletedIsDurable
<1> QED
  BY <1>2, <1>3

\* A turn starts only when every earlier send is settled, though the prompt is
\* behind no fence.
THEOREM TurnsSettled == Spec => TurnsStartSettled
<1>1. ASSUME ChatInv, [Next]_vars, NEW e \in Event, prompts'[e] > prompts[e]
      PROVE  inflight = {} /\ \A a \in sent : a[1] <= cursor /\ a \in named[a[1]]
  <2>0. prompts[e] \in Nat
    BY <1>1 DEF ChatInv, TypeOK
  <2>1. PICK p \in Process : Prompt(p)
    BY <1>1, <2>0, OnlyPrompt
  <2> QED
    BY <1>1, <2>1, SettledAtPrompt
<1>2. ChatInv /\ [Next]_vars
        => [\A e \in Event : prompts'[e] > prompts[e] =>
              inflight = {} /\ \A a \in sent : a[1] <= cursor /\ a \in named[a[1]]]_vars
  BY <1>1
<1> QED
  BY <1>2, ChatHolds, PTL DEF Spec, TurnsStartSettled

-----------------------------------------------------------------------------
(* The ledger *)

\* The value the ledger's recorded has in a state of the controller.
Closed == UNION {named[e] : e \in 1..cursor}

\* The value the ledger's started has.
Started == {e \in Event : prompts[e] > 0}

\* While the cursor stays, the markers of closed events name what they named.
LEMMA ClosedStays ==
  ASSUME ChatInv, [Next]_vars, cursor' = cursor
  PROVE  Closed' = Closed
<1>0. cursor \in Nat /\ cursor <= MaxSeq /\ MaxSeq \in Nat
  BY StoreAssumption DEF ChatInv, TypeOK, StoreTypeOK, Event
<1>1. \A e \in 1..cursor : e \in Event /\ e <= cursor
  BY <1>0 DEF Event
<1>2. \A e \in 1..cursor : named'[e] = named[e]
  BY <1>1, NamedForGood
<1> QED
  BY <1>2 DEF Closed

\* The prompt starts the turn of the event after the closed ones, for the first time.
LEMMA PromptStarts ==
  ASSUME ChatInv, NEW p \in Process, Prompt(p)
  PROVE  /\ ev[p] = cursor + 1 /\ ev[p] \in Event /\ ev[p] \notin Started
         /\ Started' = Started \cup {ev[p]}
         /\ UNCHANGED <<cursor, sent, named>>
<1>0. cursor \in Nat /\ prompts \in [Event -> Nat]
  BY DEF ChatInv, TypeOK, StoreTypeOK, Event
<1>1. /\ HasTurn(p) /\ PastMark(p) /\ pc[p] # "idle" /\ UNCHANGED <<cursor, sent, named>>
      /\ prompts' = [prompts EXCEPT ![ev[p]] = @ + 1]
  BY DEF Prompt, HasTurn, PastMark, storeVars, stateVars, fileVars
<1>2. ev[p] \in Event /\ turnEvent = ev[p] /\ turnEvent \in {0, cursor + 1} /\ prompts[ev[p]] = 0
  BY <1>1 DEF ChatInv, Fences, Turns, TurnBarrier
<1>3. ev[p] = cursor + 1
  BY <1>2 DEF Event
<1> QED
  BY <1>0, <1>1, <1>2, <1>3 DEF Started

\* A send is executed in the turn of the event after the closed ones, once.
LEMMA DeliverExecutes ==
  ASSUME ChatInv, NEW a \in Send, Deliver(a)
  PROVE  /\ a[1] = cursor + 1 /\ a[1] \in Started /\ a \notin sent /\ sent' = sent \cup {a}
         /\ UNCHANGED <<cursor, prompts, named>>
<1>0. cursor \in Nat /\ a[1] \in Event /\ a[1] # 0
  BY DEF ChatInv, TypeOK, StoreTypeOK, Event, Send
<1>1. a \in inflight /\ sent' = sent \cup {a} /\ UNCHANGED <<cursor, prompts, named>>
  BY DEF Deliver, storeVars, stateVars, fileVars
<1>2. a \notin sent
  BY <1>1 DEF ChatInv, Calls
<1>3. ~(a[1] <= cursor)
  BY <1>0, <1>1 DEF ChatInv, CompletedIsDurable, SendsOf
<1>4. a \in Recorded
  BY <1>1, <1>3 DEF ChatInv, SendsAccounted
<1>5. a[1] = turnEvent /\ prompts[a[1]] > 0 /\ turnEvent \in {0, cursor + 1}
  BY <1>4 DEF ChatInv, Turns, TurnBarrier
<1> QED
  BY <1>0, <1>1, <1>2, <1>5 DEF Started

\* The markers of the closed events name exactly what was sent before the turn.
LEMMA CompleteRecords ==
  ASSUME ChatInv, NEW p \in Process, Complete(p)
  PROVE  cursor' = cursor + 1 /\ cursor < MaxSeq /\ Closed' = sent /\ UNCHANGED <<prompts, sent>>
<1>0. cursor \in Nat /\ MaxSeq \in Nat /\ sent \subseteq Send /\ \A a \in Send : a[1] \in Event
  BY StoreAssumption DEF ChatInv, TypeOK, StoreTypeOK, Event, Send
<1>1. /\ cursor' = cursor + 1 /\ cursor + 1 \in Event /\ UNCHANGED <<named, prompts, sent>>
      /\ named[cursor + 1] = sent \cap SendsOf(cursor + 1)
      /\ \A a \in Recorded : a[1] = cursor + 1
  BY Closing
<1>2. \A e \in 1..cursor' : named[e] \subseteq sent
  BY <1>0, <1>1 DEF ChatInv, Files, Event
<1>3. ASSUME NEW a \in sent
      PROVE  \E e \in 1..cursor' : a \in named[e]
  <2>1. CASE a \in Recorded
    BY <1>0, <1>1, <1>3, <2>1 DEF SendsOf
  <2>2. CASE a[1] <= cursor /\ a \in named[a[1]]
    <3>1. a[1] \in 1..cursor'
      BY <1>0, <1>1, <2>2 DEF Event
    <3> QED
      BY <2>2, <3>1
  <2> QED
    BY <1>3, <2>1, <2>2 DEF ChatInv, SendsAccounted
<1>4. cursor < MaxSeq
  BY <1>0, <1>1 DEF Event
<1>5. Closed' = sent
  BY <1>1, <1>2, <1>3 DEF Closed
<1> QED
  BY <1>1, <1>4, <1>5

\* Nothing else a step does shows in the ledger.
LEMMA OtherStepsStutter ==
  ASSUME ChatInv, [Next]_vars, \A p \in Process : ~Prompt(p) /\ ~Complete(p),
         \A a \in Send : ~Deliver(a)
  PROVE  UNCHANGED <<cursor, Started, sent, Closed>>
<1>1. cursor' = cursor /\ prompts' = prompts
  BY OnlyComplete, OnlyPrompt
<1>2. ASSUME \A p \in Process : ~WorkerStep(p) /\ ~AgentStep(p)
      PROVE  UNCHANGED sent
  BY <1>2 DEF Next, Admit, Acquire, Claim, LoseApp, Drain, FailClosed, Crash, HostCrash,
     DropSend, ExpireApp, ExpireLease, GapTimer, vars, worldVars
<1>3. UNCHANGED sent
  BY <1>2, OwnersStep
<1> QED
  BY <1>1, <1>3, ClosedStays DEF Started

\* The controller implements the ledger: a prompt starts a turn, a delivery executes
\* a send, complete closes an event, and every other step leaves the ledger as it is.
THEOREM LedgerImplemented == Spec => ImplementsLedger
<1>1. Init => Ledger!Init
  <2> SUFFICES ASSUME Init PROVE Ledger!Init
    OBVIOUS
  <2>1. cursor = 0 /\ sent = {} /\ \A e \in Event : prompts[e] = 0
    BY DEF Init, StoreInit
  <2>2. 1..cursor = {}
    BY <2>1
  <2> QED
    BY <2>1, <2>2 DEF Ledger!Init
<1>2. ASSUME ChatInv, [Next]_vars
      PROVE  [Ledger!Next]_(Ledger!ledger)
  <2>0. cursor \in Nat /\ MaxSeq \in Nat
    BY <1>2, StoreAssumption DEF ChatInv, TypeOK, StoreTypeOK, Event
  <2>1. ASSUME NEW p \in Process, Prompt(p)
        PROVE  Ledger!StartTurn
    <3>1. /\ ev[p] = cursor + 1 /\ ev[p] \in Event /\ ev[p] \notin Started
          /\ Started' = Started \cup {ev[p]} /\ UNCHANGED <<cursor, sent, named>>
      BY <1>2, <2>1, PromptStarts
    <3>2. cursor < MaxSeq /\ Closed' = Closed
      BY <1>2, <2>0, <3>1, ClosedStays DEF Event
    <3> QED
      BY <3>1, <3>2 DEF Ledger!StartTurn, Started, Closed
  <2>2. ASSUME NEW a \in Send, Deliver(a)
        PROVE  Ledger!ExecuteSend(a)
    <3>1. /\ a[1] = cursor + 1 /\ a[1] \in Started /\ a \notin sent /\ sent' = sent \cup {a}
          /\ UNCHANGED <<cursor, prompts, named>>
      BY <1>2, <2>2, DeliverExecutes
    <3>2. Closed' = Closed
      BY <1>2, <3>1, ClosedStays
    <3> QED
      BY <3>1, <3>2 DEF Ledger!ExecuteSend, Started, Closed
  <2>3. ASSUME NEW p \in Process, Complete(p)
        PROVE  Ledger!CloseEvent
    BY <1>2, <2>3, CompleteRecords DEF Ledger!CloseEvent, Closed
  <2>4. ASSUME \A p \in Process : ~Prompt(p) /\ ~Complete(p), \A a \in Send : ~Deliver(a)
        PROVE  UNCHANGED Ledger!ledger
    BY <1>2, <2>4, OtherStepsStutter DEF Ledger!ledger, Started, Closed
  <2> QED
    BY <2>1, <2>2, <2>3, <2>4 DEF Ledger!Next
<1>3. ChatInv /\ [Next]_vars => [Ledger!Next]_(Ledger!ledger)
  BY <1>2
<1> QED
  BY <1>1, <1>3, ChatHolds, PTL DEF Spec, ImplementsLedger, Ledger!Spec

-----------------------------------------------------------------------------
(* What the ledger is good for *)

\* A send, however long it was on its way, is executed in the one turn of the
\* event after the closed ones, never before that turn or after its event closed.
SendsComeInTurn ==
  [][\A a \in sent' \ sent : a[1] = cursor + 1 /\ prompts[a[1]] = 1]_vars

\* Shown of the ledger's actions alone and carried over by the refinement: the
\* messages of the agent leave in the sequence of the events they answer.
THEOREM SendsOrdered == Spec => SendsComeInTurn
<1>1. ASSUME ChatInv, [Ledger!Next]_(Ledger!ledger), NEW a \in sent' \ sent
      PROVE  a[1] = cursor + 1 /\ prompts[a[1]] = 1
  <2>1. ~Ledger!StartTurn /\ ~Ledger!CloseEvent /\ ~UNCHANGED Ledger!ledger
    BY <1>1 DEF Ledger!StartTurn, Ledger!CloseEvent, Ledger!ledger
  <2>2. PICK b \in Send : Ledger!ExecuteSend(b)
    BY <1>1, <2>1 DEF Ledger!Next
  <2>3. a = b /\ a[1] = cursor + 1 /\ a[1] \in Event /\ prompts[a[1]] > 0
    BY <1>1, <2>2 DEF Ledger!ExecuteSend
  <2>4. prompts[a[1]] \in Nat /\ prompts[a[1]] <= 1
    BY <1>1, <2>3 DEF ChatInv, TypeOK, AtMostOneTurn
  <2> QED
    BY <2>3, <2>4
<1>2. ChatInv /\ [Ledger!Next]_(Ledger!ledger)
        => [\A a \in sent' \ sent : a[1] = cursor + 1 /\ prompts[a[1]] = 1]_vars
  BY <1>1
<1> QED
  BY <1>2, ChatHolds, LedgerImplemented, PTL DEF ImplementsLedger, Ledger!Spec, SendsComeInTurn
=============================================================================
