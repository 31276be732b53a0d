----------------------------- MODULE ChatWorker -----------------------------
(***************************************************************************)
(* Controller processes working one chat: the coordinator's claim,         *)
(* runChatWorker with the session host and tool journal it drives, the     *)
(* chat's Pi session file, and the sends that leave for WhatsApp.          *)
(*                                                                         *)
(* A process keeps nothing across a crash.  Processes may overlap: one     *)
(* that was suspended past its leases resumes at the step it was about to  *)
(* take.  A step of the code is one action when a fenced script decides    *)
(* it; an effect the fence cannot cover (starting a prompt, letting a send *)
(* leave, appending to the file) is an action apart from the ownership     *)
(* gate before it, so leases may expire in between.                        *)
(***************************************************************************)
EXTENDS ChatStore

CONSTANTS Process,   \* controller processes that may run, one after another or at once
          Echo,      \* Echo[e] is the send whose WhatsApp echo event e is, or NoSend
          NoSend,
          MaxFaults  \* crashes, restarts and stalls past a lease in one behaviour

ASSUME WorkerAssumption ==
  /\ MaxFaults \in Nat
  /\ NoSend \notin Send
  /\ Echo \in [Event -> Send \cup {NoSend}]
  /\ \A e \in Event : Echo[e] # NoSend => Echo[e][1] < e

VARIABLES
  live,      \* live[p]: the coordinator of p believes it holds the application lease
  ep,        \* ep[p]: application epoch p acquired
  pc, ev, ce,\* step, claimed event and chat epoch of p's worker
  sess,      \* session file p's worker opened
  context,   \* the event is an own echo: completed as context, never prompted
  call,      \* call[p][n]: progress of the n-th mutation of p's turn
  conf,      \* confirmed sends the marker of p's worker will name
  reason,    \* pause reason after a failure
  markers,   \* markers[e]: completion markers for e in the session file
  synced,    \* synced[e]: how many of them are known to be on disk
  named,     \* named[e]: sends the first marker for e names
  prompts,   \* history: prompts[e]: times the agent was prompted with e
  inflight,  \* sends that left and have not been executed
  sent,      \* sends WhatsApp executed
  faults

workerVars == <<ep, pc, ev, ce, sess, context, call, conf, reason>>
fileVars == <<markers, synced, named>>
worldVars == <<prompts, inflight, sent>>
vars == <<storeVars, live, workerVars, fileVars, worldVars, faults>>

Step == {"idle", "start", "lookup", "classify", "open", "prepare", "begun", "prompt",
         "turn", "abort", "append", "write", "sync", "complete", "catch"}
Progress == {"none", "begun", "gone"}
NoCalls == [n \in 1..MaxSends |-> "none"]

TypeOK ==
  /\ StoreTypeOK
  /\ live \in [Process -> BOOLEAN]
  /\ ep \in [Process -> Nat]
  /\ pc \in [Process -> Step]
  /\ ev \in [Process -> Event \cup {0}]
  /\ ce \in [Process -> Nat]
  /\ sess \in [Process -> Nat]
  /\ context \in [Process -> BOOLEAN]
  /\ call \in [Process -> [1..MaxSends -> Progress]]
  /\ conf \in [Process -> SUBSET Send]
  /\ reason \in [Process -> Pauses \cup {"none"}]
  /\ markers \in [Event -> Nat]
  /\ synced \in [Event -> Nat]
  /\ named \in [Event -> SUBSET Send]
  /\ prompts \in [Event -> Nat]
  /\ inflight \in SUBSET Send
  /\ sent \in SUBSET Send
  /\ faults \in 0..MaxFaults

Init ==
  /\ StoreInit
  /\ live = [p \in Process |-> FALSE]
  /\ ep = [p \in Process |-> 0]
  /\ pc = [p \in Process |-> "idle"]
  /\ ev = [p \in Process |-> 0]
  /\ ce = [p \in Process |-> 0]
  /\ sess = [p \in Process |-> 0]
  /\ context = [p \in Process |-> FALSE]
  /\ call = [p \in Process |-> NoCalls]
  /\ conf = [p \in Process |-> {}]
  /\ reason = [p \in Process |-> "none"]
  /\ markers = [e \in Event |-> 0]
  /\ synced = [e \in Event |-> 0]
  /\ named = [e \in Event |-> {}]
  /\ prompts = [e \in Event |-> 0]
  /\ inflight = {} /\ sent = {}
  /\ faults = 0

-----------------------------------------------------------------------------
(* Helpers *)

\* context.current(): the process still believes, and the store agrees.
Owns(p) == live[p] /\ Work(ep[p], ce[p], ev[p])

\* Strict evidence: a session file with two markers for one event is refused.
Readable == \A e \in Event : markers[e] <= 1

Goto(p, s) == pc' = [pc EXCEPT ![p] = s]

\* A controller error, carrying the reason the worker will pause with.
Throw(p, why) ==
  /\ Goto(p, "catch")
  /\ reason' = [reason EXCEPT ![p] = why]

\* The next step when ok, a controller error otherwise.
Require(p, ok, next, why) ==
  IF ok THEN Goto(p, next) /\ UNCHANGED reason ELSE Throw(p, why)

\* The worker function of p returns; nothing of its state is kept.
Return(p) ==
  /\ pc' = [pc EXCEPT ![p] = "idle"]
  /\ ev' = [ev EXCEPT ![p] = 0]
  /\ ce' = [ce EXCEPT ![p] = 0]
  /\ sess' = [sess EXCEPT ![p] = 0]
  /\ context' = [context EXCEPT ![p] = FALSE]
  /\ call' = [call EXCEPT ![p] = NoCalls]
  /\ conf' = [conf EXCEPT ![p] = {}]
  /\ reason' = [reason EXCEPT ![p] = "none"]

\* Every record of the journal is a confirmed send of event e.
AllConfirmed(e) == \A a \in Recorded : tools[a] = "confirmed" /\ a[1] = e

Fault == faults < MaxFaults /\ faults' = faults + 1

\* A process renews the application lease; a worker renews the chat lease.
AppTended == \E p \in Process : live[p] /\ ep[p] = appEpoch
LeaseTended == \E p \in Process : pc[p] # "idle" /\ live[p] /\ ce[p] = leaseEpoch

-----------------------------------------------------------------------------
(* Coordinator and intake *)

\* The intake admits event e; an echo exists only once its send was executed.
Admit(e) ==
  /\ Echo[e] # NoSend => Echo[e] \in sent
  /\ markers[e] = 0 /\ Readable
  /\ Accept(e)
  /\ UNCHANGED <<live, workerVars, fileVars, worldVars, faults>>

\* coordinator.start of a fresh process.
Acquire(p) ==
  /\ ~live[p] /\ pc[p] = "idle"
  /\ AppAcquire
  /\ live' = [live EXCEPT ![p] = TRUE]
  /\ ep' = [ep EXCEPT ![p] = appEpoch + 1]
  /\ UNCHANGED <<pc, ev, ce, sess, context, call, conf, reason, fileVars, worldVars, faults>>

Claim(p) ==
  /\ live[p] /\ pc[p] = "idle"
  /\ \/ /\ ClaimUnresolved(ep[p]) \/ ClaimGap(ep[p])
        /\ UNCHANGED workerVars
     \/ /\ ClaimGrant(ep[p])
        /\ Goto(p, "start")
        /\ ev' = [ev EXCEPT ![p] = cursor + 1]
        /\ ce' = [ce EXCEPT ![p] = leaseEpoch + 1]
        /\ UNCHANGED <<ep, sess, context, call, conf, reason>>
  /\ UNCHANGED <<live, fileVars, worldVars, faults>>

\* lose(): a renewal or a claim is refused because the application lease is gone.
LoseApp(p) ==
  /\ live[p]
  /\ ~AppAlive(ep[p])
  /\ live' = [live EXCEPT ![p] = FALSE]
  /\ UNCHANGED <<storeVars, workerVars, fileVars, worldVars, faults>>

\* stopScheduling and drain: no worker runs, the application lease is given back.
Drain(p) ==
  /\ live[p] /\ pc[p] = "idle" /\ Fault
  /\ AppRelease(ep[p])
  /\ live' = [live EXCEPT ![p] = FALSE]
  /\ UNCHANGED <<workerVars, fileVars, worldVars>>

-----------------------------------------------------------------------------
(* runChatWorker *)

Start(p) ==
  /\ pc[p] = "start" /\ Owns(p)
  /\ Require(p, cursor + 1 = ev[p] /\ pause = "none", "lookup", "sequence_gap")
  /\ UNCHANGED <<storeVars, live, ep, ev, ce, sess, context, call, conf, fileVars, worldVars, faults>>

\* findEvent: reading the evidence makes every complete marker durable first.
Lookup(p) ==
  /\ pc[p] = "lookup" /\ Owns(p)
  /\ Require(p, Readable, IF markers[ev[p]] = 1 THEN "complete" ELSE "classify", "session_failed")
  /\ synced' = IF Readable THEN markers ELSE synced
  /\ sess' = [sess EXCEPT ![p] = session]
  /\ UNCHANGED <<storeVars, live, ep, ev, ce, context, call, conf, markers, named, worldVars, faults>>

\* Mutant: only the live journal is asked, not the markers.
KnownEchoLive(e) == Echo[e] # NoSend /\ tools[Echo[e]] = "confirmed"

\* An own message is known when the journal or a durable marker names its send.
KnownEcho(e) ==
  /\ Echo[e] # NoSend
  /\ \/ tools[Echo[e]] = "confirmed"
     \/ \E d \in Event : markers[d] > 0 /\ Echo[e] \in named[d]

\* ownMutation, turnState and classifyOwn.
Classify(p) ==
  /\ pc[p] = "classify" /\ Owns(p)
  /\ Require(p, Unresolved = {} /\ turnEvent = 0, "open",
             IF Unresolved = {} /\ turnEvent # ev[p] THEN "session_failed" ELSE "mutation_uncertain")
  /\ context' = [context EXCEPT ![p] = KnownEcho(ev[p])]
  /\ UNCHANGED <<storeVars, live, ep, ev, ce, sess, call, conf, fileVars, worldVars, faults>>

\* host.open seeds and syncs a new session file or checks the bound one; bindSession.
Open(p) ==
  /\ pc[p] = "open" /\ live[p]
  /\ LET s == IF sess[p] = 0 THEN ce[p] ELSE sess[p] IN
       /\ Bind(ep[p], ce[p], ev[p], s)
       /\ sess' = [sess EXCEPT ![p] = s]
  /\ Goto(p, IF context[p] THEN "append" ELSE "prepare")
  /\ UNCHANGED <<live, ep, ev, ce, context, call, conf, reason, fileVars, worldVars, faults>>

BeginTurn(p) ==
  /\ pc[p] = "prepare" /\ live[p]
  /\ BeginTurnMark(ep[p], ce[p], ev[p])
  /\ Goto(p, "begun")
  /\ UNCHANGED <<live, ep, ev, ce, sess, context, call, conf, reason, fileVars, worldVars, faults>>

\* The last gate before the prompt, and journal.run's refusal to replay.
PromptGate(p) ==
  /\ pc[p] = "begun" /\ Owns(p)
  /\ Require(p, Recorded \cap SendsOf(ev[p]) = {}, "prompt", "mutation_uncertain")
  /\ UNCHANGED <<storeVars, live, ep, ev, ce, sess, context, call, conf, fileVars, worldVars, faults>>

\* No fence covers the call that starts the agent.
Prompt(p) ==
  /\ pc[p] = "prompt"
  /\ prompts' = [prompts EXCEPT ![ev[p]] = @ + 1]
  /\ Goto(p, "turn")
  /\ UNCHANGED <<storeVars, live, ep, ev, ce, sess, context, call, conf, reason, fileVars, inflight, sent, faults>>

\* Anything the Pi SDK, the model provider or compaction may throw before the turn.
PreparationFails(p) ==
  /\ pc[p] \in {"lookup", "classify", "open", "prepare"}
  /\ Throw(p, "session_failed")
  /\ UNCHANGED <<storeVars, live, ep, ev, ce, sess, context, call, conf, fileVars, worldVars, faults>>

-----------------------------------------------------------------------------
(* Tool journal: the mutations of a running turn *)

\* tool_call hook, first half: the attempt is recorded.
BeginSend(p, n) ==
  /\ pc[p] = "turn" /\ live[p] /\ call[p][n] = "none"
  /\ JournalBegin(ep[p], ce[p], ev[p], sess[p], <<ev[p], n>>)
  /\ call' = [call EXCEPT ![p][n] = "begun"]
  /\ UNCHANGED <<live, ep, pc, ev, ce, sess, context, conf, reason, fileVars, worldVars, faults>>

\* tool_call hook, second half: file record and gate passed, the tool runs.
Dispatch(p, n) ==
  /\ pc[p] = "turn" /\ Owns(p) /\ call[p][n] = "begun"
  /\ inflight' = inflight \cup {<<ev[p], n>>}
  /\ call' = [call EXCEPT ![p][n] = "gone"]
  /\ UNCHANGED <<storeVars, live, ep, pc, ev, ce, sess, context, conf, reason, fileVars, prompts, sent, faults>>

\* Mutant: any answer counts as a confirmation.
ConfirmAnyway(p, n) ==
  /\ pc[p] = "turn" /\ live[p] /\ call[p][n] = "gone"
  /\ JournalConfirm(ep[p], ce[p], ev[p], <<ev[p], n>>)
  /\ call' = [call EXCEPT ![p][n] = "none"]
  /\ UNCHANGED <<live, ep, pc, ev, ce, sess, context, conf, reason, fileVars, worldVars, faults>>

\* tool_result hook, when the result proves the message was sent.
Confirm(p, n) ==
  /\ pc[p] = "turn" /\ live[p] /\ call[p][n] = "gone"
  /\ <<ev[p], n>> \in sent
  /\ JournalConfirm(ep[p], ce[p], ev[p], <<ev[p], n>>)
  /\ call' = [call EXCEPT ![p][n] = "none"]
  /\ UNCHANGED <<live, ep, pc, ev, ce, sess, context, conf, reason, fileVars, worldVars, faults>>

\* tool_result hook, when it does not: the run is poisoned.
NotConfirmed(p, n) ==
  /\ pc[p] = "turn" /\ live[p] /\ call[p][n] = "gone"
  /\ JournalUncertain(ep[p], ce[p], ev[p], <<ev[p], n>>)
  /\ Goto(p, "abort")
  /\ UNCHANGED <<live, ep, ev, ce, sess, context, call, conf, reason, fileVars, worldVars, faults>>

\* A hook finds the lease gone, an answer missing or the file not written: poisoned.
HookFails(p) ==
  /\ pc[p] = "turn"
  /\ Goto(p, "abort")
  /\ UNCHANGED <<storeVars, live, ep, ev, ce, sess, context, call, conf, reason, fileVars, worldVars, faults>>

\* The agent settled and every record of the journal is a confirmed send of it.
Settle(p) ==
  /\ pc[p] = "turn" /\ Owns(p)
  /\ call[p] = NoCalls
  /\ Require(p, AllConfirmed(ev[p]), "append", "mutation_uncertain")
  /\ UNCHANGED <<storeVars, live, ep, ev, ce, sess, context, call, conf, fileVars, worldVars, faults>>

\* The prompt failed with no call open.
PromptFails(p) ==
  /\ pc[p] = "turn" /\ call[p] = NoCalls
  /\ Throw(p, "session_failed")
  /\ UNCHANGED <<storeVars, live, ep, ev, ce, sess, context, call, conf, fileVars, worldVars, faults>>

\* The prompt ended with calls open: one of them is made uncertain.
PromptLeavesCalls(p) ==
  /\ pc[p] \in {"turn", "abort"} /\ live[p]
  /\ \E n \in 1..MaxSends :
       /\ call[p][n] # "none"
       /\ JournalUncertain(ep[p], ce[p], ev[p], <<ev[p], n>>)
  /\ Throw(p, "mutation_uncertain")
  /\ UNCHANGED <<live, ep, ev, ce, sess, context, call, conf, fileVars, worldVars, faults>>

\* A poisoned run ends; a call it leaves open stays as the journal has it.
AbortSettles(p) ==
  /\ pc[p] = "abort"
  /\ Throw(p, "mutation_uncertain")
  /\ UNCHANGED <<storeVars, live, ep, ev, ce, sess, context, call, conf, fileVars, worldVars, faults>>

-----------------------------------------------------------------------------
(* Completion *)

\* turns.confirmed, then appendCompletion up to its last gate before the append.
AppendGate(p) ==
  /\ pc[p] = "append" /\ Owns(p)
  /\ Require(p, AllConfirmed(ev[p]) /\ Readable /\ markers[ev[p]] = 0, "write",
             IF AllConfirmed(ev[p]) THEN "session_failed" ELSE "mutation_uncertain")
  /\ conf' = [conf EXCEPT ![p] = Recorded]
  /\ UNCHANGED <<storeVars, live, ep, ev, ce, sess, context, call, fileVars, worldVars, faults>>

\* manager.appendCustomEntry: no fence covers the file.
WriteMarker(p) ==
  /\ pc[p] = "write"
  /\ markers' = [markers EXCEPT ![ev[p]] = @ + 1]
  /\ named' = [named EXCEPT ![ev[p]] = IF markers[ev[p]] = 0 THEN conf[p] ELSE @]
  /\ Goto(p, "sync")
  /\ UNCHANGED <<storeVars, live, ep, ev, ce, sess, context, call, conf, reason, synced, worldVars, faults>>

\* fsync, then the marker is read back from the file; either may fail.
SyncMarker(p) ==
  /\ pc[p] = "sync" /\ Owns(p)
  /\ \/ synced' = markers /\ Require(p, Readable, "complete", "session_failed")
     \/ UNCHANGED synced /\ Throw(p, "session_failed")
  /\ UNCHANGED <<storeVars, live, ep, ev, ce, sess, context, call, conf, markers, named, worldVars, faults>>

\* repository.complete re-reads the durable marker inside its writer interval.
Complete(p) ==
  /\ pc[p] = "complete" /\ Owns(p)
  /\ Readable /\ markers[ev[p]] = 1
  /\ CompleteEvent(ep[p], ce[p], ev[p], sess[p], named[ev[p]])
  /\ synced' = markers
  /\ Return(p)
  /\ UNCHANGED <<live, ep, markers, named, worldVars, faults>>

\* complete is refused; a file that cannot be read inside the interval also
\* makes the store connection unhealthy, which ends the process.
CompleteFails(p) ==
  /\ pc[p] = "complete" /\ Owns(p)
  /\ ~(Readable /\ markers[ev[p]] = 1 /\ MayComplete(ev[p], sess[p], named[ev[p]]))
  /\ Throw(p, "session_failed")
  /\ live' = [live EXCEPT ![p] = Readable]
  /\ UNCHANGED <<storeVars, ep, ev, ce, sess, context, call, conf, fileVars, worldVars, faults>>

\* catch: still the owner, so the chat is paused.  The lease is left to expire.
Pause(p) ==
  /\ pc[p] = "catch" /\ live[p]
  /\ SetPause(ep[p], ce[p], ev[p], reason[p])
  /\ Return(p)
  /\ UNCHANGED <<live, ep, fileVars, worldVars, faults>>

\* A gate is refused: the worker ends, and losing one chat lease ends the process.
GateLost(p) ==
  /\ pc[p] \in Step \ {"idle", "prompt", "turn", "abort", "write"}
  /\ ~Owns(p)
  /\ live' = [live EXCEPT ![p] = FALSE]
  /\ Return(p)
  /\ UNCHANGED <<storeVars, ep, fileVars, worldVars, faults>>

-----------------------------------------------------------------------------
(* The outside world and the faults *)

Deliver(a) ==
  /\ a \in inflight
  /\ inflight' = inflight \ {a} /\ sent' = sent \cup {a}
  /\ UNCHANGED <<storeVars, live, workerVars, fileVars, prompts, faults>>

DropSend(a) ==
  /\ a \in inflight
  /\ inflight' = inflight \ {a}
  /\ UNCHANGED <<storeVars, live, workerVars, fileVars, prompts, sent, faults>>

\* A lease nobody renews expires; one somebody renews only if that one stalls.
ExpireApp ==
  /\ AppExpires
  /\ IF AppTended THEN Fault ELSE UNCHANGED faults
  /\ UNCHANGED <<live, workerVars, fileVars, worldVars>>

ExpireLease ==
  /\ LeaseExpires
  /\ IF LeaseTended THEN Fault ELSE UNCHANGED faults
  /\ UNCHANGED <<live, workerVars, fileVars, worldVars>>

GapTimer ==
  /\ GapElapses
  /\ UNCHANGED <<live, workerVars, fileVars, worldVars, faults>>

\* failClosed: the bridge monitor, or a store command that failed or got no
\* answer; a script that took effect may be the one that got none.
FailClosed(p) ==
  /\ live[p] /\ Fault
  /\ live' = [live EXCEPT ![p] = FALSE]
  /\ UNCHANGED <<storeVars, workerVars, fileVars, worldVars>>

Crash(p) ==
  /\ live[p] \/ pc[p] # "idle"
  /\ Fault
  /\ live' = [live EXCEPT ![p] = FALSE]
  /\ Return(p)
  /\ UNCHANGED <<storeVars, ep, fileVars, worldVars>>

\* The machine fails: every process ends, appends not yet on disk may be gone.
HostCrash ==
  /\ Fault
  /\ live' = [p \in Process |-> FALSE]
  /\ pc' = [p \in Process |-> "idle"]
  /\ ev' = [p \in Process |-> 0]
  /\ ce' = [p \in Process |-> 0]
  /\ sess' = [p \in Process |-> 0]
  /\ context' = [p \in Process |-> FALSE]
  /\ call' = [p \in Process |-> NoCalls]
  /\ conf' = [p \in Process |-> {}]
  /\ reason' = [p \in Process |-> "none"]
  /\ \E kept \in SUBSET Event :
       markers' = [e \in Event |-> IF e \in kept THEN markers[e] ELSE synced[e]]
  /\ synced' = markers'
  /\ UNCHANGED <<storeVars, ep, named, worldVars>>

-----------------------------------------------------------------------------

WorkerStep(p) ==
  \/ Start(p) \/ Lookup(p) \/ Classify(p) \/ Open(p) \/ BeginTurn(p)
  \/ PromptGate(p) \/ Prompt(p)
  \/ \E n \in 1..MaxSends : Dispatch(p, n) \/ Confirm(p, n) \/ NotConfirmed(p, n)
  \/ HookFails(p) \/ Settle(p) \/ AbortSettles(p)
  \/ AppendGate(p) \/ WriteMarker(p) \/ SyncMarker(p) \/ Complete(p) \/ CompleteFails(p)
  \/ Pause(p) \/ GateLost(p)

\* Steps the agent or its provider chooses to take.
AgentStep(p) ==
  \/ PreparationFails(p) \/ PromptFails(p) \/ PromptLeavesCalls(p)
  \/ \E n \in 1..MaxSends : BeginSend(p, n)

Next ==
  \/ \E e \in Event : Admit(e)
  \/ \E p \in Process : Acquire(p) \/ Claim(p) \/ LoseApp(p) \/ WorkerStep(p) \/ AgentStep(p)
  \/ \E a \in Send : Deliver(a) \/ DropSend(a)
  \/ ExpireApp \/ ExpireLease \/ GapTimer
  \/ \E p \in Process : Drain(p) \/ FailClosed(p) \/ Crash(p)
  \/ HostCrash

Spec == Init /\ [][Next]_vars

(***************************************************************************)
(* Fairness.  Timers and loops of the code that nothing can hold up: the   *)
(* claim and renewal loops, the steps of a running worker, expiry of a     *)
(* lease nobody renews, the gap clock, a supervisor restarting a process.  *)
(* The agent, the faults and the network owe nothing: a worker that waits  *)
(* for the model or for a tool it called has no timeout, keeps renewing    *)
(* its leases, and may wait for ever.                                      *)
(***************************************************************************)
AtModel(p) == pc[p] \in {"prepare", "turn", "abort"}

Fairness ==
  /\ \A p \in Process : WF_vars(Claim(p)) /\ WF_vars(LoseApp(p))
                        /\ WF_vars(WorkerStep(p) /\ ~AtModel(p))
  /\ WF_vars(\E p \in Process : Acquire(p))
  /\ WF_vars(~AppTended /\ ExpireApp) /\ WF_vars(~LeaseTended /\ ExpireLease)
  /\ WF_vars(GapTimer)

FairSpec == Spec /\ Fairness

-----------------------------------------------------------------------------
(* Properties *)

\* The agent is prompted with an event at most once, whatever crashes, overlaps
\* or stalls: the turnEvent barrier of begin-turn and turn-state.
AtMostOneTurn == \A e \in Event : prompts[e] <= 1

\* Every send that left is in the journal until the marker of its completed
\* event names it, so no crash between the two can hide a send.
SendsAccounted ==
  \A a \in inflight \cup sent :
    a \in Recorded \/ (a[1] <= cursor /\ a \in named[a[1]])

\* The cursor moves past an event only with a marker on disk that names exactly
\* the sends the event's turn made, and none of them is still on its way.
CompletedIsDurable ==
  \A e \in Event : e <= cursor =>
    /\ synced[e] > 0
    /\ named[e] = sent \cap SendsOf(e)
    /\ inflight \cap SendsOf(e) = {}

\* The echo of a send of the agent is never given to the agent as a message.
EchoNeverPrompts == \A e \in Event : Echo[e] # NoSend => prompts[e] = 0

\* The file keeps one marker for an event that had a turn, even with a writer
\* that was suspended past its leases.
OneMarkerPerTurn == \A e \in Event : Echo[e] = NoSend => markers[e] <= 1

\* A turn starts only when every earlier send is settled: none on its way and
\* each named by the marker of a completed event.
TurnsStartSettled ==
  [][\A e \in Event : prompts'[e] > prompts[e] =>
       inflight = {} /\ \A a \in sent : a[1] <= cursor /\ a \in named[a[1]]]_vars

\* A pause holds: nobody, a stale worker included, completes an event or begins
\* a turn in a paused chat, though neither script looks at the pause.
PausedChatIsFrozen ==
  [][pause # "none" => UNCHANGED <<cursor, turnEvent, leaseEpoch>>]_vars

\* The next event, once admitted, is completed or the chat is paused for an operator,
\* unless its own turn never ends and its process goes on renewing the application
\* lease: nothing else holds an event up for ever, and no such turn is left behind by
\* a process that ended.
NextEventSettles ==
  \A e \in Event :
    (e \in admitted /\ cursor = e - 1) ~>
      \/ cursor >= e \/ pause # "none"
      \/ \E p \in Process : [](AtModel(p) /\ ev[p] = e /\ AppAlive(ep[p]))

\* An event behind a missing sequence does not wait for ever in silence: the gap
\* is filled or becomes a pause.
GapSurfaces ==
  (admitted # {} /\ cursor + 1 \notin admitted) ~>
    (pause # "none" \/ cursor + 1 \in admitted)

Ledger == INSTANCE TurnLedger WITH
  done <- cursor,
  started <- {e \in Event : prompts[e] > 0},
  recorded <- UNION {named[e] : e \in 1..cursor}

\* The controller keeps the ledger's promises.
ImplementsLedger == Ledger!Spec
=============================================================================
