------------------------------ MODULE Lifecycle ------------------------------
(***************************************************************************)
(* One controller process from start-up to exit: runLifecycle, what it     *)
(* starts (the coordinator's loop and heartbeat, chat workers, the lazily  *)
(* built Pi host, intake requests, the bridge monitor) and what ends it    *)
(* (signals, a lost lease, a failed probe, a broken store, a failing       *)
(* start-up), in any order.                                                *)
(*                                                                         *)
(* The program is single-threaded: what it does between two awaits is one  *)
(* action, whoever else waits.  requestStop, failClosed, lose and the      *)
(* lease_lost diagnostic call one another synchronously; together they are *)
(* the operators RequestStop and Lose.                                     *)
(***************************************************************************)
EXTENDS Integers, FiniteSets

CONSTANTS Chat,        \* canonical chats
          Request,     \* the slots for requests in flight (http.maxInflight)
          Concurrency, \* chats worked at once
          NoChat,
          MaxFaults    \* stalls past a lease, lost chat leases, store failures

ASSUME LifecycleAssumption ==
  /\ Concurrency \in Nat \ {0} /\ MaxFaults \in Nat
  /\ NoChat \notin Chat

VARIABLES
  pc,            \* where runLifecycle waits
  armed,         \* signals whose listener is installed
  operational, stopRequested, exit,
  monitor,       \* the bridge monitor
  loop, target,  \* the claim loop and the chat it asks for
  heartbeat,     \* renewal of the application lease
  lost,          \* the coordinator gave its lease up (lossReported, failClosedInvoked)
  host,          \* the Pi host behind createLazyPiHost
  worker,        \* worker[c]: the active worker of chat c
  request,       \* request[r]: the request in slot r
  store,         \* the Redis connections are healthy
  lease,         \* who holds the application lease
  faults

mainVars == <<pc, armed>>
stopVars == <<operational, stopRequested, exit, lost>>
taskVars == <<monitor, loop, target, heartbeat, host, worker, request>>
worldVars == <<store, lease, faults>>
vars == <<mainVars, stopVars, taskVars, worldVars>>

Signal == {"SIGINT", "SIGTERM"}

Startup == {"connect", "createRepository", "listen", "waitForBridge", "start", "started"}
Cleanup == {"drain", "workers", "heartbeat", "release", "server", "host", "redis"}
End == {"ended", "killed"}

TypeOK ==
  /\ pc \in Startup \cup {"serve"} \cup Cleanup \cup End
  /\ armed \subseteq Signal
  /\ operational \in BOOLEAN /\ stopRequested \in BOOLEAN /\ lost \in BOOLEAN
  /\ exit \in 0..1
  /\ monitor \in {"none", "running", "ended"}
  /\ loop \in {"none", "look", "recover", "claim", "wait", "ended"}
  /\ target \in Chat \cup {NoChat}
  /\ heartbeat \in {"none", "wait", "renew", "ended"}
  /\ host \in {"none", "pending", "up", "failed"}
  /\ worker \in [Chat -> {"idle", "gate", "open", "prompt", "dispose"}]
  /\ request \in [Request -> {"idle", "body", "accept"}]
  /\ store \in {"down", "up", "closed"}
  /\ lease \in {"free", "mine", "other"}
  /\ faults \in 0..MaxFaults

Init ==
  /\ pc = "connect" /\ armed = Signal
  /\ operational = FALSE /\ stopRequested = FALSE /\ exit = 0
  /\ monitor = "none" /\ loop = "none" /\ target = NoChat /\ heartbeat = "none"
  /\ lost = FALSE /\ host = "none"
  /\ worker = [c \in Chat |-> "idle"]
  /\ request = [r \in Request |-> "idle"]
  /\ store = "down" /\ lease \in {"free", "other"} /\ faults = 0

-----------------------------------------------------------------------------
(* Helpers *)

Alive == pc \notin End

\* The coordinator still schedules, and still believes in its lease.
Scheduling == ~lost /\ pc \notin Cleanup

\* Mutant: the heartbeat ends with the scheduling, before the last turn.
HeartbeatStopsEarly == lost \/ pc \in Cleanup

HeartbeatStops == lost \/ pc \in {"heartbeat", "release", "server", "host", "redis"}

Active == {c \in Chat : worker[c] # "idle"}

\* The /ready endpoint and the intake: server, lifecycle and store agree.
Ready == operational /\ store = "up" /\ pc \notin Cleanup

\* Mutant: the exit codes of several stops are added up.
RequestStopAdds(code) ==
  /\ operational' = FALSE /\ stopRequested' = TRUE
  /\ exit' = exit + code

RequestStop(code) ==
  /\ operational' = FALSE /\ stopRequested' = TRUE
  /\ exit' = IF code > exit THEN code ELSE exit

\* Mutant: a lost lease fences off, and stops nothing.
LoseQuietly == lost' = TRUE /\ UNCHANGED <<operational, stopRequested, exit>>

\* Whatever finds the lease gone first, lose and failClosedOnce call each other
\* once: fenced off, not ready, and a stop with exit code 1.
Lose == RequestStop(1) /\ lost' = TRUE

Fault == faults < MaxFaults /\ faults' = faults + 1

\* A diagnostic of a failure counts only once shutting down.
Report == exit' = IF pc \in Cleanup THEN 1 ELSE exit

-----------------------------------------------------------------------------
(* Start-up *)

\* Mutant: the stop is looked for at the next step of the start-up.
ProceedAnyway(next) ==
  /\ pc' = next
  /\ UNCHANGED <<armed, exit>>

\* ensureRunning after an await: an ordered stop ends the start-up, and is no failure.
Proceed(next) ==
  /\ IF stopRequested THEN pc' = "drain" /\ armed' = {} ELSE pc' = next /\ UNCHANGED armed
  /\ UNCHANGED exit

\* A start-up step throws: finally takes over at once.
StartupFails ==
  /\ pc' = "drain" /\ armed' = {}
  /\ exit' = 1

\* connectRedis, then createRepository, then the webhook server's listen.
Connect ==
  /\ pc = "connect"
  /\ \/ store' = "up" /\ Proceed("createRepository")
     \/ StartupFails /\ UNCHANGED store
  /\ UNCHANGED <<operational, stopRequested, lost, taskVars, lease, faults>>

CreateRepository ==
  /\ pc = "createRepository"
  /\ \/ store = "up" /\ Proceed("listen")
     \/ StartupFails
  /\ UNCHANGED <<operational, stopRequested, lost, taskVars, worldVars>>

Listen ==
  /\ pc = "listen"
  /\ Proceed("waitForBridge") \/ StartupFails
  /\ UNCHANGED <<operational, stopRequested, lost, taskVars, worldVars>>

\* waitForBridge: the bridge is connected, or the wait is aborted.
BridgeSeen ==
  /\ pc = "waitForBridge"
  /\ Proceed("start")
  /\ UNCHANGED <<operational, stopRequested, lost, taskVars, worldVars>>

\* coordinator.start: the application lease, then loop and heartbeat.
Start ==
  /\ pc = "start" /\ store = "up" /\ lease = "free"
  /\ lease' = "mine"
  /\ loop' = "look" /\ heartbeat' = "wait"
  /\ pc' = "started"
  /\ UNCHANGED <<armed, stopVars, monitor, target, host, worker, request, store, faults>>

\* Another controller holds it: reported as a lost lease.
StartRefused ==
  /\ pc = "start" /\ store = "up" /\ lease = "other"
  /\ pc' = "drain" /\ armed' = {}
  /\ Lose
  /\ UNCHANGED <<taskVars, worldVars>>

\* The store fails, perhaps after it granted the lease.
StartFails ==
  /\ pc = "start"
  /\ \/ store = "down" /\ UNCHANGED worldVars
     \/ store = "up" /\ store' = "down" /\ Fault
        /\ lease' \in {lease} \cup IF lease = "free" THEN {"mine"} ELSE {}
  /\ StartupFails
  /\ UNCHANGED <<operational, stopRequested, lost, taskVars>>

\* Operational, unless a stop came while the lease was acquired.
Started ==
  /\ pc = "started"
  /\ Proceed("serve")
  /\ operational' = (pc' = "serve")
  /\ monitor' = IF pc' = "serve" THEN "running" ELSE monitor
  /\ UNCHANGED <<stopRequested, lost, loop, target, heartbeat, host, worker, request, worldVars>>

-----------------------------------------------------------------------------
(* The bridge monitor and signals *)

\* One probe that is not exactly connected is terminal.
ProbeFails ==
  /\ Alive /\ monitor = "running" /\ ~stopRequested
  /\ monitor' = "ended"
  /\ Lose
  /\ UNCHANGED <<mainVars, loop, target, heartbeat, host, worker, request, worldVars>>

\* The stop aborts the monitor's wait or probe.
MonitorStops ==
  /\ Alive /\ monitor = "running" /\ stopRequested
  /\ monitor' = "ended"
  /\ UNCHANGED <<mainVars, stopVars, loop, target, heartbeat, host, worker, request, worldVars>>

\* The first signal of a kind is heard; without a listener it kills.
Signalled(s) ==
  /\ Alive
  /\ IF s \in armed
       THEN /\ armed' = armed \ {s} /\ UNCHANGED pc
            /\ RequestStop(0) /\ UNCHANGED lost
       ELSE pc' = "killed" /\ UNCHANGED <<armed, stopVars>>
  /\ UNCHANGED <<taskVars, worldVars>>

-----------------------------------------------------------------------------
(* The coordinator *)

\* The loop is over, or picks a chat without a worker, or waits for the next poll.
Look ==
  /\ Alive /\ loop = "look"
  /\ IF ~Scheduling
       THEN loop' = "ended" /\ UNCHANGED target
       ELSE \/ loop' = "wait" /\ UNCHANGED target
            \/ /\ Cardinality(Active) < Concurrency
               /\ target' \in Chat \ Active
               /\ loop' = "recover"
  /\ UNCHANGED <<mainVars, stopVars, monitor, heartbeat, host, worker, request, worldVars>>

\* The poll interval passes, or the stop wakes the loop.
Poll ==
  /\ Alive /\ loop = "wait"
  /\ loop' = "look"
  /\ UNCHANGED <<mainVars, stopVars, monitor, target, heartbeat, host, worker, request, worldVars>>

\* A command of the loop throws: the coordinator gives up.
LoopFails ==
  /\ Alive /\ loop \in {"recover", "claim"} /\ store # "up"
  /\ loop' = "ended" /\ target' = NoChat
  /\ Lose
  /\ UNCHANGED <<mainVars, monitor, heartbeat, host, worker, request, worldVars>>

\* recover-pel for the chat; the stop may have come while it ran.
Recover ==
  /\ Alive /\ loop = "recover" /\ store = "up"
  /\ \/ Scheduling /\ loop' = "claim" /\ UNCHANGED target
     \/ loop' = "look" /\ target' = NoChat
  /\ UNCHANGED <<mainVars, stopVars, monitor, heartbeat, host, worker, request, worldVars>>

\* claimNext answered: no work, or work that a stop meanwhile leaves unbegun.
Claim ==
  /\ Alive /\ loop = "claim" /\ store = "up" /\ lease = "mine"
  /\ loop' = "look" /\ target' = NoChat
  /\ \/ UNCHANGED worker
     \/ Scheduling /\ worker' = [worker EXCEPT ![target] = "gate"]
  /\ UNCHANGED <<mainVars, stopVars, monitor, heartbeat, host, request, worldVars>>

\* claimNext answers that the application lease is gone.
ClaimLost ==
  /\ Alive /\ loop = "claim" /\ store = "up" /\ lease # "mine"
  /\ loop' = "look" /\ target' = NoChat
  /\ Lose
  /\ UNCHANGED <<mainVars, monitor, heartbeat, host, worker, request, worldVars>>

\* The renewal interval passes, or the heartbeat is stopped.
Beat ==
  /\ Alive /\ heartbeat = "wait"
  /\ heartbeat' = IF HeartbeatStops THEN "ended" ELSE "renew"
  /\ UNCHANGED <<mainVars, stopVars, monitor, loop, target, host, worker, request, worldVars>>

Renew ==
  /\ Alive /\ heartbeat = "renew"
  /\ IF store = "up" /\ lease = "mine"
       THEN heartbeat' = "wait" /\ UNCHANGED stopVars
       ELSE heartbeat' = "ended" /\ Lose
  /\ UNCHANGED <<mainVars, monitor, loop, target, host, worker, request, worldVars>>

-----------------------------------------------------------------------------
(* Chat workers and the Pi host *)

\* Mutant: a worker trusts its own leases.
CurrentByLease == store = "up" /\ lease = "mine"

\* context.current(): appCurrent, then the worker's own renewal and check.
Current == ~lost /\ store = "up" /\ lease = "mine"

SetWorker(c, s) == worker' = [worker EXCEPT ![c] = s]

\* A worker between two awaits, where it looks at its gate.
AtGate(c) ==
  /\ Alive
  /\ worker[c] \in {"gate", "open", "prompt"}
  /\ worker[c] = "open" => host \in {"up", "failed"}

\* The first claimed work builds the host; everyone waits for that one.
OpenHost(c) ==
  /\ AtGate(c) /\ worker[c] = "gate" /\ Current
  /\ SetWorker(c, "open")
  /\ host' = IF host = "none" THEN "pending" ELSE host
  /\ UNCHANGED <<mainVars, stopVars, monitor, loop, target, heartbeat, request, worldVars>>

\* Auth, model runtime and SDK load, or fail once and for all.
HostLoads ==
  /\ Alive /\ host = "pending"
  /\ host' \in {"up", "failed"}
  /\ UNCHANGED <<mainVars, stopVars, monitor, loop, target, heartbeat, worker, request, worldVars>>

\* The gate before the prompt.
Prompt(c) ==
  /\ AtGate(c) /\ worker[c] = "open" /\ host = "up" /\ Current
  /\ SetWorker(c, "prompt")
  /\ UNCHANGED <<mainVars, stopVars, monitor, loop, target, heartbeat, host, request, worldVars>>

\* The event is completed, with its turn or, for a known one, without.
Finish(c) ==
  /\ AtGate(c) /\ Current
  /\ worker[c] = "open" => host = "up"
  /\ SetWorker(c, "dispose")
  /\ UNCHANGED <<mainVars, stopVars, monitor, loop, target, heartbeat, host, request, worldVars>>

\* The worker fails, pauses its chat and says so.
WorkerPauses(c) ==
  /\ AtGate(c) /\ Current
  /\ SetWorker(c, "dispose")
  /\ Report \/ UNCHANGED exit
  /\ UNCHANGED <<mainVars, operational, stopRequested, lost, monitor, loop, target, heartbeat,
                 host, request, worldVars>>

\* A gate fails, or the chat lease is lost: a lost lease ends the whole process.
WorkerLoses(c) ==
  /\ AtGate(c)
  /\ \/ ~Current /\ UNCHANGED faults
     \/ Current /\ Fault
  /\ SetWorker(c, "dispose")
  /\ Lose
  /\ UNCHANGED <<mainVars, monitor, loop, target, heartbeat, host, request, store, lease>>

\* The session is disposed of, and the chat is free again.
Dispose(c) ==
  /\ Alive /\ worker[c] = "dispose"
  /\ SetWorker(c, "idle")
  /\ Report \/ UNCHANGED exit
  /\ UNCHANGED <<mainVars, operational, stopRequested, lost, monitor, loop, target, heartbeat,
                 host, request, worldVars>>

-----------------------------------------------------------------------------
(* Intake *)

SetRequest(r, s) == request' = [request EXCEPT ![r] = s]

\* A request is admitted; one that comes while not ready is refused on the spot.
Admit(r) ==
  /\ Alive /\ Ready /\ request[r] = "idle"
  /\ SetRequest(r, "body")
  /\ UNCHANGED <<mainVars, stopVars, monitor, loop, target, heartbeat, host, worker, worldVars>>

\* Its body is read and verified; readiness is looked at again.
ReadBody(r) ==
  /\ Alive /\ request[r] = "body"
  /\ SetRequest(r, "idle") \/ (Ready /\ SetRequest(r, "accept"))
  /\ UNCHANGED <<mainVars, stopVars, monitor, loop, target, heartbeat, host, worker, worldVars>>

\* accept is answered, whatever happened meanwhile; its failure is reported.
Answer(r) ==
  /\ Alive /\ request[r] = "accept"
  /\ SetRequest(r, "idle")
  /\ Report \/ UNCHANGED exit
  /\ UNCHANGED <<mainVars, operational, stopRequested, lost, monitor, loop, target, heartbeat,
                 host, worker, worldVars>>

-----------------------------------------------------------------------------
(* Clean-up: each step waits for those that still use what it takes away *)

CleanupStep(from, ready, to) == pc = from /\ ready /\ pc' = to /\ UNCHANGED armed

\* Termination and the monitor are awaited; intake and scheduling stop at once.
ServeEnds ==
  /\ pc = "serve" /\ stopRequested /\ monitor = "ended"
  /\ pc' = "drain" /\ armed' = {}
  /\ UNCHANGED <<stopVars, taskVars, worldVars>>

\* drain: the loop, the workers, and only then the heartbeat.
DrainLoop ==
  /\ CleanupStep("drain", loop \in {"none", "ended"}, "workers")
  /\ UNCHANGED <<stopVars, taskVars, worldVars>>

DrainWorkers ==
  /\ CleanupStep("workers", Active = {}, "heartbeat")
  /\ UNCHANGED <<stopVars, taskVars, worldVars>>

DrainHeartbeat ==
  /\ CleanupStep("heartbeat", heartbeat \in {"none", "ended"}, "release")
  /\ UNCHANGED <<stopVars, taskVars, worldVars>>

\* Mutant: a release that failed is not reported.
ReleaseQuietly ==
  /\ CleanupStep("release", TRUE, "server")
  /\ lease' = IF heartbeat # "none" /\ ~lost /\ store = "up" /\ lease = "mine" THEN "free" ELSE lease
  /\ UNCHANGED <<stopVars, taskVars, store, faults>>

\* A lease that was acquired and not lost is given back.
Release ==
  /\ CleanupStep("release", TRUE, "server")
  /\ IF heartbeat # "none" /\ ~lost
       THEN /\ lease' = IF store = "up" /\ lease = "mine" THEN "free" ELSE lease
            /\ exit' = IF store = "up" THEN exit ELSE 1
       ELSE UNCHANGED <<lease, exit>>
  /\ UNCHANGED <<operational, stopRequested, lost, taskVars, store, faults>>

CloseServer ==
  /\ CleanupStep("server", \A r \in Request : request[r] = "idle", "host")
  /\ UNCHANGED <<stopVars, taskVars, worldVars>>

CloseHost ==
  /\ CleanupStep("host", host # "pending", "redis")
  /\ UNCHANGED <<stopVars, taskVars, worldVars>>

\* repository.close and redis.close are one close; it may fail.
CloseRedis ==
  /\ CleanupStep("redis", TRUE, "ended")
  /\ store' = "closed"
  /\ exit' \in {exit, 1}
  /\ UNCHANGED <<operational, stopRequested, lost, taskVars, lease, faults>>

-----------------------------------------------------------------------------
(* The world *)

StoreBreaks ==
  /\ Alive /\ store = "up" /\ Fault
  /\ store' = "down"
  /\ UNCHANGED <<mainVars, stopVars, taskVars, lease>>

\* The lease lapses: by a stall while it is renewed, by itself otherwise.
LeaseLapses ==
  /\ lease = "mine" /\ lease' = "free"
  /\ IF Alive /\ heartbeat \in {"wait", "renew"} /\ store = "up" THEN Fault ELSE UNCHANGED faults
  /\ UNCHANGED <<mainVars, stopVars, taskVars, store>>

\* Another controller takes a free lease, and gives it back.
OtherTakes ==
  /\ lease = "free" /\ lease' = "other"
  /\ UNCHANGED <<mainVars, stopVars, taskVars, store, faults>>

OtherReleases ==
  /\ lease = "other" /\ lease' = "free"
  /\ UNCHANGED <<mainVars, stopVars, taskVars, store, faults>>

-----------------------------------------------------------------------------

StartupStep ==
  Connect \/ CreateRepository \/ Listen \/ Start \/ StartRefused \/ StartFails \/ Started
CleanupSteps ==
  \/ ServeEnds \/ DrainLoop \/ DrainWorkers \/ DrainHeartbeat \/ Release
  \/ CloseServer \/ CloseHost \/ CloseRedis
LoopStep == Look \/ Poll \/ LoopFails \/ Recover \/ Claim \/ ClaimLost
HeartbeatStep == Beat \/ Renew
WorkerStep(c) ==
  OpenHost(c) \/ Prompt(c) \/ Finish(c) \/ WorkerPauses(c) \/ WorkerLoses(c) \/ Dispose(c)
RequestStep(r) == ReadBody(r) \/ Answer(r)

Next ==
  \/ StartupStep \/ BridgeSeen \/ CleanupSteps
  \/ ProbeFails \/ MonitorStops \/ \E s \in Signal : Signalled(s)
  \/ LoopStep \/ HeartbeatStep \/ HostLoads
  \/ \E c \in Chat : WorkerStep(c)
  \/ \E r \in Request : Admit(r) \/ RequestStep(r)
  \/ StoreBreaks \/ LeaseLapses \/ OtherTakes \/ OtherReleases

Spec == Init /\ [][Next]_vars

(***************************************************************************)
(* Every await of the process settles: store commands and the host answer  *)
(* or fail, requests time out, and a turn ends (drain waits for it without *)
(* a bound).  The bridge owes nothing, but a stop aborts the wait for it.  *)
(***************************************************************************)
Fairness ==
  /\ WF_vars(StartupStep) /\ WF_vars(stopRequested /\ BridgeSeen) /\ WF_vars(CleanupSteps)
  /\ WF_vars(MonitorStops) /\ WF_vars(LoopStep) /\ WF_vars(HeartbeatStep) /\ WF_vars(HostLoads)
  /\ \A c \in Chat : WF_vars(WorkerStep(c))
  /\ \A r \in Request : WF_vars(RequestStep(r))

FairSpec == Spec /\ Fairness

-----------------------------------------------------------------------------
(* Properties *)

\* A controller that reports ready has everything it promises with it: the lease
\* as it knows it, a claim loop, a heartbeat, a bridge monitor, no stop under way,
\* and a signal that would still stop it gracefully.
ReadyIsBacked ==
  operational =>
    /\ pc = "serve" /\ ~stopRequested /\ ~lost
    /\ loop \in {"look", "recover", "claim", "wait"}
    /\ heartbeat \in {"wait", "renew"}
    /\ monitor = "running" /\ armed = Signal

\* What is taken down has no user left, and none comes back: neither a claim nor
\* a turn nor an accept that was under way when the stop came finds the host or
\* the store closed; and until the last turn is over its lease is renewed.
DrainOrder ==
  /\ pc \in {"heartbeat", "release", "server", "host", "redis", "ended"} =>
       Active = {} /\ loop \in {"none", "ended"}
  /\ pc \in {"release", "server", "host", "redis", "ended"} => heartbeat \in {"none", "ended"}
  /\ pc \in {"host", "redis", "ended"} => \A r \in Request : request[r] = "idle"
  /\ pc \in {"redis", "ended"} => host # "pending"
  /\ Active # {} /\ ~lost => heartbeat \in {"wait", "renew"}

\* Exit 0 is a clean stop: the lease was not lost, and a successor finds it free.
CleanExit == pc = "ended" /\ exit = 0 => ~lost /\ lease # "mine"

\* A stop is final, whatever was under way: nothing is accepted and readiness does
\* not come back; once scheduling stopped no worker begins; and once the lease is
\* given up no turn begins, not even of a worker that already holds its chat.
StopIsFinal ==
  [][/\ stopRequested =>
          /\ ~operational'
          /\ \A r \in Request : request'[r] = "accept" => request[r] = "accept"
     /\ ~Scheduling => \A c \in Chat : worker[c] = "idle" => worker'[c] = "idle"
     /\ lost => \A c \in Chat : worker'[c] = "prompt" => worker[c] = "prompt"]_vars

\* A stop, a lease that is gone or a broken store ends the process.
TroubleEnds ==
  (stopRequested \/ (operational /\ (lease # "mine" \/ store # "up"))) ~> ~Alive
=============================================================================
