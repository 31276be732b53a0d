# Verification of WhatsApp-MCP-Server

TLA+ specifications of the parts of this repository whose correctness depends
on order, crashes, leases and lost answers, the TLC configurations that check
them, and the theorems about them that the TLA+ proof system checks.

Paths below are relative to the repository root.

## 1. The system

Two programs carry the logic. The **bridge** (Go, `bridge/`) holds the WhatsApp
session, stores messages in PostgreSQL and posts a signed notification for each
live message of an admitted chat. The **session controller** (TypeScript,
`session-controller/`) accepts those notifications, keeps them in Redis, and
gives them, strictly in sequence per chat, to an agent (a Pi session kept in a
JSONL file), which answers through the MCP server and the bridge's HTTP API.
The agent's own message comes back to the bridge from WhatsApp as an *echo*.
Around them are stateless or batch services: the MCP server, the embedder and
transcriber, the dashboard.

```
 WhatsApp --live/history--> bridge SaveMessage --> outbox --> dispatcher --POST-->
     controller intake --> Redis stream --> coordinator --> worker --> Pi session
        ^                                                      |
        +------------------ tool calls (MCP, HTTP API) <-------+
```

### Inventory

| Component | State it keeps | Operations | Interacts with |
|---|---|---|---|
| Session state script (`redis/scripts.ts`, `repository.ts`) | leases of application and chat, cursor, pause, gap clock, turn mark, session binding, queue, tool journal, checkpoint | one Lua script per command: accept, app-acquire/renew/release, claim, renew, pause, bind, begin-turn, journal, complete, repair, checkpoint, recover-pel | worker, coordinator, intake |
| Chat worker, coordinator (`scheduler/`) | application lease believed held, active workers | acquire, claim loop, heartbeat, lose, drain; the steps of `runChatWorker` | script, host, journal |
| Tool journal (`pi/tool-journal-extension.ts`) | calls of the running turn; records in Redis and in the file | begin, dispatch, confirm, uncertain, run, classify own | script, agent, bridge |
| Session host (`pi/session-host.ts`) | JSONL session file | open, prompt, appendCompletion, compact, reconcile | completion index |
| Completion index (`pi/completion-index.ts`) | files reserved and files refused | findEvent, reserve, publish, poison | intake, host |
| Intake (`intake/`) | requests under way | verify, reserve, accept, answer | repository |
| Redis client (`redis/client.ts`) | healthy, tail of the writer queue | serial, durable | repository |
| Lifecycle (`main.ts`) | operational, stop flags, exit code, resources, the Pi host being built | start-up, readiness, fail closed, bridge monitor, ordered clean-up | all of the controller |
| Checkpoints, orphan recovery (`compaction/`) | checkpoint record, repair intent, compaction entries in the file, operator manifest | prepare, compact, restore, reconcile; inspect, publish an intent, claim, prove, abort | script, host, operator |
| Notification outbox (`bridge/store/notifications.go`, `bridge/notify/`) | outbox rows with state, lease, attempts, next attempt | enqueue, claim, deliver, finish, maintain | SaveMessage, receiver |
| Message store (`bridge/store/messages.go`) | messages, chat sequences | SaveMessage and reads | event handlers, outbox |
| Outbound origins (`bridge/store/outbound_origins.go`, `bridge/client/send.go`) | markers of the bridge's own sends | register, consume, prune | SaveMessage |
| Writer queue (`bridge/store/db.go`) | bounded channel, done flag | submit, writer loop, Close | every write of the bridge |
| Connection manager (`bridge/connection/`) | state, generation, retry count, permanent flag, stop channel | connect, reconnect, disconnects, Stop | WhatsApp library |
| Media (`bridge/store/media.go`, `bridge/mediaretry/`) | download status per media row | downloaded, failed, retry | HTTP API |
| Event handlers, HTTP API, MCP server, indexer, embedder, transcriber, dashboard | none beyond a row or a request | translation and batch jobs | database, bridge |

### What is hard, and what makes each part correct

* **One turn per event.** Redis leases expire while a process is merely
  suspended; the agent call and the file append are outside any fence. Correct
  means: at most one prompt per event, no turn while an earlier send is
  unsettled, a completion that names exactly the sends that were made.
* **Durability of evidence.** The file's marker, not Redis, proves completion.
  It must be on disk before the cursor moves, and before a duplicate is answered.
* **One checkpoint in three places.** A compaction writes a record in Redis, an
  entry in the session file and two transitions of the record; the append is
  outside any fence. Correct means: restored only with the entry on disk, given
  up only where the entry never comes, and the agent's context replaced as a
  whole or not at all.
* **Ending one process.** Signals, a lost lease, a failed probe and a failing
  start-up arrive while claims, turns, requests and the construction of the host
  are under way, and call each other back. Correct means: not ready at once and
  for good, nothing closed under its users, the lease given back last and only
  when it is still held, and an end in any case.
* **Nested waits in one process.** The store writer and the completion index are
  both one-at-a-time; accept and complete nest them, append alternates them.
* **Echoes.** They arrive before, during or after everything else, on either of
  two identities, live or by history; one taken for a participant's message
  would make the agent talk to itself.
* **One reconnect loop out of many goroutines.** Every disconnect starts a
  goroutine and supersedes the others by a generation number; handlers of the
  library run beside them, and a permanent loss or a stop must end them all.
  Correct means: superseding never drops the last one, and a permanent loss is
  never reported as an ordinary failure, which would restart a banned account.
* **At-least-once delivery with an end.** Leases, retries, rate limits, crashes
  and an operator who changes the configuration; each event must end once.

`PROJECT.json` lists every hazard with its line and the properties that cover
it; those without a property carry the reason.

## 2. Modules

| Module | Models | Kind |
|---|---|---|
| `ChatStore` | the Redis state of one chat and the branches of the Lua script that own it | operations, no behaviour of its own |
| `ChatWorker` | extends `ChatStore` with coordinators, workers, tool journal, session file and the sends in the world | specification |
| `TurnLedger` | what the controller promises about one chat, with no process or lease in sight | abstract specification, implemented by `ChatWorker` |
| `ChatWorkerProofs` | theorems about `ChatWorker`: types and single turns | proofs |
| `ChatWorkerSafety` | extends it: the other safety properties and the refinement of `TurnLedger` | proofs |
| `Checkpoint` | extends `ChatStore` with the checkpoint record, the session file, the workers that compact and reconcile, and the two operator commands | specification |
| `ContextLedger` | what compaction delivers for one chat: turns in sequence, each on the checkpoint restored last; a turn that ran on an older one ends the chat | abstract specification, implemented by `Checkpoint` |
| `CheckpointProofs` | theorems about `Checkpoint`: types, durability, repair | proofs |
| `CheckpointLedger` | extends it: the refinement of `ContextLedger` | proofs |
| `Lifecycle` | one controller process from start-up to exit, with its coordinator, workers, intake, host and bridge monitor | specification |
| `LifecycleProofs` | theorems about `Lifecycle` | proofs |
| `EvidenceIndex` | store writer, completion index, accept, complete and appendCompletion for several chats in one or two processes | specification |
| `EvidenceProofs` | theorems about `EvidenceIndex` | proofs |
| `Outbox` | SaveMessage, outbound origins, outbox, dispatchers, maintenance and the receiver for one canonical chat | specification |
| `OutboxProofs` | theorems about `Outbox` | proofs |
| `Connection` | the bridge's connection to WhatsApp: first connect, reconnect goroutines, event handlers, permanent loss, shutdown, cooldown marker and restart | specification |
| `ConnectionProofs` | theorems about `Connection` | proofs |
| `MC*` | instances for TLC | |

`PROJECT.json` "map" gives the source lines of every definition.

### ChatStore and ChatWorker

`ChatStore` has one action per branch of the script, because Redis runs it
atomically; the early returns of a branch are its guards. An event is named by
its chat sequence and a send by the pair of its event and its number in the
turn. An owner string is dropped: the script raises the epoch whenever it
installs a fresh random owner, so the epoch names both. A deadline becomes a
flag, "has not passed"; renewing a lease that has not passed checks and changes
nothing, so the renewal commands appear as guards (`Owns`) and as the fairness
of the process that renews.

`ChatWorker` runs `runChatWorker` (`scheduler/chat-worker.ts`) step by step. A
step that a fenced script decides is one action. A step whose effect no fence
covers (starting the prompt, letting a send leave, appending the marker) is an
action of its own after its gate, so both leases may lapse in between: that is
how a suspended process is modelled. `pc` is the step a worker is about to
take; a process that crashes loses everything but the application epoch
counter in Redis. `markers`/`synced` separate what is in the file from what is
on disk; `HostCrash` keeps any subset of the unsynced appends. `inflight` and
`sent` are the world's view of the sends; `prompts` is a history variable. An
echo event may be admitted only once its send was executed.

`TurnLedger` is the promise: events close in sequence, each starts at most one
turn, a send happens only in the turn of the event being worked, and closing
records exactly the sends executed. The refinement maps `done` to the cursor,
`started` to the events prompted, `recorded` to the sends the markers of closed
events name.

### EvidenceIndex

The concurrency *inside* a process that `ChatWorker` abstracts: each promise
chain is a program counter (`apc` for accept, `wpc[p][c]` for the worker of
chat c), `writer[p]` and `index[p]` are the two one-at-a-time sections
(`serial` and `exclusive`), and accept and complete hold the first while
waiting for the second. A revision is the set of completed events at the
snapshot. `healthy` is the connection's flag, which nothing sets back; a
process that ends is replaced by `Fresh`. `Deployments` says which processes may
run and which chats they admit; one is chosen at the start.

### Checkpoint

A process is a controller or one of the two recovery commands of `main.ts`; all
contend for the application lease. The worker's steps are those of
`ChatWorker`, reduced to what the compaction reads and writes: `Prepare` reads
the record, `Reconcile` and `Advance` finish one found half made, `Capture` to
`Verify` make one, each between two gates, and the append (`AppendEntry`) after
the last gate is fenced by nothing. `file` holds compaction entries, turns and
markers in their order, `synced` how many are known to be on disk, and a file
generation is the content at that time.

The file is a tree: the session manager puts an entry below the last one *it*
knows, so `branch[i]` is the path that entry i ends. `loaded[p]` is the branch of
the manager that `host.open` loaded (`pi/session-host.ts:110`). The turn runs on
it, and so does the decision whether the session is fresh; nothing reloads it.
`Reconcile` and `Verify` look at another manager, opened at that moment
(`session-host.ts:190`, `:233`), whose active branch ends in the last entry of the
file. What the agent sees is `Context` of a branch, its last compaction entry.

The repair command consumes the
manifest before it claims, proves the orphan twice and aborts in one script
call; the intent command stages, gives its fence back and only then publishes.
An unbound record (`bound` FALSE) is one an older controller left; `Legacy`
starts from one, with or without its entry and with an old intent about.
`current` is the checkpoint restored last, `told[e]` the one that event e's turn
ran on, and `due[e]` the one it should have run on: history variables, and what
`ContextLedger` sees.

### Lifecycle

The program is single-threaded, so what it does between two awaits is one
action, whoever else waits. `pc` is the await `runLifecycle` is at, in `try` or
in `finally`; the claim loop, heartbeat, bridge monitor, host, each chat's worker
and each request slot have their own. `requestStop`, `failClosedOnce`, the
coordinator's `lose` and the `lease_lost` diagnostic call each other
synchronously until a flag stops them; the fixed point is one operator, `Lose`.
`lease` and `store` belong to the world: the lease lapses when nobody renews it
or the process stalls, another controller may take it, the store may break.
`armed` holds the signals whose listener is still installed; listeners hear one
signal each, so a second one of the same kind kills.

### Outbox

A store transaction is one action, since one goroutine runs them in turn and
PostgreSQL makes each atomic across processes. Two dispatchers stand for
overlapping bridge processes. A lease token is the attempt it was drawn for;
every claim raises it. `inbox` holds requests that left and may be handled at
any later time, also after the dispatcher gave up on them; `held` is what the
receiver accepted. Sends of the bridge are sets of identities; WhatsApp shows
an identity to the bridge only once its send left.

### Connection

`loop[c]` is a running call of `reconnect`: the first `Connect` (`Main`) or a
goroutine of `scheduleReconnect`. Each lock region of `connection/` is one
action and everything between two of them may interleave. The generation
number is compared only for being the latest, so a call carries `fresh`; its
connected channel is seen by nobody else, so the call carries whether it is
open, closed by a Connected event, or replaced by a later attempt's (`lost`).
`pending` holds library events whose handler has not run. `phase` is the
process: `End` is the exit or a crash, `Start` the supervisor's restart, which
the cooldown marker on disk can hold back.

## 3. Runs

| Run | Instance | Asks |
|---|---|---|
| `worker_safety` | 2 processes, 3 events (the second may be the echo of the first send of the first), 2 sends per turn, 2 faults | type invariant, `AtMostOneTurn`, `SendsAccounted`, `CompletedIsDurable`, `EchoNeverPrompts`, `OneMarkerPerTurn`, `TurnsStartSettled`, `PausedChatIsFrozen`, refinement of `TurnLedger` |
| `worker_liveness` | 2 processes, 3 events, 1 send, 1 fault | `NextEventSettles`, `GapSurfaces` |
| `checkpoint_chat` | 2 processes, 3 events, 2 checkpoints, 2 commands, 1 fault, a fresh chat or one an older controller left, fair | type invariant, `RestoredIsDurable`, `AbortedHasNoEntry`, `LegacyAbortAuthorized`, refinement of `ContextLedger`, `OpenCheckpointSettles` |
| `checkpoint_stuck` | 2 processes, 1 checkpoint, 1 command, no fault, fair | `MatchingEntryIsReconciled`, which fails (section 6) |
| `checkpoint_stale` | 2 processes, 2 events, 1 checkpoint, 1 fault | `TurnSeesRestored`, which fails |
| `lifecycle` | 1 process, 2 chats, 1 request slot, 1 fault, another controller, fair | type invariant, `ReadyIsBacked`, `DrainOrder`, `CleanExit`, `StopIsFinal`, `TroubleEnds` |
| `evidence_intake` | 2 chats in 1 process with restarts, or 1 chat in 2 processes, fair | type invariant, `AckedIsKept`, `ReservationsHaveWorkers`, `RedeliveryNeverConflicts`, `EveryAcceptIsAnswered` |
| `outbox_delivery` | 2 dispatchers, 1 identity, 2 attempts, 2 events, 2 faults, 3 policies, fair | type invariant, `AcceptedIsHeld`, `PostsBounded`, `TerminalIsFinal`, `EveryNotificationEnds` |
| `outbox_echoes` | 1 dispatcher, a message and a send with two identities | `EchoNeverNotifies`, `LiveIsNotified` |
| `connection_safety` | 2 reconnect goroutines, 2 keep-alive strikes | type invariant, `AlwaysRecovering`, `LossNotMasked` |
| `connection_liveness` | 1 goroutine beside the first Connect, fair | `Reconnects`, `LossEndsProcess` |
| `connection_stale` | 2 goroutines | `StaleLoopIsInert`, which fails |

**Bounds.** `MaxSeq = 3` lets a gap open behind a completed event and gives an
echo a predecessor and a successor. Two sends make a turn that ends with one
confirmed and one open. Two processes with two faults give a suspended worker
*and* a failure of its successor; a third process adds nothing that a crashed
and re-used one does not show, since a process keeps nothing. In
`EvidenceIndex` one event per chat suffices: a second one of the same chat
waits for the first. Two chats are needed for a reservation of one to meet a
lookup for the other. In `Outbox` two attempts separate the last attempt from
the one before; two events of one identity arise only after pruning. In
`Connection` two goroutines and the first Connect are a superseded attempt, its
successor and one that is not a goroutine; a disconnect waits for a free slot.
In `Checkpoint` two checkpoints let a chat compact again after one that was
restored or given up, and two commands are an intent and the repair it is for, or
two repairs that overlap. In `Lifecycle` two chats give a worker that waits for
the host another one is building; with `Concurrency = 2` the bound on active
chats never refuses one there, and no property is about it. A fault is a stall
past a lease, a lost chat lease or a store failure; signals, probes, start-up
failures and the other controller are not bounded.
Every bound is a constant; `faults` bounds crashes, stalls past a lease and lost store
answers, and nothing else. Runs without liveness properties use symmetry in the
interchangeable processes or goroutines; the others do not.

**Deadlock.** The worker and checkpoint runs switch the deadlock check off: when
all events are completed or the chat is paused and the fault budget is spent,
the system rests. The other runs keep it; in `Lifecycle` the other controller
goes on when the process has ended, so there `TroubleEnds`, not the deadlock
check, shows that nobody waits for nobody.

**Fairness.** `ChatWorker`: the claim loop, the renewal loops, the steps of a
running worker, the lapse of a lease nobody renews, the gap clock and a
supervisor that restarts the controller (`docker-compose` restarts it). The
agent, the faults and the network owe nothing. A step that waits for the agent or
the model is therefore not fair: the preparation, which may call the model, the
turn, which no timeout ends while the leases are renewed, and the wait for it to
stop after a failure (`AtModel`). So `NextEventSettles` has a third outcome, a
call of the agent for that very event that never ends under a live application
lease. What else the worker awaits (Redis, file operations, the start of the
tool servers) is assumed to return or to fail. `Checkpoint`: the same, with the
model's call in `Capture` and the turn as the steps that owe nothing, and the
steps of a command somebody started; nobody has to start one. `Lifecycle`: every
await of the process settles (store commands have timeouts or end with their
connection, requests time out, the host's construction ends) and a turn ends,
since `drain` waits for it without a bound (`main.ts:485`). The bridge owes
nothing while no stop is ordered; a stop aborts the wait for it. `EvidenceIndex`: a promise whose
input is ready continues. `Outbox`: the dispatcher's loop and its maintenance
when the loop is not waiting, the end of the waits the receiver asked for,
lapsing leases and the age of events. The receiver, the
network and new messages owe nothing. `Connection`: every goroutine, event
handler and `main` takes its next step, and the network lets an attempt through
if attempts never stop (strong fairness of the dial and the login), without
which no reconnect loop can succeed; signals, losses and crashes owe nothing.

**Mutants.** Each property of a passing run has a mutant, a plausible bug in
one mapped definition (marked `Mutant:` beside it), under which the run finds
the property violated.

## 4. Proofs

Every safety invariant, every action property and both refinements that the
passing runs check are theorems; the liveness properties are not (see the end
of this section).

All theorems hold for every value of the constants that satisfies the named
assumptions (`StoreAssumption`, `WorkerAssumption`, `CheckpointAssumption`,
`LifecycleAssumption`, `OutboxAssumption`, `IndexAssumption`,
`ConnectionAssumption`), which only say what the code presumes: positive bounds,
an echo comes after its send, two sends share no identity, and the names of
"nobody", of accept and of the first Connect are not those of a chat, process or
goroutine.

* `ChatWorkerProofs!TypeCorrect`: the type invariant.
* `ChatWorkerProofs!PromptedAtMostOnce`: `AtMostOneTurn`. It is not inductive:
  a worker between begin-turn and the prompt has no trace in `prompts`. The
  inductive invariant is `TurnBarrier`: lease and mark name only the event
  after the cursor; a prompted event is closed or marked; no two workers past
  the mark hold one event, and none a prompted one. Its one delicate step is
  `BeginTurn`, where the mark must be unset, so the event is neither prompted
  nor held by another; `Complete` clears the mark, but moves the cursor past
  the event in the same step.
* `ChatWorkerSafety` proves the other properties of `ChatWorker` from one
  invariant, `ChatInv`, since each of its parts needs others to be preserved.
  `Fences`: every grant has its own chat epoch, so at most one worker passes the
  fence. `PausedOwner`: in a paused chat whoever still passes the fence has a
  failed turn and only has its pause left to do. `Turns`: the mark names the one
  event that has a turn, no marker of it is written before the turn is over, and
  the journal holds only its calls. `Echoes`: an echo is admitted after its send
  and never reaches the preparation of a turn. `Calls`: a call of the fence's owner
  is in the journal and leaves once; a confirmed one was sent. `Files`: a marker
  names only sends of its own event that were executed.
  * `PauseHolds`: `PausedChatIsFrozen`. Begin-turn and complete look at no pause;
    the worker that paused still passes their fence, but is past both.
  * `SendsKept`, `CursorIsDurable`: `SendsAccounted` and `CompletedIsDurable` are
    inductive only together with `Turns`, `Calls` and `Files`: the cursor may pass
    an event because the marker of the one worker in its turn names what that
    worker confirmed, and a turn that left a call open does not complete.
  * `EchoesNeverPrompt`, `MarkersOnce`, `TurnsSettled`: `EchoNeverPrompts`,
    `OneMarkerPerTurn` and `TurnsStartSettled`, from `ChatInv`.
  * `LedgerImplemented`: the refinement of `TurnLedger`. `Prompt`, `Deliver` and
    `Complete` map to its three actions, every other step to a stutter. What the
    ledger records of an event changes only when it closes, because a marker names
    an event's sends only then (`CompletedIsDurable`).
  * `SendsOrdered`: no run checks it. The sends of the agent are executed in the
    sequence of the events they answer, each in the one turn of its event; it
    is shown of the ledger's actions alone and carried over by the refinement.
* `CheckpointProofs!TypeCorrect`: the type invariant. The context of a file is
  its last compaction entry, so it needs that a nonempty set of positions has a
  last one (`LastPosition`, by finiteness).
* `CheckpointProofs!RestoredDurable`: `RestoredIsDurable`, from
  `CheckpointBarrier`: a worker that has drawn a checkpoint and not appended it
  holds one nobody else holds and that is not in the file, so an entry is there
  at most once, and whoever moves the record has synced an entry that names it.
  No lease is used: the property does not depend on timing.
* `CheckpointProofs!AbortedNeverComes`: `AbortedHasNoEntry`, from `AbortBarrier`.
  The danger is the worker suspended between its last gate and its append while
  the command proves that its entry is missing. It is excluded by the pause: the
  command works only on a chat paused with `compaction_failed`, which only the
  worker that made the checkpoint could set, and that one is suspended before
  it; a successor that finds the open record and no entry pauses with
  `restore_failed`. So the invariant follows the chat epochs (`OwnEpochs`), what
  the newest owner may have left as a pause (`NewestPauses`), and what may be
  done beside a pending append (`PendingIsSafe`).
* `CheckpointProofs!LegacyAuthorized`: `LegacyAbortAuthorized`, from
  `LegacyBarrier`: while an unbound record is open no worker runs, so the file
  stays what the operator saw, and an intent is one that was published.
* `CheckpointLedger!ContextImplemented`: the refinement of `ContextLedger`, from
  `LedgerBarrier` beside the two barriers above. The ledger says that a restored
  checkpoint is newer than the last and a turn sees it; the code only sees the
  order of entries in a file, and each worker the branch it loaded. So the
  invariant says that cuts stand in the file in
  the order they were drawn and none lies past the last one restored but the open
  record's (`Cuts`), that a worker about to append makes that record
  (`Appenders`), that what the newest worker read still holds (`NewestReads`),
  that at most one turn is begun, for the event after the cursor, with no record
  open (`Turning`), and where the branches lead (`Branches`). Between two turns
  the file is on disk but for the open record's entry (`Ending`). A turn that is in
  the history for good stays below every branch that is open or may yet be opened
  (`Anchored`). Until a turn falls behind, each of those branches goes on from the
  checkpoint restored last (`Lineage`). Once one has fallen behind, that entry is
  on no branch that may be opened, every reconciliation looks for it, and nobody
  gets past one again (`Stops`).
* `CheckpointLedger!ContextsOrdered`: no run checks it. No turn is given a history
  that an earlier turn was already past, nor a checkpoint that was not restored by
  then; a turn given less than what had been restored is the last, and nothing is
  restored after it. Shown of the ledger and carried over by the refinement.
* `LifecycleProofs!TypeCorrect`: the type invariant.
* `LifecycleProofs!ReadinessBacked`: `ReadyIsBacked`, from `Begun`, what has begun
  at each stage. Readiness is set after an await, so the invariant says of the
  stage before it that, unless a stop was ordered, loop, heartbeat and listeners
  are all there: whatever ends one of them orders a stop in the same step.
* `LifecycleProofs!DrainOrdered`: `DrainOrder`, inductive with `Tended`: a loop
  that may still make a worker has a heartbeat beside it, and is over before the
  workers are waited for.
* `LifecycleProofs!ExitClean`: `CleanExit`, from `Codes`: each way to keep or lose
  a lease raises the exit code, also a grant whose answer was lost.
* `LifecycleProofs!StopFinal`: `StopIsFinal`, step by step from `Begun`.
* `OutboxProofs!TypeCorrect`: the type invariant with `Named` (a row or a job
  names a real event), without which posts could be counted for event 0.
* `OutboxProofs!EchoesKnown`: `EchoNeverNotifies`, from `Known`: once a send is
  past registration each of its identities has a marker or a row with the
  origin. Maintenance prunes only a marker whose row has it.
* `OutboxProofs!AcceptedHeld`: `AcceptedIsHeld`, from `Vouched`: a dispatcher
  that is about to record an acceptance was answered for that very event, and
  the update holds the event's sequence.
* `OutboxProofs!EndsKept`: `TerminalIsFinal`, step by step from the types.

* `OutboxProofs!LiveNotified`: `LiveIsNotified`, from `Told`: a row outside the
  bridge's own sends never gets their origin, and a notification that exists was
  counted, so pruning its row forgets nothing that matters.
* `OutboxProofs!PostsWithinBudget`: `PostsBounded`. Posts alone are not inductive:
  a claimed attempt is a post to come. `Budget` bounds posts and claimed attempts
  together by the attempts the row has counted, and by the configured limit when the
  row was pruned; `Sequenced` keeps two rows from sharing an event.
* `EvidenceProofs!TypeCorrect`: the type invariant with `Asked` (a lookup under way
  is about a chat), and that writer and file interval are held exactly by the
  steps inside them.
* `EvidenceProofs!AckedKept`: `AckedIsKept`, from `MarkerAtStep` (past the append a
  worker's marker is in its file, past the sync on disk), `DoneIsDurable` and
  `LookupsHold` (what accept found is on disk). The answer "already completed"
  rests on the file, which a machine failure may cut back to what was synced.
* `EvidenceProofs!NoFalseConflict`: `RedeliveryNeverConflicts`, from the other half
  of `LookupsHold`: a chat that was done when the lookup began is found once its
  file was read, and what was done since then changed the revision.
* `EvidenceProofs!Reservations`: `ReservationsHaveWorkers`, step by step from the
  types.
* `ConnectionProofs!TypeCorrect`: the type invariant.
* `ConnectionProofs!NeverAbandoned`: `AlwaysRecovering`, from `ConnectionInv`. Its
  core is `Chased`: a socket that is down has an event of it to handle or a call
  on its way to a dial. It needs that only a permanent loss stops the calls
  before the exit (`Losses`), that the first Connect dials before anything can be
  lost or scheduled (`FirstConnect`), and that a process that ended leaves nothing
  behind (`Off`).
* `ConnectionProofs!LossReported`: `LossNotMasked`, from the same invariant: while
  the first Connect has not reached its socket nothing can be lost, and every
  return after that asks for the loss.

The inductive invariants are stated in the proof modules; the runs check what
follows from them.

Only model-checked: the liveness properties (`NextEventSettles`, `GapSurfaces`,
`OpenCheckpointSettles`, `TroubleEnds`, `EveryAcceptIsAnswered`,
`EveryNotificationEnds`, `Reconnects`, `LossEndsProcess`), since fairness and
ENABLED are out of the prover's reach, and the three properties of section 6 that fail.
No module uses RECURSIVE operators.

## 5. What is left out

In the modelled parts:

* `ChatStore`: recover-pel and the stream's pending list (they change no state
  another command reads, except to pause on a deleted entry); `Admit` counts the identity lookup as done, which
  `EvidenceIndex` models.
* `ChatWorker`: one chat; the bound on concurrent chats and the wake queue
  never bind there. Compaction inside the turn counts as part of the
  preparation that may fail; `Checkpoint` has it in full, with the turn reduced
  to one step. A failed file read is a failed preparation.
* `EvidenceIndex`: accept gives up after eight changed revisions (one would
  need eight completions of other chats during one lookup); the index's cache
  of file prefixes; the own-message lookup, which reads the same files. `TakeIndex`
  and `TakeWriter` grant a free section to any waiter, where the code's promise
  chains are first come, first served: the safety properties hold in either order,
  and weak fairness per waiter is what the queue gives.
* `Outbox`: batches of 250 rows in maintenance and the number of posts per
  cycle, the minimum interval between posts, `RequeueDead` and statistics. A
  configuration changes between processes, when no attempt is under way.
  An unobserved origin marker is not pruned: the ninety days of its retention
  are taken to outlive any echo.

* `Connection`: delays and timeouts have no length, so the retry count, which
  only picks a delay, is left out. A signal and a failure of the HTTP server are
  one `interrupt`; writing the marker never fails. The library is assumed to
  emit Disconnected when the bridge disconnects the socket, as the comment at
  `client/events.go:104` says.

* `Checkpoint`: events of the agent's own echoes, which skip the preparation and
  reconciliation, so that their marker can also leave a stalled worker's
  compaction entry an abandoned sibling, with the pause of `checkpoint_stale`;
  the marker's own gates, `ChatWorker`'s part (`Mark` appends and syncs in one
  step); the tool journal inside the turn; replies of the script that are malformed, and
  with them the command's path that gives back a fence it cannot name; refusals
  that the two leases make unreachable. Pause reasons other than those the
  commands tell apart are one. The identity, size and digests of files and
  manifests are the record and file content they stand for.
* `Lifecycle`: reading the configuration, the policy and the templates, which
  fails before anything is shared; the wording and number of diagnostics
  (`lose`, `failClosedOnce` and the diagnostic adapter are collapsed into their
  fixed point, so "reported once" is no property); the order in which the loop
  visits chats; failures that cannot happen because clean-up is ordered, such as
  closing a host with sessions open. `requestStop` from a signal, the turn's
  steps between gates and the request's refusals are one step each.

Components not modelled are listed with the reason in `PROJECT.json`.

## 6. Disagreements between code and documentation

* `checkpoint_stuck`: the documentation says that an exact matching compaction
  must be reconciled by normal startup (`README.md:186`), and the repair command
  refuses one for that reason (`session-controller/src/compaction/orphan-recovery.ts:95-96`).
  When the validation or the sync after the append fails, the worker pauses the
  chat with `compaction_failed`; a normal startup does not claim a paused chat
  (`redis/scripts.ts:125`), so nothing reconciles it and the chat stays stopped.
* `checkpoint_stale`: comments say that a checkpoint is reconciled from one exact
  durable entry of the active branch, and that abandoned siblings never authorize
  one (`compaction/compactor.ts:63-64`, `pi/session-host.ts:192-193`). That branch
  is read from a manager opened for the purpose; the prompt goes to the one loaded
  at `host.open`, which is not reloaded. A worker suspended past its leases before
  the append brings the entry when its successor has opened the session but not yet
  reconciled: the successor restores the record and prompts a session without it.
  That turn runs on the history before the checkpoint, and its own entries leave
  the compaction an abandoned sibling, so the next event pauses the chat with
  `restore_failed`. `ImplementsLedger` shows that this is the worst of it: one turn
  on an older context, never a context that goes backwards.
* `connection_stale`: comments and documentation promise a generation counter
  that guards against stale loops and one deterministic loop
  (`connection/manager.go:39-41`, `bridge/README.md:160`). The generation is
  compared once, after the delay. A superseded attempt still waiting for its
  Connected event times out later and marks a connected bridge disconnected, and
  the API then refuses to send.

Others were met while reading or in earlier runs, and no run is spent on them:

* A comment says stale work must never initiate an effect
  (`scheduler/chat-worker.ts:10-13`). A worker of an own-echo event suspended
  between its last gate and the append (`pi/session-host.ts:278-279`) adds a
  second marker for an event its successor completed, which the completion index
  then refuses (`pi/completion-index.ts:134`). Events with a turn are safe
  (`OneMarkerPerTurn`): the one-way mark keeps successors out.
* A comment says Stop cancels all pending reconnect goroutines
  (`connection/manager.go:320-321`). Between the end of the delay and
  `wa.Connect` nothing looks at the stop channel, so a goroutine may connect
  after `Disconnect` returned (`client/client.go:145-147`).
* A comment says intake is unavailable until publish (`pi/session-host.ts:267-269`).
  An accept that meets the reservation throws inside `connections.durable`, whose
  catch clears `healthy` for good (`redis/client.ts:67`); the worker's next gate
  then fails, so the file is poisoned and never published, and intake stays
  unavailable until the process is replaced.
* A crash between the durable prepare and the entry leaves an open record
  without an entry. The next worker pauses the chat with `restore_failed`
  (`pi/session-host.ts:198-212`), and the repair command accepts only
  `compaction_failed` (`redis/scripts.ts:49-78`): that pause has no command that
  releases it. `OpenCheckpointSettles` counts it as settled, since it is loud.
* `drain` and the documentation let a turn take as long as it likes. A turn that
  hangs while its leases are renewed, or in a process that lost only the chat
  lease, leaves its event open and the chat unpaused: nothing but the third
  outcome of `NextEventSettles` names it.
* The documentation says cleanup runs once per minute
  (`docs/hermes-notifications.md:114`), but the wait for a rate-limited route is
  inside the cycle that does the cleanup (`notify/worker.go:114-117`), for as long
  as the receiver's Retry-After says.
* It also says that already-notified duplicates do not notify
  (`bridge/README.md:213`); the evidence is the outbox row
  (`store/messages.go:217-224`), which retention deletes.

## 7. Plan

In order, the first six groups being done:

1. `ChatStore`, `ChatWorker`, `TurnLedger`, `ChatWorkerProofs`, `ChatWorkerSafety`.
2. `EvidenceIndex`, `EvidenceProofs`.
3. `Outbox`, `OutboxProofs`.
4. `Connection`, `ConnectionProofs`.
5. `Checkpoint`, `ContextLedger`, `CheckpointProofs`, `CheckpointLedger`.
6. `Lifecycle`, `LifecycleProofs`.
7. `Media`: one row's download status between HTTP downloads, the retry worker,
   the transcriber and a cache hit, with crashes while a file is written and two
   messages that share a file name. Safety: a served file is the message's own
   and whole; a failure to write the destination leaves the row alone; a row is
   retired only when its attempts are spent. Liveness: a requested row settles.
8. `WriteQueue`: bounded queue, cancelled submissions, Close.
9. Composition of `EvidenceIndex` with the pauses of `ChatWorker`: what one
   chat's refused file does to its neighbours.

Theorems to come: the safety properties of `Media`, `WriteQueue` and the
composition; and, for the present modules, more that follows from the proved
invariants than a run asks, as `SendsOrdered` and `ContextsOrdered` do.
