-------------------------- MODULE CheckpointLedger --------------------------
(***************************************************************************)
(* Compaction implements its ledger, for every value of the constants of   *)
(* Checkpoint: the agent's context moves from one restored checkpoint to a *)
(* later one, and every turn runs once, in sequence, on the checkpoint     *)
(* restored last or, if its session was loaded before that one's entry was *)
(* written, on an older one; it is then the last turn of the chat.         *)
(***************************************************************************)
EXTENDS CheckpointProofs

-----------------------------------------------------------------------------
(* The inductive invariant, beside CheckpointBarrier and AbortBarrier *)

\* A checkpoint is being made: its entry may or may not be in the file.
OpenRecord == record.phase \in {"prepared", "compacted"}

\* Entry i of the session file cuts the agent's context there.
IsCut(i) == file[i][1] = "compaction"

\* Cuts come in the order their checkpoints were drawn; only the open record's may
\* lie beyond the last one restored, which a power failure does not take away.
Cuts ==
  /\ \A i, j \in 1..Len(file) : i < j /\ IsCut(i) /\ IsCut(j) => file[i][2] < file[j][2]
  /\ \A i \in 1..Len(file) : IsCut(i) =>
       file[i][2] <= current \/ (OpenRecord /\ file[i][2] = record.id)
  /\ current # 0 => OnDisk(current)
  /\ OpenRecord => current < record.id

\* A worker about to append makes the open record, however stale it is itself.
Appenders ==
  \A p \in Process :
    /\ pc[p] \in {"armed", "append"} => record.phase = "prepared" /\ seen[p].id = record.id
    /\ pc[p] \in {"appended", "compacted"} => seen[p].phase = "prepared"
    /\ pc[p] = "verify" => seen[p].phase = "compacted"

\* What the newest worker read is still so, since nobody else passes the fence.
NewestReads ==
  \A p \in Process : Newest(p) =>
    /\ pc[p] \in {"reconcile", "advance"} => seen[p] = record
    /\ pc[p] \in {"decide", "capture", "record", "begin"} => ~OpenRecord
    /\ pc[p] = "record" => current < seen[p].id
    /\ turnEvent # 0 => pc[p] \in CommandSteps \cup {"open", "turn", "mark", "complete", "catch"}

\* Process p has marked the beginning of a turn and not yet its completion.
Begun(p) == pc[p] \in {"turn", "mark"}

\* One turn at a time is begun, for the event after the cursor and with no record
\* open; it runs, or is marked, once, even by a worker that lost its leases.
Turning ==
  /\ leaseLive => leaseEvent = cursor + 1
  /\ turnEvent # 0 => turnEvent = cursor + 1 /\ ~OpenRecord
  /\ \A e \in Event : told[e] # -1 \/ Marked(e) => e <= cursor \/ e = turnEvent
  /\ \A p \in Process : Begun(p) =>
       /\ turnEvent = ev[p] /\ ev[p] # 0 /\ ~Marked(ev[p])
       /\ \A q \in Process : Begun(q) => q = p
       /\ pc[p] = "turn" => told[ev[p]] = -1

\* Branch b of the session file goes through the entry of checkpoint c.
On(b, c) == \E i \in b : file[i] = <<"compaction", c>>

\* Process p runs on a session it has opened, and may yet append to it.
Running == {"prepare", "reconcile", "advance", "decide", "capture", "record", "armed", "append",
            "appended", "compacted", "verify", "begin", "turn", "mark"}
Runner(p) ==
  pc[p] \in {"armed", "append", "turn", "mark"} \/ (Newest(p) /\ pc[p] \in Running)

\* A turn ran on less than what had been restored.
Behind == told # due

\* The end of the file: on disk between two turns, but for the entry of the open
\* record, which nothing follows.
Ending ==
  /\ \A i \in 1..Len(file) : i \in branch[i]
  /\ record.phase = "restored" => record.id = current
  /\ record.phase = "none" => current = 0
  /\ turnEvent = 0 \/ Marked(turnEvent) =>
       synced = Len(file) \/ (OpenRecord /\ InFile(record.id) /\ ~OnDisk(record.id))
  /\ OpenRecord /\ InFile(record.id) => file[Len(file)] = <<"compaction", record.id>>

\* Checkpoint c is on every branch a session may yet be opened on, and on those
\* that workers run on.
Rooted(c) ==
  /\ \A i \in synced..Len(file) : On(branch[i], c)
  /\ \A p \in Process : Runner(p) => On(loaded[p], c)

\* The turn of event d is in the history for good.
Kept(d) == told[d] > 0 /\ (d <= cursor \/ Marked(d))

\* What a turn was given stays below every later turn.
Anchored ==
  /\ \A d \in Event : told[d] <= current
  /\ \A d \in Event : Kept(d) => Rooted(told[d])
  /\ \A p \in Process : pc[p] = "mark" /\ told[ev[p]] > 0 => On(loaded[p], told[ev[p]])

\* Until a turn falls behind, every branch goes on from the last checkpoint restored.
Lineage ==
  ~Behind /\ current # 0 =>
    /\ \A i \in synced..Len(file) :
         On(branch[i], current) \/ (OpenRecord /\ file[i] = <<"compaction", record.id>>)
    /\ \A p \in Process :
         pc[p] = "mark" \/ (record.phase = "aborted" /\ Runner(p)) => On(loaded[p], current)

\* The steps a worker gets to only with the checkpoint it read behind it.
Settled == {"advance", "decide", "capture", "record", "begin"}

\* Once a turn has fallen behind nobody gets to another turn or checkpoint: the
\* branch it left misses the entry that every reconciliation looks for.
Stops ==
  Behind =>
    /\ record.phase = "restored"
    /\ turnEvent # 0 => told[turnEvent] # -1
    /\ turnEvent = 0 \/ Marked(turnEvent) =>
         \A i \in synced..Len(file) : ~On(branch[i], current)
    /\ \A p \in Process : pc[p] = "mark" => ~On(loaded[p], current)
    /\ turnEvent = 0 => \A p \in Process : Newest(p) => pc[p] \notin Settled

Branches == Ending /\ Anchored /\ Lineage /\ Stops

LedgerBarrier == Cuts /\ Appenders /\ NewestReads /\ Turning /\ Branches

LedgerInv == AbortInv /\ LedgerBarrier

-----------------------------------------------------------------------------
(* Who writes *)

\* p moves the record on; the read-back before the last transition may fail.
Transition(p) ==
  Advance(p) \/ Compacted(p) \/ (Verify(p) /\ CheckpointTransition(p, seen[p]))

\* The record, the restored checkpoint and the turn mark are written under the
\* writer's own leases only.
LEMMA OnlyOwnersWrite ==
  ASSUME TypeOK, NEW p \in Process,
         \/ WorkerStep(p) \/ CommandStep(p)
         \/ Acquire(p) \/ LoseApp(p) \/ Drain(p) \/ Crash(p),
         ~UNCHANGED <<record, current, turnEvent>>
  PROVE  Work(ep[p], ce[p], ev[p]) /\ pc[p] \notin Unleased
<1> USE DEF TypeOK, Unleased, storeVars, stateVars, historyVars
<1>1. CASE \/ Open(p) \/ Prepare(p) \/ Reconcile(p) \/ Advance(p) \/ Decide(p) \/ Capture(p)
  BY <1>1 DEF Open, Bind, Prepare, Reconcile, Advance, CheckpointTransition, Decide, Capture
<1>2. CASE \/ Record(p) \/ ArmGate(p) \/ AppendEntry(p) \/ SyncEntry(p) \/ Compacted(p) \/ Verify(p)
  BY <1>2 DEF Record, CheckpointPrepare, ArmGate, AppendEntry, SyncEntry, Compacted, Verify,
              CheckpointTransition
<1>3. CASE BeginTurn(p) \/ Turn(p) \/ Mark(p) \/ Complete(p) \/ Pause(p) \/ GateLost(p)
  BY <1>3 DEF BeginTurn, BeginTurnMark, Turn, Mark, Complete, CompleteEvent, Pause, SetPause, GateLost
<1>4. CASE Abort(p)
  BY <1>4 DEF Abort, MayAbort
<1>5. CASE CommandStep(p) /\ ~Abort(p)
  BY <1>5 DEF CommandStep, ConsumeManifest, ClaimRepair, Prove, ProveAgain, ClaimIntent,
         Stage, ReleaseIntent, Publish, GiveBack, Leave, AppRelease
<1>6. CASE Acquire(p) \/ LoseApp(p) \/ Drain(p) \/ Crash(p)
  BY <1>6 DEF Acquire, AppAcquire, LoseApp, Drain, AppRelease, Crash
<1> QED
  BY <1>1, <1>2, <1>3, <1>4, <1>5, <1>6 DEF WorkerStep

\* A grant leaves the record, the turn and the histories alone.
LEMMA GrantLeaves ==
  ASSUME TypeOK, NEW p \in Process,
         Claim(p) \/ (ClaimRepair(p) /\ RepairGrant(p)) \/ (ClaimIntent(p) /\ RepairGrant(p))
  PROVE  /\ UNCHANGED <<record, file, synced, current, told, due, turnEvent, cursor>>
         /\ pc'[p] \in {"open", "prove", "digest"}
         /\ leaseEvent' = cursor + 1
BY GrantEpochs DEF Claim, ClaimGrant, ClaimRepair, ClaimIntent, RepairGrant, diskVars, historyVars, stateVars

\* Expiries leave everything alone but whether a lease is live.
LEMMA ExpiryLeaves ==
  ASSUME ExpireApp \/ ExpireLease \/ UNCHANGED vars
  PROVE  /\ UNCHANGED <<record, file, synced, current, told, due, turnEvent, cursor, pc, seen, ev, ce,
                        leaseEpoch, leaseEvent>>
         /\ leaseLive' => leaseLive
BY DEF ExpireApp, AppExpires, ExpireLease, LeaseExpires, vars, storeVars, leaseVars, stateVars,
       procVars, diskVars, historyVars

-----------------------------------------------------------------------------
(* What the newest worker read *)

\* The newest process moves on, with what it reads and writes itself.
LEMMA NewestMoves ==
  ASSUME LedgerInv, NEW p \in Process, Newest(p),
         \/ WorkerStep(p) \/ CommandStep(p)
         \/ Acquire(p) \/ LoseApp(p) \/ Drain(p) \/ Crash(p),
         ~(ClaimRepair(p) /\ RepairGrant(p)), ~(ClaimIntent(p) /\ RepairGrant(p))
  PROVE  /\ pc'[p] \in {"reconcile", "advance"} => seen'[p] = record'
         /\ pc'[p] \in {"decide", "capture", "record", "begin"} => ~OpenRecord'
         /\ pc'[p] = "record" => current' < seen'[p].id
         /\ turnEvent' # 0 =>
              pc'[p] \in CommandSteps \cup {"open", "turn", "mark", "complete", "catch"}
<1>0. /\ pc \in [Process -> Step] /\ seen \in [Process -> CheckpointRecord]
      /\ record \in CheckpointRecord /\ drawn \in Nat /\ current \in Nat
      /\ reason \in [Process -> Pauses \cup {"none"}]
  BY CheckpointAssumption DEF LedgerInv, AbortInv, TypeOK
<1>a. /\ pc[p] \in {"reconcile", "advance"} => seen[p] = record
      /\ pc[p] \in {"decide", "capture", "record", "begin"} => ~OpenRecord
      /\ pc[p] = "record" => current < seen[p].id
      /\ turnEvent # 0 => pc[p] \in CommandSteps \cup {"open", "turn", "mark", "complete", "catch"}
  BY DEF LedgerInv, LedgerBarrier, NewestReads
<1> USE DEF Goto, Throw
<1>1. CASE Open(p)
  BY <1>0, <1>1 DEF Open, Bind, CommandSteps, storeVars, stateVars
<1>2. CASE Prepare(p)
  BY <1>0, <1>a, <1>2 DEF Prepare, OpenRecord, CommandSteps, storeVars, stateVars
<1>3. CASE Reconcile(p)
  BY <1>0, <1>a, <1>3 DEF Reconcile, Require, OpenRecord, CommandSteps, procVars, storeVars, stateVars
<1>4. CASE Advance(p)
  BY <1>0, <1>a, <1>4 DEF Advance, OpenRecord, CommandSteps, storeVars, stateVars
<1>5. CASE Decide(p)
  BY <1>0, <1>a, <1>5 DEF Decide, OpenRecord, CommandSteps, procVars, storeVars, stateVars
<1>6. CASE Capture(p)
  <2>1. current <= drawn
    <3>1. CASE current = 0
      BY <1>0, <3>1
    <3>2. CASE current # 0
      <4>1. PICK i \in 1..synced : file[i] = <<"compaction", current>>
        BY <3>2 DEF LedgerInv, LedgerBarrier, Cuts, OnDisk
      <4>2. i \in 1..Len(file)
        BY DEF LedgerInv, AbortInv, TypeOK
      <4> QED
        BY <4>1, <4>2 DEF LedgerInv, AbortInv, CheckpointBarrier, DrawnBefore
    <3> QED
      BY <3>1, <3>2
  <2>2. UNCHANGED <<record, current, turnEvent>>
    BY <1>6 DEF Capture, storeVars, stateVars, historyVars
  <2>3. pc'[p] = "catch" \/ (pc'[p] = "record" /\ seen'[p].id = drawn + 1)
    BY <1>0, <1>6 DEF Capture
  <2> QED
    BY <1>0, <1>a, <1>6, <2>1, <2>2, <2>3 DEF OpenRecord, CommandSteps, Capture
<1>7. CASE Record(p) \/ ArmGate(p) \/ AppendEntry(p) \/ SyncEntry(p)
  <2>1. /\ pc'[p] \in {"armed", "append", "appended", "compacted", "catch"}
        /\ pc[p] \in {"record", "armed", "append", "appended"}
        /\ turnEvent' = turnEvent
    BY <1>0, <1>7 DEF Record, ArmGate, AppendEntry, SyncEntry, storeVars, stateVars
  <2> QED
    BY <1>a, <2>1 DEF CommandSteps
<1>8. CASE Compacted(p)
  BY <1>0, <1>a, <1>8 DEF Compacted, CommandSteps, storeVars, stateVars
<1>9. CASE Verify(p)
  <2>1. turnEvent' = turnEvent /\ pc[p] = "verify"
    BY <1>9 DEF Verify, storeVars, stateVars
  <2>2. CASE pc'[p] = "catch"
    BY <2>2 DEF CommandSteps
  <2>3. CASE pc'[p] # "catch"
    <3>1. pc'[p] = "begin" /\ CheckpointTransition(p, seen[p])
      BY <1>0, <1>9, <2>3 DEF Verify
    <3>2. seen[p].phase = "compacted" /\ seen[p] = record
      BY <2>1, <3>1 DEF CheckpointTransition, LedgerInv, LedgerBarrier, Appenders
    <3>3. record'.phase = "restored"
      BY <1>0, <3>1, <3>2 DEF CheckpointTransition, NextPhase, CheckpointRecord
    <3> QED
      BY <1>a, <2>1, <3>1, <3>3 DEF OpenRecord, CommandSteps
  <2> QED
    BY <2>2, <2>3
<1>10. CASE BeginTurn(p) \/ Turn(p) \/ Mark(p)
  BY <1>0, <1>10 DEF BeginTurn, Turn, Mark
<1>11. CASE Complete(p) \/ Pause(p) \/ GateLost(p) \/ Acquire(p) \/ Drain(p) \/ Crash(p) \/ LoseApp(p)
  <2>1. CASE LoseApp(p)
    BY <1>a, <2>1 DEF LoseApp, OpenRecord, storeVars, stateVars, historyVars
  <2>2. CASE Complete(p) \/ Pause(p) \/ GateLost(p) \/ Drain(p) \/ Crash(p)
    BY <1>0, <2>2 DEF Complete, Pause, GateLost, Drain, Crash, Stop, CommandSteps
  <2>3. CASE Acquire(p)
    BY <1>0, <2>3 DEF Acquire, CommandSteps
  <2> QED
    BY <1>11, <2>1, <2>2, <2>3
<1>12. CASE CommandStep(p)
  <2>1. pc'[p] \in CommandSteps
    BY <1>0, <1>12 DEF CommandStep, ConsumeManifest, ClaimRepair, Prove, ProveAgain, Abort,
       ClaimIntent, Stage, ReleaseIntent, Publish, GiveBack, Leave, Stop, CommandSteps
  <2> QED
    BY <2>1 DEF CommandSteps
<1> QED
  BY <1>1, <1>2, <1>3, <1>4, <1>5, <1>6, <1>7, <1>8, <1>9, <1>10, <1>11, <1>12 DEF WorkerStep

\* Whoever else is the newest finds everything as it was.
LEMMA NewestReadsKeep ==
  ASSUME LedgerInv, [Next]_vars
  PROVE  NewestReads'
<1>1. ASSUME NEW p \in Process,
             Claim(p) \/ (ClaimRepair(p) /\ RepairGrant(p)) \/ (ClaimIntent(p) /\ RepairGrant(p))
      PROVE  NewestReads'
  <2>1. \A q \in Process : Newest(q)' => q = p
    BY <1>1, NewestGranted DEF LedgerInv
  <2>2. pc'[p] \in {"open", "prove", "digest"}
    BY <1>1, GrantLeaves DEF LedgerInv, AbortInv
  <2> QED
    BY <2>1, <2>2 DEF NewestReads, CommandSteps
<1>2. ASSUME NEW p \in Process,
             \/ WorkerStep(p) \/ CommandStep(p)
             \/ Acquire(p) \/ LoseApp(p) \/ Drain(p) \/ Crash(p),
             ~(ClaimRepair(p) /\ RepairGrant(p)), ~(ClaimIntent(p) /\ RepairGrant(p))
      PROVE  NewestReads'
  <2> SUFFICES ASSUME NEW q \in Process, Newest(q)'
               PROVE  /\ pc'[q] \in {"reconcile", "advance"} => seen'[q] = record'
                      /\ pc'[q] \in {"decide", "capture", "record", "begin"} => ~OpenRecord'
                      /\ pc'[q] = "record" => current' < seen'[q].id
                      /\ turnEvent' # 0 =>
                           pc'[q] \in CommandSteps \cup {"open", "turn", "mark", "complete", "catch"}
    BY DEF NewestReads, CommandSteps
  <2>1. Newest(q) /\ (q # p => pc'[q] = pc[q] /\ seen'[q] = seen[q])
    BY <1>2, NewestStays DEF LedgerInv
  <2>2. CASE q = p
    BY <1>2, <2>1, <2>2, NewestMoves
  <2>3. CASE q # p
    <3>1. UNCHANGED <<record, current, turnEvent>>
      BY <1>2, <2>1, <2>3, OnlyOwnersWrite, WorkIsNewest DEF LedgerInv, AbortInv, Unleased
    <3> QED
      BY <2>1, <2>3, <3>1 DEF LedgerInv, LedgerBarrier, NewestReads, OpenRecord
  <2> QED
    BY <2>2, <2>3
<1>3. CASE ExpireApp \/ ExpireLease \/ UNCHANGED vars
  BY <1>3, ExpiryLeaves DEF LedgerInv, LedgerBarrier, NewestReads, Newest, OpenRecord
<1>4. CASE HostCrash
  BY <1>4 DEF HostCrash, NewestReads, Newest
<1> QED
  BY <1>1, <1>2, <1>3, <1>4 DEF Next

-----------------------------------------------------------------------------
(* Who appends *)

\* A transition is made of the record as it is, with its entry on disk.
LEMMA TransitionShape ==
  ASSUME LedgerInv, NEW p \in Process, Transition(p)
  PROVE  /\ seen[p] = record /\ OpenRecord /\ OnDisk(record.id) /\ InFile(record.id)
         /\ record' = [record EXCEPT !.phase = NextPhase(record.phase)]
         /\ record'.id = record.id /\ record'.phase = NextPhase(record.phase)
         /\ current' = IF record.phase = "compacted" THEN record.id ELSE current
         /\ UNCHANGED <<file, synced, turnEvent, cursor, told, due, leaseLive, leaseEvent, ev>>
<1>1. /\ CheckpointTransition(p, seen[p]) /\ pc[p] \in {"advance", "compacted", "verify"}
      /\ UNCHANGED <<file, synced, turnEvent, cursor, told, due, leaseLive, leaseEvent, ev>>
  <2>1. CASE Advance(p)
    BY <2>1 DEF Advance, diskVars, storeVars, stateVars, leaseVars
  <2>2. CASE Compacted(p)
    BY <2>2 DEF Compacted, diskVars, storeVars, stateVars, leaseVars
  <2>3. CASE Verify(p) /\ CheckpointTransition(p, seen[p])
    BY <2>3 DEF Verify, diskVars, storeVars, stateVars, leaseVars, procVars
  <2> QED
    BY <2>1, <2>2, <2>3 DEF Transition
<1>2. OnDisk(seen[p].id)
  BY <1>1 DEF LedgerInv, AbortInv, CheckpointBarrier, WorkersDurable
<1>3. record \in CheckpointRecord /\ synced \in 0..Len(file) /\ Len(file) \in Nat
  BY DEF LedgerInv, AbortInv, TypeOK
<1>4. InFile(seen[p].id)
  <2>1. PICK i \in 1..synced : file[i] = <<"compaction", seen[p].id>>
    BY <1>2 DEF OnDisk
  <2>2. i \in 1..Len(file)
    BY <1>3
  <2> QED
    BY <2>1, <2>2 DEF InFile
<1> QED
  BY <1>1, <1>2, <1>3, <1>4 DEF CheckpointTransition, OpenRecord, CheckpointRecord

\* An abort finds the open record without an entry, and nobody about to append.
LEMMA AbortShape ==
  ASSUME LedgerInv, NEW p \in Process, Abort(p), record' # record
  PROVE  /\ record.phase = "prepared" /\ record' = [record EXCEPT !.phase = "aborted"]
         /\ record'.phase = "aborted"
         /\ ~InFile(record.id)
         /\ \A q \in Process : pc[q] \notin {"armed", "append"}
         /\ UNCHANGED <<file, synced, current, turnEvent, cursor, told, due, ev>>
<1>1. MayAbort(p) /\ pc[p] = "abort" /\ record' = [record EXCEPT !.phase = "aborted"]
  BY DEF Abort
<1>2. /\ Newest(p) /\ seen[p] = record /\ record.phase = "prepared"
      /\ pause = "compaction_failed"
  BY <1>1, WorkIsNewest DEF MayAbort, RepairEvidence, LedgerInv
<1>3. ~InFile(record.id)
  BY <1>1, <1>2 DEF LedgerInv, AbortInv, AbortBarrier, AbortIsSafe
<1>4. ASSUME NEW q \in Process, pc[q] \in {"armed", "append"}
      PROVE  FALSE
  <2>1. Pending(q)
    BY <1>2, <1>4 DEF Pending, LedgerInv, LedgerBarrier, Appenders
  <2> QED
    BY <1>2, <2>1 DEF LedgerInv, AbortInv, AbortBarrier, PendingIsSafe
<1>5. record \in CheckpointRecord
  BY DEF LedgerInv, AbortInv, TypeOK
<1>6. UNCHANGED <<file, synced, current, turnEvent, cursor, told, due, ev>>
  BY DEF Abort, diskVars, historyVars, procVars
<1> QED
  BY <1>1, <1>2, <1>3, <1>4, <1>5, <1>6 DEF CheckpointRecord

\* A new record takes the place of one that is closed, and comes after it.
LEMMA RecordMade ==
  ASSUME LedgerInv, NEW p \in Process, Record(p)
  PROVE  /\ ~OpenRecord /\ record' = seen[p] /\ seen[p].phase = "prepared"
         /\ current < seen[p].id
         /\ Newest(p) /\ pc[p] = "record"
         /\ UNCHANGED <<file, synced, seen, current, turnEvent, cursor, told, due, leaseLive, leaseEvent, ev>>
<1>1. /\ CheckpointPrepare(p, seen[p]) /\ pc[p] = "record"
      /\ UNCHANGED <<file, synced, seen, current, turnEvent, cursor, told, due, leaseLive, leaseEvent, ev>>
  BY DEF Record, diskVars, procVars, historyVars, storeVars, stateVars, leaseVars
<1>2. Newest(p)
  BY <1>1, WorkIsNewest DEF CheckpointPrepare, LedgerInv
<1>3. seen[p].phase = "prepared"
  BY <1>1 DEF Holds, LedgerInv, AbortInv, CheckpointBarrier, HeldApart
<1> QED
  BY <1>1, <1>2, <1>3 DEF CheckpointPrepare, OpenRecord, LedgerInv, LedgerBarrier, NewestReads

\* Any other step of a process leaves the record and what was restored alone.
LEMMA OthersWriteNothing ==
  ASSUME TypeOK, NEW p \in Process,
         \/ WorkerStep(p) \/ CommandStep(p) \/ Claim(p)
         \/ Acquire(p) \/ LoseApp(p) \/ Drain(p) \/ Crash(p),
         ~(Transition(p) \/ Record(p) \/ Abort(p))
  PROVE  UNCHANGED <<record, current>>
<1>1. CASE WorkerStep(p)
  BY <1>1 DEF WorkerStep, Transition, Open, Prepare, Reconcile, Decide, Capture, ArmGate, Verify,
         AppendEntry, SyncEntry, BeginTurn, Turn, Mark, Complete, Pause, GateLost, historyVars
<1>2. CASE CommandStep(p)
  BY <1>2 DEF CommandStep, ConsumeManifest, ClaimRepair, Prove, ProveAgain, ClaimIntent,
         Stage, ReleaseIntent, Publish, GiveBack, Leave, historyVars
<1>3. CASE Claim(p) \/ Acquire(p) \/ LoseApp(p) \/ Drain(p) \/ Crash(p)
  BY <1>3 DEF Claim, Acquire, LoseApp, Drain, Crash, historyVars
<1> QED
  BY <1>1, <1>2, <1>3

\* Where a worker about to append, or just past it, comes from.
LEMMA AppendersKeep ==
  ASSUME LedgerInv, [Next]_vars
  PROVE  Appenders'
<1>0. /\ pc \in [Process -> Step] /\ seen \in [Process -> CheckpointRecord]
      /\ record \in CheckpointRecord
  BY DEF LedgerInv, AbortInv, TypeOK
<1>1. ASSUME NEW p \in Process,
             \/ WorkerStep(p) \/ CommandStep(p) \/ Claim(p)
             \/ Acquire(p) \/ LoseApp(p) \/ Drain(p) \/ Crash(p)
      PROVE  Appenders'
  <2>1. ASSUME NEW q \in Process, pc'[q] \in {"armed", "append"}
        PROVE  record'.phase = "prepared" /\ seen'[q].id = record'.id
    <3>1. CASE q = p /\ Record(p)
      BY <3>1, RecordMade
    <3>2. CASE pc[q] \in {"armed", "append"} /\ seen'[q] = seen[q]
      <4>1. record.phase = "prepared" /\ seen[q].id = record.id
        BY <3>2 DEF LedgerInv, LedgerBarrier, Appenders
      <4>2. ~InFile(record.id)
        BY <3>2, <4>1 DEF Holds, LedgerInv, AbortInv, CheckpointBarrier, HeldApart
      <4>3. ~Transition(p)
        BY <4>2, TransitionShape
      <4>4. ~Record(p)
        BY <4>1, RecordMade DEF OpenRecord
      <4>5. Abort(p) => record' = record
        BY <3>2, AbortShape
      <4>6. record' = record
        BY <1>1, <4>3, <4>4, <4>5, OthersWriteNothing DEF LedgerInv, AbortInv
      <4> QED
        BY <3>2, <4>1, <4>6
    <3> QED
      BY <1>1, <2>1, <3>1, <3>2, PendingFrom DEF LedgerInv
  <2>2. ASSUME NEW q \in Process, pc'[q] \in {"appended", "compacted", "verify"}
        PROVE  /\ pc'[q] \in {"appended", "compacted"} => seen'[q].phase = "prepared"
               /\ pc'[q] = "verify" => seen'[q].phase = "compacted"
    <3>0. /\ pc[q] \in {"appended", "compacted"} => seen[q].phase = "prepared"
          /\ pc[q] = "verify" => seen[q].phase = "compacted"
      BY DEF LedgerInv, LedgerBarrier, Appenders
    <3>1. CASE q # p
      BY <1>1, <3>0, <3>1, OthersStay DEF LedgerInv, AbortInv
    <3>2. CASE q = p /\ AppendEntry(p)
      <4>1. seen[p].phase = "prepared"
        BY <3>2 DEF AppendEntry, Holds, LedgerInv, AbortInv, CheckpointBarrier, HeldApart
      <4> QED
        BY <1>0, <2>2, <3>2, <4>1 DEF AppendEntry, AppendEnd, Goto, Throw, procVars
    <3>3. CASE q = p /\ SyncEntry(p)
      BY <1>0, <2>2, <3>0, <3>3 DEF SyncEntry, Goto, Throw, procVars
    <3>4. CASE q = p /\ Compacted(p)
      <4>1. seen'[p] = record' /\ seen[p] = record /\ record'.phase = NextPhase(record.phase)
        BY <1>0, <3>4, TransitionShape DEF Compacted, Transition
      <4>2. seen[p].phase = "prepared" /\ pc'[p] = "verify"
        BY <1>0, <3>0, <3>4 DEF Compacted, Goto
      <4> QED
        BY <3>4, <4>1, <4>2 DEF NextPhase
    <3>5. CASE q = p /\ ~(AppendEntry(p) \/ SyncEntry(p) \/ Compacted(p))
      <4>1. CASE WorkerStep(p)
        BY <1>0, <2>2, <3>5, <4>1 DEF WorkerStep, Open, Prepare, Reconcile, Require, Advance,
           Decide, Capture, Record, ArmGate, Verify, BeginTurn, Turn, Mark, Complete, Pause,
           GateLost, Goto, Throw, Stop
      <4>2. CASE CommandStep(p)
        BY <1>0, <2>2, <3>5, <4>2 DEF CommandStep, ConsumeManifest, ClaimRepair, Prove,
           ProveAgain, Abort, ClaimIntent, Stage, ReleaseIntent, Publish, GiveBack, Leave,
           Goto, Stop
      <4>3. CASE LoseApp(p)
        BY <3>0, <3>5, <4>3 DEF LoseApp
      <4>4. CASE Claim(p) \/ Acquire(p) \/ Drain(p) \/ Crash(p)
        BY <1>0, <2>2, <3>0, <3>5, <4>4 DEF Claim, Acquire, Drain, Crash, Goto, Stop
      <4> QED
        BY <1>1, <4>1, <4>2, <4>3, <4>4
    <3> QED
      BY <3>1, <3>2, <3>3, <3>4, <3>5
  <2> QED
    BY <2>1, <2>2 DEF Appenders
<1>2. CASE ExpireApp \/ ExpireLease \/ UNCHANGED vars
  BY <1>2, ExpiryLeaves DEF LedgerInv, LedgerBarrier, Appenders
<1>3. CASE HostCrash
  BY <1>3 DEF HostCrash, Appenders
<1> QED
  BY <1>1, <1>2, <1>3 DEF Next

-----------------------------------------------------------------------------
(* The cuts in the session file *)

\* What the entries of the file are.
LEMMA EntriesTyped ==
  ASSUME TypeOK
  PROVE  /\ file \in Seq(Entry) /\ Len(file) \in Nat /\ synced \in 0..Len(file)
         /\ \A i \in 1..Len(file) : file[i] \in Entry /\ file[i][2] \in Int
         /\ current \in Int /\ record.id \in Int /\ record.phase \in Phases
BY CheckpointAssumption, StoreAssumption DEF TypeOK, Entry, CheckpointRecord

\* What an append leaves of the file.
LEMMA AppendFacts ==
  ASSUME TypeOK, NEW x \in Entry, file' = Append(file, x)
  PROVE  /\ Len(file') = Len(file) + 1 /\ file'[Len(file) + 1] = x
         /\ \A i \in 1..Len(file) : file'[i] = file[i]
         /\ 1..Len(file') = 1..Len(file) \cup {Len(file) + 1}
BY AppendProperties DEF TypeOK

\* The file is as it was, or lost what was not on disk.
LEMMA CutsShorten ==
  ASSUME LedgerInv, NEW n \in synced..Len(file), Len(file') = n,
         \A i \in 1..n : file'[i] = file[i],
         synced' \in synced..n,
         UNCHANGED <<record, current>>
  PROVE  Cuts'
<1>0. /\ Len(file) \in Nat /\ synced \in 0..Len(file)
      /\ \A i \in 1..n : i \in 1..Len(file)
  BY EntriesTyped DEF LedgerInv, AbortInv
<1>1. \A i \in 1..n : IsCut(i)' <=> IsCut(i)
  BY DEF IsCut
<1>2. OnDisk(current) => OnDisk(current)'
  BY <1>0 DEF OnDisk
<1> QED
  BY <1>0, <1>1, <1>2 DEF LedgerInv, LedgerBarrier, Cuts, OpenRecord

\* An entry appended is no cut, or the open record's.
LEMMA CutsAppend ==
  ASSUME LedgerInv, NEW x \in Entry, file' = Append(file, x), synced' \in {synced, Len(file) + 1},
         UNCHANGED <<record, current>>,
         x[1] = "compaction" => OpenRecord /\ x[2] = record.id /\ ~InFile(record.id)
  PROVE  Cuts'
<1>0. /\ Len(file) \in Nat /\ synced \in 0..Len(file) /\ current \in Int /\ record.id \in Int
      /\ \A i \in 1..Len(file) : file[i] \in Entry /\ file[i][2] \in Int
  BY EntriesTyped DEF LedgerInv, AbortInv
<1>1. /\ Len(file') = Len(file) + 1 /\ file'[Len(file) + 1] = x
      /\ \A i \in 1..Len(file) : file'[i] = file[i]
      /\ \A i \in 1..Len(file') : i \in 1..Len(file) \/ i = Len(file) + 1
  BY AppendFacts DEF LedgerInv, AbortInv
<1>2. \A i \in 1..Len(file) : file'[i][1] = "compaction" <=> IsCut(i)
  BY <1>1 DEF IsCut
<1>3. ASSUME x[1] = "compaction", NEW i \in 1..Len(file), IsCut(i)
      PROVE  file[i][2] < x[2]
  <2>1. file[i] = <<"compaction", file[i][2]>>
    BY <1>0, <1>3 DEF IsCut, Entry
  <2>2. file[i][2] # record.id
    BY <1>3, <2>1 DEF InFile
  <2> QED
    BY <1>0, <1>3, <2>2 DEF LedgerInv, LedgerBarrier, Cuts
<1>4. ASSUME NEW i \in 1..Len(file'), NEW j \in 1..Len(file'), i < j,
             file'[i][1] = "compaction", file'[j][1] = "compaction"
      PROVE  file'[i][2] < file'[j][2]
  <2>1. i \in 1..Len(file)
    BY <1>0, <1>1, <1>4
  <2>2. CASE j \in 1..Len(file)
    BY <1>1, <1>2, <1>4, <2>1, <2>2 DEF LedgerInv, LedgerBarrier, Cuts
  <2>3. CASE j = Len(file) + 1
    BY <1>1, <1>2, <1>3, <1>4, <2>1, <2>3
  <2> QED
    BY <1>1, <2>2, <2>3
<1>5. ASSUME NEW i \in 1..Len(file'), file'[i][1] = "compaction"
      PROVE  file'[i][2] <= current \/ (OpenRecord /\ file'[i][2] = record.id)
  <2>1. CASE i \in 1..Len(file)
    BY <1>1, <1>2, <1>5, <2>1 DEF LedgerInv, LedgerBarrier, Cuts
  <2>2. CASE i = Len(file) + 1
    BY <1>1, <1>2, <1>5, <2>2
  <2> QED
    BY <1>1, <2>1, <2>2
<1>6. OnDisk(current) => OnDisk(current)'
  <2>1. \A i \in 1..synced : i \in 1..synced' /\ file'[i] = file[i]
    BY <1>0, <1>1
  <2> QED
    BY <2>1 DEF OnDisk
<1> QED
  BY <1>4, <1>5, <1>6 DEF LedgerInv, LedgerBarrier, Cuts, OpenRecord, IsCut

\* A write of the record opens one that is later, closes it as restored with its
\* entry on disk, or gives it up without one.
LEMMA CutsRewrite ==
  ASSUME LedgerInv, NEW p \in Process,
         \/ Record(p) \/ Transition(p)
         \/ Abort(p) /\ record' # record
  PROVE  Cuts'
<1>0. /\ Len(file) \in Nat /\ synced \in 0..Len(file) /\ current \in Int /\ record.id \in Int
      /\ \A i \in 1..Len(file) : file[i] \in Entry /\ file[i][2] \in Int
  BY EntriesTyped DEF LedgerInv, AbortInv
<1>1. CASE Record(p)
  <2>1. /\ ~OpenRecord /\ OpenRecord' /\ current < record'.id
        /\ UNCHANGED <<file, synced, current>>
    BY <1>1, RecordMade DEF OpenRecord
  <2> QED
    BY <2>1 DEF LedgerInv, LedgerBarrier, Cuts, IsCut, OnDisk
<1>2. CASE Transition(p)
  <2>1. /\ OpenRecord /\ OnDisk(record.id) /\ record'.id = record.id
        /\ record'.phase = NextPhase(record.phase)
        /\ current' = IF record.phase = "compacted" THEN record.id ELSE current
        /\ UNCHANGED <<file, synced>>
    BY <1>2, TransitionShape
  <2>2. CASE record.phase = "compacted"
    <3>1. ~OpenRecord' /\ current' = record.id /\ current < record.id
      BY <2>1, <2>2 DEF OpenRecord, NextPhase, LedgerInv, LedgerBarrier, Cuts
    <3>2. \A i \in 1..Len(file) : IsCut(i) => file[i][2] <= record.id
      BY <1>0, <3>1 DEF LedgerInv, LedgerBarrier, Cuts
    <3> QED
      BY <2>1, <3>1, <3>2 DEF LedgerInv, LedgerBarrier, Cuts, IsCut, OnDisk
  <2>3. CASE record.phase = "prepared"
    <3>1. OpenRecord' /\ current' = current
      BY <2>1, <2>3 DEF OpenRecord, NextPhase
    <3> QED
      BY <2>1, <3>1 DEF LedgerInv, LedgerBarrier, Cuts, IsCut, OnDisk
  <2> QED
    BY <2>1, <2>2, <2>3 DEF OpenRecord
<1>3. CASE Abort(p) /\ record' # record
  <2>1. /\ ~OpenRecord' /\ ~InFile(record.id) /\ UNCHANGED <<file, synced, current>>
    BY <1>3, AbortShape DEF OpenRecord
  <2>2. \A i \in 1..Len(file) : IsCut(i) => file[i][2] # record.id
    <3>1. \A i \in 1..Len(file) : IsCut(i) => file[i] = <<"compaction", file[i][2]>>
      BY <1>0 DEF IsCut, Entry
    <3> QED
      BY <2>1, <3>1 DEF InFile
  <2> QED
    BY <2>1, <2>2 DEF LedgerInv, LedgerBarrier, Cuts, IsCut, OnDisk
<1> QED
  BY <1>1, <1>2, <1>3

\* What a process does to the file: nothing but its appends.
LEMMA FileShape ==
  ASSUME TypeOK, NEW p \in Process,
         \/ WorkerStep(p) \/ CommandStep(p) \/ Claim(p)
         \/ Acquire(p) \/ LoseApp(p) \/ Drain(p) \/ Crash(p),
         file' # file
  PROVE  \/ /\ AppendEntry(p) /\ pc[p] = "append" /\ synced' = synced
            /\ file' = Append(file, <<"compaction", seen[p].id>>)
         \/ Turn(p) /\ file' = Append(file, <<"turn", ev[p]>>) /\ synced' = synced
         \/ Mark(p) /\ file' = Append(file, <<"marker", ev[p]>>) /\ synced' = Len(file')
<1>1. CASE AppendEntry(p)
  BY <1>1 DEF AppendEntry, AppendEnd
<1>2. CASE Turn(p) \/ Mark(p)
  BY <1>2 DEF Turn, Mark, AppendEnd
<1>3. CASE WorkerStep(p) /\ ~(AppendEntry(p) \/ Turn(p) \/ Mark(p))
  BY <1>3 DEF WorkerStep, Open, Prepare, Reconcile, Advance, Decide, Capture, Record, ArmGate,
         SyncEntry, Compacted, Verify, BeginTurn, Complete, Pause, GateLost, diskVars
<1>4. CASE CommandStep(p)
  BY <1>4 DEF CommandStep, ConsumeManifest, ClaimRepair, Prove, ProveAgain, Abort, ClaimIntent, Stage,
         ReleaseIntent, Publish, GiveBack, Leave, diskVars
<1>5. CASE Claim(p) \/ Acquire(p) \/ LoseApp(p) \/ Drain(p) \/ Crash(p)
  BY <1>5 DEF Claim, Acquire, LoseApp, Drain, Crash, diskVars
<1> QED
  BY <1>1, <1>2, <1>3, <1>4, <1>5

\* A file that does not change is at most synced.
LEMMA SyncShape ==
  ASSUME TypeOK, NEW p \in Process,
         \/ WorkerStep(p) \/ CommandStep(p) \/ Claim(p)
         \/ Acquire(p) \/ LoseApp(p) \/ Drain(p) \/ Crash(p),
         file' = file
  PROVE  synced' \in {synced, Len(file)}
<1>1. CASE AppendEntry(p) \/ Turn(p) \/ Mark(p)
  BY <1>1 DEF AppendEntry, Turn, Mark, AppendEnd, diskVars
<1>2. CASE Reconcile(p) \/ SyncEntry(p)
  BY <1>2 DEF Reconcile, SyncEntry
<1>3. CASE WorkerStep(p) /\ ~(AppendEntry(p) \/ Turn(p) \/ Mark(p) \/ Reconcile(p) \/ SyncEntry(p))
  BY <1>3 DEF WorkerStep, Open, Prepare, Advance, Decide, Capture, Record, ArmGate,
         Compacted, Verify, BeginTurn, Complete, Pause, GateLost, diskVars
<1>4. CASE CommandStep(p)
  BY <1>4 DEF CommandStep, ConsumeManifest, ClaimRepair, Prove, ProveAgain, Abort, ClaimIntent, Stage,
         ReleaseIntent, Publish, GiveBack, Leave, diskVars
<1>5. CASE Claim(p) \/ Acquire(p) \/ LoseApp(p) \/ Drain(p) \/ Crash(p)
  BY <1>5 DEF Claim, Acquire, LoseApp, Drain, Crash, diskVars
<1> QED
  BY <1>1, <1>2, <1>3, <1>4, <1>5

\* Whatever step is taken, the cuts stay in order and below the open record.
LEMMA CutsKeep ==
  ASSUME LedgerInv, [Next]_vars
  PROVE  Cuts'
<1>0. Len(file) \in Nat /\ synced \in 0..Len(file) /\ file \in Seq(Entry)
  BY EntriesTyped DEF LedgerInv, AbortInv
<1>1. ASSUME NEW p \in Process,
             \/ WorkerStep(p) \/ CommandStep(p) \/ Claim(p)
             \/ Acquire(p) \/ LoseApp(p) \/ Drain(p) \/ Crash(p)
      PROVE  Cuts'
  <2>1. CASE \/ Record(p) \/ Transition(p)
             \/ Abort(p) /\ record' # record
    BY <2>1, CutsRewrite
  <2>2. CASE ~(\/ Record(p) \/ Transition(p)
               \/ Abort(p) /\ record' # record)
    <3>1. UNCHANGED <<record, current>>
      <4>1. CASE Abort(p)
        BY <2>2, <4>1 DEF Abort, historyVars
      <4>2. CASE ~Abort(p)
        BY <1>1, <2>2, <4>2, OthersWriteNothing DEF LedgerInv, AbortInv
      <4> QED
        BY <4>1, <4>2
    <3>2. CASE file' = file
      <4>1. synced' \in {synced, Len(file)}
        BY <1>1, <3>2, SyncShape DEF LedgerInv, AbortInv
      <4> QED
        BY <1>0, <3>1, <3>2, <4>1, CutsShorten
    <3>3. CASE file' # file
      <4>1. /\ <<"compaction", seen[p].id>> \in Entry /\ <<"turn", ev[p]>> \in Entry
            /\ <<"marker", ev[p]>> \in Entry
        BY DEF LedgerInv, AbortInv, TypeOK, Entry, CheckpointRecord
      <4>2. CASE AppendEntry(p) /\ pc[p] = "append" /\ synced' = synced
                 /\ file' = Append(file, <<"compaction", seen[p].id>>)
        <5>1. /\ OpenRecord /\ seen[p].id = record.id /\ ~InFile(record.id)
          BY <4>2 DEF Holds, OpenRecord, LedgerInv, LedgerBarrier, Appenders,
                      AbortInv, CheckpointBarrier, HeldApart
        <5> QED
          BY <3>1, <4>1, <4>2, <5>1, CutsAppend
      <4>3. CASE file' = Append(file, <<"turn", ev[p]>>) /\ synced' = synced
        BY <3>1, <4>1, <4>3, CutsAppend
      <4>4. CASE file' = Append(file, <<"marker", ev[p]>>) /\ synced' = Len(file')
        <5>1. Len(file') = Len(file) + 1
          BY <4>1, <4>4, AppendFacts DEF LedgerInv, AbortInv
        <5> QED
          BY <3>1, <4>1, <4>4, <5>1, CutsAppend
      <4> QED
        BY <1>1, <3>3, <4>2, <4>3, <4>4, FileShape DEF LedgerInv, AbortInv
    <3> QED
      BY <3>2, <3>3
  <2> QED
    BY <2>1, <2>2
<1>2. CASE ExpireApp \/ ExpireLease \/ UNCHANGED vars
  BY <1>0, <1>2, ExpiryLeaves, CutsShorten
<1>3. CASE HostCrash
  <2>1. PICK n \in synced..Len(file) : file' = SubSeq(file, 1, n) /\ synced' = n
    BY <1>3 DEF HostCrash
  <2>2. Len(file') = n /\ \A i \in 1..n : file'[i] = file[i]
    BY <1>0, <2>1
  <2>3. UNCHANGED <<record, current>>
    BY <1>3 DEF HostCrash, historyVars
  <2> QED
    BY <1>0, <2>1, <2>2, <2>3, CutsShorten
<1> QED
  BY <1>1, <1>2, <1>3 DEF Next

-----------------------------------------------------------------------------
(* One turn at a time *)

\* The parts of the state that Turning speaks of.
LEMMA TurnTyped ==
  ASSUME TypeOK
  PROVE  /\ cursor \in Nat /\ turnEvent \in Nat /\ leaseEvent \in Nat /\ leaseLive \in BOOLEAN
         /\ ev \in [Process -> 0..MaxSeq] /\ pc \in [Process -> Step]
         /\ told \in [Event -> -1..MaxCheckpoints] /\ Event \subseteq Nat \ {0}
         /\ \A p \in Process : ev[p] \in Nat /\ (ev[p] # 0 => ev[p] \in Event)
BY StoreAssumption DEF TypeOK, StoreTypeOK, Event

\* A step that begins, runs, marks and completes nothing.
LEMMA TurningQuiet ==
  ASSUME LedgerInv, UNCHANGED <<turnEvent, cursor, told, due>>,
         turnEvent # 0 => ~OpenRecord',
         leaseLive' => leaseEvent' = cursor + 1,
         \A e \in Event : Marked(e)' => Marked(e),
         \A q \in Process : Begun(q)' => pc'[q] = pc[q] /\ ev'[q] = ev[q]
  PROVE  Turning'
<1>0. \A p \in Process : ev[p] # 0 => ev[p] \in Event
  BY TurnTyped DEF LedgerInv, AbortInv
<1>1. ASSUME NEW p \in Process, Begun(p)'
      PROVE  /\ turnEvent = ev'[p] /\ ev'[p] # 0 /\ ~Marked(ev[p])'
             /\ \A q \in Process : Begun(q)' => q = p
             /\ pc'[p] = "turn" => told[ev'[p]] = -1
  <2>1. \A q \in Process : Begun(q)' => Begun(q) /\ pc'[q] = pc[q] /\ ev'[q] = ev[q]
    BY DEF Begun
  <2>2. /\ turnEvent = ev[p] /\ ev[p] # 0 /\ ~Marked(ev[p])
        /\ \A q \in Process : Begun(q) => q = p
        /\ pc[p] = "turn" => told[ev[p]] = -1
    BY <1>1, <2>1 DEF LedgerInv, LedgerBarrier, Turning
  <2>3. ~Marked(ev[p])'
    BY <1>0, <1>1, <2>1, <2>2 DEF Marked
  <2> QED
    BY <1>1, <2>1, <2>2, <2>3
<1> QED
  BY <1>1 DEF LedgerInv, LedgerBarrier, Turning

\* An entry that is no marker marks nothing.
LEMMA MarkedAppend ==
  ASSUME TypeOK, NEW x \in Entry, file' = Append(file, x), NEW e \in Event
  PROVE  Marked(e)' <=> Marked(e) \/ x = <<"marker", e>>
<1>1. /\ file'[Len(file) + 1] = x
      /\ \A i \in 1..Len(file) : file'[i] = file[i]
      /\ 1..Len(file') = 1..Len(file) \cup {Len(file) + 1}
  BY AppendFacts
<1> QED
  BY <1>1 DEF Marked

\* A turn begins for the next event, with nothing of it in the history yet.
LEMMA BeginTurnKeeps ==
  ASSUME LedgerInv, NEW p \in Process, BeginTurn(p)
  PROVE  Turning'
<1>0. /\ cursor \in Nat /\ turnEvent \in Nat /\ pc \in [Process -> Step]
      /\ \A q \in Process : ev[q] \in Nat /\ (ev[q] # 0 => ev[q] \in Event)
  BY TurnTyped DEF LedgerInv, AbortInv
<1>1. /\ Work(ep[p], ce[p], ev[p]) /\ turnEvent = 0 /\ turnEvent' = ev[p] /\ pc[p] = "begin"
      /\ pc' = [pc EXCEPT ![p] = "turn"]
      /\ UNCHANGED <<cursor, leaseLive, leaseEvent, record, file, told, due, ev>>
  BY DEF BeginTurn, BeginTurnMark, Goto, leaseVars, diskVars, procVars, historyVars
<1>2. Newest(p)
  BY <1>1, WorkIsNewest DEF LedgerInv
<1>3. /\ leaseLive /\ leaseEvent = cursor + 1 /\ ev[p] = cursor + 1 /\ ~OpenRecord
  BY <1>1, <1>2 DEF Work, LedgerInv, LedgerBarrier, Turning, NewestReads
<1>4. \A e \in Event : told[e] # -1 \/ Marked(e) => e <= cursor
  BY <1>0, <1>1, TurnTyped DEF LedgerInv, AbortInv, LedgerBarrier, Turning
<1>5. ev[p] \in Event /\ told[ev[p]] = -1 /\ ~Marked(ev[p])
  BY <1>0, <1>3, <1>4
<1>6. \A q \in Process : ~Begun(q)
  BY <1>0, <1>1 DEF LedgerInv, LedgerBarrier, Turning
<1>7. \A q \in Process : Begun(q)' => q = p
  BY <1>0, <1>1, <1>6 DEF Begun
<1>8. \A e \in Event : told'[e] # -1 \/ Marked(e)' => e <= cursor'
  BY <1>1, <1>4 DEF Marked
<1>9. ~Marked(ev[p])'
  BY <1>1, <1>5 DEF Marked
<1> QED
  BY <1>0, <1>1, <1>3, <1>5, <1>7, <1>8, <1>9 DEF Turning, OpenRecord

\* A turn runs once, and its worker goes on to the marker, or fails.
LEMMA TurnKeeps ==
  ASSUME LedgerInv, NEW p \in Process, Turn(p)
  PROVE  /\ Turning'
         /\ ev[p] = cursor + 1 /\ ev[p] \in Event /\ told[ev[p]] = -1 /\ turnEvent # 0
<1>0. /\ cursor \in Nat /\ turnEvent \in Nat /\ pc \in [Process -> Step]
      /\ told \in [Event -> -1..MaxCheckpoints]
      /\ \A q \in Process : ev[q] \in Nat /\ (ev[q] # 0 => ev[q] \in Event)
  BY TurnTyped DEF LedgerInv, AbortInv
<1>1. /\ pc[p] = "turn" /\ told' = [told EXCEPT ![ev[p]] = Context(loaded[p])]
      /\ file' = Append(file, <<"turn", ev[p]>>)
      /\ pc' = [pc EXCEPT ![p] = "mark"] \/ pc' = [pc EXCEPT ![p] = "catch"]
      /\ UNCHANGED <<cursor, turnEvent, leaseLive, leaseEvent, record, ev>>
  BY DEF Turn, AppendEnd, Goto, Throw, storeVars, leaseVars, stateVars, procVars
<1>2. /\ turnEvent = ev[p] /\ ev[p] # 0 /\ ~Marked(ev[p]) /\ told[ev[p]] = -1
      /\ \A q \in Process : Begun(q) => q = p
      /\ turnEvent = cursor + 1 /\ ~OpenRecord
  BY <1>1 DEF Begun, LedgerInv, LedgerBarrier, Turning
<1>3. \A e \in Event : Marked(e)' <=> Marked(e)
  <2>1. <<"turn", ev[p]>> \in Entry
    BY DEF LedgerInv, AbortInv, TypeOK, Entry
  <2> QED
    BY <1>1, <2>1, MarkedAppend DEF LedgerInv, AbortInv
<1>4. /\ \A q \in Process : Begun(q)' => q = p
      /\ pc'[p] # "turn"
  BY <1>0, <1>1, <1>2 DEF Begun
<1>5. \A e \in Event : told'[e] # -1 => told[e] # -1 \/ e = turnEvent
  BY <1>0, <1>1, <1>2
<1>6. \A e \in Event : told'[e] # -1 \/ Marked(e)' => e <= cursor \/ e = turnEvent
  BY <1>3, <1>5 DEF LedgerInv, LedgerBarrier, Turning
<1>7. ~Marked(ev[p])'
  BY <1>0, <1>1, <1>2, <1>3 DEF Marked
<1>8. leaseLive' => leaseEvent' = cursor' + 1
  BY <1>1 DEF LedgerInv, LedgerBarrier, Turning
<1> QED
  BY <1>0, <1>1, <1>2, <1>4, <1>6, <1>7, <1>8 DEF Turning, OpenRecord

\* The event of the marker is the one whose turn is begun.
LEMMA MarkKeeps ==
  ASSUME LedgerInv, NEW p \in Process, Mark(p)
  PROVE  Turning'
<1>0. /\ cursor \in Nat /\ turnEvent \in Nat /\ pc \in [Process -> Step]
      /\ \A q \in Process : ev[q] \in Nat /\ (ev[q] # 0 => ev[q] \in Event)
  BY TurnTyped DEF LedgerInv, AbortInv
<1>1. /\ pc[p] = "mark" /\ pc' = [pc EXCEPT ![p] = "complete"]
      /\ file' = Append(file, <<"marker", ev[p]>>)
      /\ UNCHANGED <<cursor, turnEvent, leaseLive, leaseEvent, record, ev, told, due>>
  BY DEF Mark, AppendEnd, Goto, storeVars, leaseVars, stateVars, procVars, historyVars
<1>2. /\ turnEvent = ev[p] /\ ev[p] # 0
      /\ \A q \in Process : Begun(q) => q = p
  BY <1>1 DEF Begun, LedgerInv, LedgerBarrier, Turning
<1>3. \A e \in Event : Marked(e)' => Marked(e) \/ e = turnEvent
  <2>1. <<"marker", ev[p]>> \in Entry
    BY DEF LedgerInv, AbortInv, TypeOK, Entry
  <2> QED
    BY <1>1, <1>2, <2>1, MarkedAppend DEF LedgerInv, AbortInv
<1>4. \A q \in Process : ~Begun(q)'
  BY <1>0, <1>1, <1>2 DEF Begun
<1>5. \A e \in Event : told'[e] # -1 \/ Marked(e)' => e <= cursor \/ e = turnEvent
  BY <1>1, <1>3 DEF LedgerInv, LedgerBarrier, Turning
<1>6. /\ leaseLive' => leaseEvent' = cursor' + 1
      /\ turnEvent' # 0 => turnEvent' = cursor' + 1 /\ ~OpenRecord'
  BY <1>1 DEF LedgerInv, LedgerBarrier, Turning, OpenRecord
<1> QED
  BY <1>1, <1>4, <1>5, <1>6 DEF Turning

\* The completed event is the one after the cursor, and its turn is not pending.
LEMMA CompleteKeeps ==
  ASSUME LedgerInv, NEW p \in Process, Complete(p)
  PROVE  Turning'
<1>0. /\ cursor \in Nat /\ turnEvent \in Nat /\ pc \in [Process -> Step]
      /\ Event \subseteq Nat \ {0}
      /\ \A q \in Process : ev[q] \in Nat /\ (ev[q] # 0 => ev[q] \in Event)
  BY TurnTyped DEF LedgerInv, AbortInv
<1>1. /\ pc[p] = "complete" /\ pc' = [pc EXCEPT ![p] = "idle"] /\ Marked(ev[p])
      /\ ev[p] = cursor + 1 /\ cursor' = ev[p] /\ ~leaseLive' /\ turnEvent' = 0
      /\ UNCHANGED <<record, file, told, due>>
  BY DEF Complete, CompleteEvent, MayComplete, Stop, diskVars, historyVars
<1>2. \A q \in Process : ~Begun(q)
  <2> SUFFICES ASSUME NEW q \in Process, Begun(q) PROVE FALSE
    OBVIOUS
  <2>1. turnEvent = ev[q] /\ ev[q] # 0 /\ ~Marked(ev[q]) /\ turnEvent = cursor + 1
    BY DEF LedgerInv, LedgerBarrier, Turning
  <2> QED
    BY <1>1, <2>1
<1>3. \A q \in Process : ~Begun(q)'
  BY <1>0, <1>1, <1>2 DEF Begun
<1>4. \A e \in Event : told[e] # -1 \/ Marked(e) => e <= cursor'
  <2>1. \A e \in Event : told[e] # -1 \/ Marked(e) => e <= cursor \/ e = turnEvent
    BY DEF LedgerInv, LedgerBarrier, Turning
  <2>2. turnEvent = 0 \/ turnEvent = cursor + 1
    BY DEF LedgerInv, LedgerBarrier, Turning
  <2> QED
    BY <1>0, <1>1, <2>1, <2>2
<1>5. \A e \in Event : told'[e] # -1 \/ Marked(e)' => e <= cursor'
  BY <1>1, <1>4 DEF Marked
<1> QED
  BY <1>1, <1>3, <1>5 DEF Turning

\* Every other step leaves the turn, the cursor and the told contexts alone.
LEMMA TurnsUntouched ==
  ASSUME TypeOK, NEW p \in Process,
         \/ WorkerStep(p) \/ CommandStep(p) \/ Claim(p)
         \/ Acquire(p) \/ LoseApp(p) \/ Drain(p) \/ Crash(p),
         ~(BeginTurn(p) \/ Turn(p) \/ Mark(p) \/ Complete(p))
  PROVE  /\ UNCHANGED <<turnEvent, cursor, told, due>>
         /\ pc'[p] \notin {"turn", "mark"}
            \/ (LoseApp(p) /\ UNCHANGED <<pc, ev>>)
<1>0. pc \in [Process -> Step]
  BY DEF TypeOK
<1> USE DEF storeVars, leaseVars, stateVars, historyVars, Goto, Throw, Stop
<1>1. CASE Open(p) \/ Prepare(p) \/ Reconcile(p) \/ Advance(p) \/ Decide(p) \/ Capture(p)
  BY <1>0, <1>1 DEF Open, Bind, Prepare, Reconcile, Require, Advance, Decide, Capture
<1>2. CASE Record(p) \/ ArmGate(p) \/ AppendEntry(p) \/ SyncEntry(p) \/ Compacted(p) \/ Verify(p)
  BY <1>0, <1>2 DEF Record, ArmGate, AppendEntry, SyncEntry, Compacted, Verify
<1>3. CASE Pause(p) \/ GateLost(p)
  BY <1>0, <1>3 DEF Pause, SetPause, GateLost
<1>4. CASE ConsumeManifest(p) \/ ClaimRepair(p) \/ Prove(p) \/ ProveAgain(p) \/ Abort(p)
  BY <1>0, <1>4 DEF ConsumeManifest, ClaimRepair, Prove, ProveAgain, Abort
<1>5. CASE \/ ClaimIntent(p) \/ Stage(p) \/ ReleaseIntent(p) \/ Publish(p)
           \/ GiveBack(p) \/ Leave(p)
  BY <1>0, <1>5 DEF ClaimIntent, Stage, ReleaseIntent, Publish, GiveBack, Leave, AppRelease
<1>6. CASE Claim(p) \/ Acquire(p) \/ Drain(p) \/ Crash(p)
  <2>1. CASE Claim(p)
    BY <1>0, <2>1 DEF Claim, ClaimGrant
  <2>2. CASE Acquire(p)
    <3>1. UNCHANGED <<turnEvent, cursor, told, due>> /\ pc[p] = "idle"
      BY <2>2 DEF Acquire, AppAcquire
    <3>2. pc' = pc \/ pc' = [pc EXCEPT ![p] = "consume"] \/ pc' = [pc EXCEPT ![p] = "intend"]
      BY <2>2 DEF Acquire
    <3> QED
      BY <1>0, <3>1, <3>2
  <2>3. CASE Drain(p) \/ Crash(p)
    BY <1>0, <2>3 DEF Drain, AppRelease, Crash
  <2> QED
    BY <1>6, <2>1, <2>2, <2>3
<1>7. CASE LoseApp(p)
  BY <1>7 DEF LoseApp
<1> QED
  BY <1>1, <1>2, <1>3, <1>4, <1>5, <1>6, <1>7 DEF WorkerStep, CommandStep

\* Another process's event is its own, and so is its session manager.
LEMMA OthersEvents ==
  ASSUME TypeOK, NEW p \in Process, NEW q \in Process, q # p,
         \/ WorkerStep(p) \/ CommandStep(p)
         \/ Acquire(p) \/ Claim(p) \/ LoseApp(p) \/ Drain(p) \/ Crash(p)
  PROVE  ev'[q] = ev[q] /\ loaded'[q] = loaded[q]
<1>0. ev \in [Process -> 0..MaxSeq] /\ loaded \in [Process -> SUBSET (1..Len(file))]
  BY DEF TypeOK, TreeTypeOK
<1> USE DEF Stop, procVars
<1>1. CASE \/ Open(p) \/ Prepare(p) \/ Reconcile(p) \/ Advance(p) \/ Decide(p) \/ Capture(p)
           \/ Record(p) \/ ArmGate(p) \/ AppendEntry(p) \/ SyncEntry(p) \/ Compacted(p) \/ Verify(p)
           \/ BeginTurn(p) \/ Turn(p) \/ Mark(p)
  BY <1>0, <1>1 DEF Open, Prepare, Reconcile, Advance, Decide, Capture, Record, ArmGate, AppendEntry,
              AppendEnd, SyncEntry, Compacted, Verify, BeginTurn, Turn, Mark
<1>2. CASE Complete(p) \/ Pause(p) \/ GateLost(p) \/ Leave(p) \/ Drain(p) \/ Crash(p)
  BY <1>0, <1>2 DEF Complete, Pause, GateLost, Leave, Drain, Crash
<1>3. CASE ClaimRepair(p) \/ ClaimIntent(p) \/ Claim(p)
  BY <1>0, <1>3 DEF ClaimRepair, ClaimIntent, RepairGrant, Claim
<1>4. CASE \/ ConsumeManifest(p) \/ Prove(p) \/ ProveAgain(p) \/ Abort(p) \/ Stage(p)
           \/ ReleaseIntent(p) \/ Publish(p) \/ GiveBack(p) \/ Acquire(p) \/ LoseApp(p)
  BY <1>4 DEF ConsumeManifest, Prove, ProveAgain, Abort, Stage, ReleaseIntent, Publish,
              GiveBack, Acquire, LoseApp
<1> QED
  BY <1>1, <1>2, <1>3, <1>4 DEF WorkerStep, CommandStep

\* A live chat lease was granted for the event it names, or is being given up.
LEMMA LeaseShape ==
  ASSUME TypeOK, NEW p \in Process,
         \/ WorkerStep(p) \/ CommandStep(p)
         \/ Acquire(p) \/ LoseApp(p) \/ Drain(p) \/ Crash(p),
         ~(ClaimRepair(p) /\ RepairGrant(p)), ~(ClaimIntent(p) /\ RepairGrant(p))
  PROVE  leaseLive' => leaseLive /\ leaseEvent' = leaseEvent
<1> USE DEF storeVars, leaseVars, stateVars
<1>1. CASE \/ Open(p) \/ Prepare(p) \/ Reconcile(p) \/ Advance(p) \/ Decide(p) \/ Capture(p)
  BY <1>1 DEF Open, Bind, Prepare, Reconcile, Advance, Decide, Capture
<1>2. CASE Record(p) \/ ArmGate(p) \/ AppendEntry(p) \/ SyncEntry(p) \/ Compacted(p) \/ Verify(p)
  BY <1>2 DEF Record, ArmGate, AppendEntry, SyncEntry, Compacted, Verify
<1>3. CASE BeginTurn(p) \/ Turn(p) \/ Mark(p) \/ Complete(p) \/ Pause(p) \/ GateLost(p)
  BY <1>3 DEF BeginTurn, BeginTurnMark, Turn, Mark, Complete, CompleteEvent, Pause, SetPause, GateLost
<1>4. CASE ConsumeManifest(p) \/ ClaimRepair(p) \/ Prove(p) \/ ProveAgain(p) \/ Abort(p)
  BY <1>4 DEF ConsumeManifest, ClaimRepair, Prove, ProveAgain, Abort, FreeLease
<1>5. CASE \/ ClaimIntent(p) \/ Stage(p) \/ ReleaseIntent(p) \/ Publish(p)
           \/ GiveBack(p) \/ Leave(p)
  BY <1>5 DEF ClaimIntent, Stage, ReleaseIntent, Publish, GiveBack, FreeLease, Leave, AppRelease
<1>6. CASE Acquire(p) \/ LoseApp(p) \/ Drain(p) \/ Crash(p)
  BY <1>6 DEF Acquire, AppAcquire, LoseApp, Drain, AppRelease, Crash
<1> QED
  BY <1>1, <1>2, <1>3, <1>4, <1>5, <1>6 DEF WorkerStep, CommandStep

\* While a turn is marked no record is opened.
LEMMA NothingOpens ==
  ASSUME LedgerInv, turnEvent # 0, NEW p \in Process,
         \/ WorkerStep(p) \/ CommandStep(p) \/ Claim(p)
         \/ Acquire(p) \/ LoseApp(p) \/ Drain(p) \/ Crash(p)
  PROVE  ~OpenRecord'
<1>1. ~OpenRecord
  BY DEF LedgerInv, LedgerBarrier, Turning
<1>2. ~Transition(p)
  BY <1>1, TransitionShape
<1>3. ~Record(p)
  BY RecordMade DEF LedgerInv, LedgerBarrier, NewestReads, CommandSteps
<1>4. CASE Abort(p)
  BY <1>1, <1>4, AbortShape DEF OpenRecord
<1>5. CASE ~Abort(p)
  BY <1>1, <1>2, <1>3, <1>5, OthersWriteNothing DEF OpenRecord, LedgerInv, AbortInv
<1> QED
  BY <1>4, <1>5

\* Whatever step is taken, at most one turn is begun, for the event after the cursor.
LEMMA TurningKeep ==
  ASSUME LedgerInv, [Next]_vars
  PROVE  Turning'
<1>0. /\ ev \in [Process -> 0..MaxSeq] /\ pc \in [Process -> Step]
      /\ TypeOK /\ Event \subseteq Nat \ {0}
  BY TurnTyped DEF LedgerInv, AbortInv, TypeOK
<1>1. ASSUME NEW p \in Process,
             \/ WorkerStep(p) \/ CommandStep(p) \/ Claim(p)
             \/ Acquire(p) \/ LoseApp(p) \/ Drain(p) \/ Crash(p),
             ~(BeginTurn(p) \/ Turn(p) \/ Mark(p) \/ Complete(p))
      PROVE  Turning'
  <2>1. /\ UNCHANGED <<turnEvent, cursor, told, due>>
        /\ pc'[p] \notin {"turn", "mark"} \/ UNCHANGED <<pc, ev>>
    BY <1>0, <1>1, TurnsUntouched
  <2>2. turnEvent # 0 => ~OpenRecord'
    BY <1>1, NothingOpens
  <2>3. leaseLive' => leaseEvent' = cursor + 1
    <3>1. CASE Claim(p) \/ (ClaimRepair(p) /\ RepairGrant(p)) \/ (ClaimIntent(p) /\ RepairGrant(p))
      BY <1>0, <3>1, GrantLeaves
    <3>2. CASE ~(Claim(p) \/ (ClaimRepair(p) /\ RepairGrant(p)) \/ (ClaimIntent(p) /\ RepairGrant(p)))
      BY <1>0, <1>1, <3>2, LeaseShape DEF LedgerInv, LedgerBarrier, Turning
    <3> QED
      BY <3>1, <3>2
  <2>4. \A e \in Event : Marked(e)' => Marked(e)
    <3>1. CASE file' = file
      BY <3>1 DEF Marked
    <3>2. CASE file' # file
      <4>1. file' = Append(file, <<"compaction", seen[p].id>>)
        BY <1>0, <1>1, <3>2, FileShape
      <4>2. <<"compaction", seen[p].id>> \in Entry
        BY DEF LedgerInv, AbortInv, TypeOK, Entry, CheckpointRecord
      <4> QED
        BY <1>0, <4>1, <4>2, MarkedAppend
    <3> QED
      BY <3>1, <3>2
  <2>5. ASSUME NEW q \in Process, Begun(q)'
        PROVE  pc'[q] = pc[q] /\ ev'[q] = ev[q]
    <3>1. CASE q = p
      BY <2>1, <2>5, <3>1 DEF Begun
    <3>2. CASE q # p
      BY <1>0, <1>1, <3>2, OthersStay, OthersEvents
    <3> QED
      BY <3>1, <3>2
  <2> QED
    BY <2>1, <2>2, <2>3, <2>4, <2>5, TurningQuiet
<1>2. CASE ExpireApp \/ ExpireLease \/ UNCHANGED vars
  <2>1. /\ UNCHANGED <<record, file, turnEvent, cursor, told, due, pc, ev, leaseEvent>>
        /\ leaseLive' => leaseLive
    BY <1>2, ExpiryLeaves
  <2>2. \A e \in Event : Marked(e)' => Marked(e)
    BY <2>1 DEF Marked
  <2> QED
    BY <2>1, <2>2, TurningQuiet DEF LedgerInv, LedgerBarrier, Turning, OpenRecord
<1>3. CASE HostCrash
  <2>1. PICK n \in synced..Len(file) : file' = SubSeq(file, 1, n)
    BY <1>3 DEF HostCrash
  <2>2. /\ Len(file') = n /\ \A i \in 1..n : file'[i] = file[i]
        /\ \A i \in 1..n : i \in 1..Len(file)
    <3>1. file \in Seq(Entry) /\ synced \in 0..Len(file) /\ Len(file) \in Nat
      BY <1>0, EntriesTyped
    <3> QED
      BY <2>1, <3>1
  <2>3. \A e \in Event : Marked(e)' => Marked(e)
    BY <2>2 DEF Marked
  <2>4. /\ UNCHANGED <<turnEvent, cursor, told, due, leaseLive, leaseEvent, record>>
        /\ \A q \in Process : ~Begun(q)'
    BY <1>3 DEF HostCrash, Begun, storeVars, leaseVars, stateVars, historyVars
  <2> QED
    BY <2>3, <2>4, TurningQuiet DEF LedgerInv, LedgerBarrier, Turning, OpenRecord
<1> QED
  BY <1>1, <1>2, <1>3, BeginTurnKeeps, TurnKeeps, MarkKeeps, CompleteKeeps DEF Next

-----------------------------------------------------------------------------
(* The branches of the session file *)

\* With no checkpoint half made, what a branch shows is the latest checkpoint on
\* it, and none later than the one restored last.
LEMMA ContextOnBranch ==
  ASSUME LedgerInv, ~OpenRecord, NEW b \in SUBSET (1..Len(file))
  PROVE  /\ Context(b) \in 0..current
         /\ Context(b) # 0 => On(b, Context(b))
         /\ \A c \in 0..MaxCheckpoints : On(b, c) => c <= Context(b)
<1> DEFINE cuts == CutsOf(b)
<1>0. /\ Len(file) \in Nat /\ current \in 0..MaxCheckpoints
      /\ \A i \in 1..Len(file) : file[i] \in Entry
      /\ MaxCheckpoints \in Nat
      /\ cuts \in SUBSET (1..Len(file)) /\ cuts \subseteq b
  BY EntriesTyped, CheckpointAssumption DEF LedgerInv, AbortInv, TypeOK, CutsOf
<1>1. \A c : On(b, c) => \E i \in cuts : file[i][2] = c
  BY DEF On, CutsOf
<1>2. CASE cuts = {}
  BY <1>0, <1>1, <1>2 DEF Context
<1>3. CASE cuts # {}
  <2>1. \E i \in cuts : \A j \in cuts : j <= i
    <3> HIDE DEF cuts
    <3> QED
      BY <1>0, <1>3, LastPosition
  <2>2. PICK i \in cuts : Context(b) = file[i][2] /\ \A j \in cuts : j <= i
    BY <1>3, <2>1 DEF Context
  <2>3. /\ i \in 1..Len(file) /\ file[i] = <<"compaction", file[i][2]>>
        /\ file[i][2] \in 0..MaxCheckpoints /\ file[i][2] <= current
    BY <1>0, <2>2 DEF CutsOf, Entry, LedgerInv, LedgerBarrier, Cuts, IsCut
  <2>4. \A j \in cuts : file[j][2] <= file[i][2]
    <3> SUFFICES ASSUME NEW j \in cuts, j # i PROVE file[j][2] <= file[i][2]
      BY <2>3
    <3>1. j < i /\ j \in 1..Len(file) /\ IsCut(i) /\ IsCut(j)
      BY <1>0, <2>2, <2>3 DEF CutsOf, IsCut
    <3>2. file[j][2] < file[i][2]
      BY <2>3, <3>1 DEF LedgerInv, LedgerBarrier, Cuts
    <3>3. file[j][2] \in Int
      BY <3>1, EntriesTyped DEF LedgerInv, AbortInv
    <3> QED
      BY <2>3, <3>2, <3>3
  <2>5. On(b, file[i][2])
    BY <1>0, <2>3 DEF On
  <2> QED
    BY <1>0, <1>1, <2>2, <2>3, <2>4, <2>5
<1> QED
  BY <1>2, <1>3

\* Where a checkpoint was restored there is an entry on disk; where a turn was told
\* of one, one was restored.
LEMMA Rooting ==
  ASSUME LedgerInv
  PROVE  /\ Len(file) \in Nat /\ synced \in 0..Len(file) /\ Len(branch) = Len(file)
         /\ \A i \in 1..Len(file) : branch[i] \in SUBSET (1..i) /\ branch[i] \in SUBSET (1..Len(file))
         /\ \A p \in Process : loaded[p] \in SUBSET (1..Len(file))
         /\ current \in 0..MaxCheckpoints /\ MaxCheckpoints \in Nat
         /\ \A d \in Event : told[d] \in -1..MaxCheckpoints /\ due[d] \in -1..MaxCheckpoints
         /\ current # 0 => synced \in 1..Len(file)
         /\ \A d \in Event : told[d] > 0 => current # 0 /\ told[d] \in 0..MaxCheckpoints
<1>1. /\ Len(file) \in Nat /\ synced \in 0..Len(file) /\ Len(branch) = Len(file)
      /\ \A i \in 1..Len(file) : branch[i] \in SUBSET (1..i)
      /\ \A p \in Process : loaded[p] \in SUBSET (1..Len(file))
      /\ current \in 0..MaxCheckpoints /\ MaxCheckpoints \in Nat
      /\ \A d \in Event : told[d] \in -1..MaxCheckpoints /\ due[d] \in -1..MaxCheckpoints
  BY EntriesTyped, CheckpointAssumption DEF LedgerInv, AbortInv, TypeOK, TreeTypeOK
<1>2. \A i \in 1..Len(file) : 1..i \subseteq 1..Len(file)
  BY <1>1
<1>3. current # 0 => synced \in 1..Len(file)
  BY <1>1 DEF LedgerInv, LedgerBarrier, Cuts, OnDisk
<1>4. \A d \in Event : told[d] <= current
  BY DEF LedgerInv, LedgerBarrier, Branches, Anchored
<1> QED
  BY <1>1, <1>2, <1>3, <1>4

\* What a turn finds: everything before it was told what had been restored, and is
\* on the branch it runs on.
LEMMA TurnFacts ==
  ASSUME LedgerInv, NEW p \in Process, pc[p] = "turn"
  PROVE  /\ turnEvent = ev[p] /\ ev[p] = cursor + 1 /\ ev[p] \in Event /\ turnEvent # 0
         /\ told[ev[p]] = -1 /\ ~Marked(ev[p]) /\ ~OpenRecord /\ ~Behind
         /\ \A q \in Process : Begun(q) => q = p
         /\ Context(loaded[p]) \in 0..current
         /\ Context(loaded[p]) # 0 => On(loaded[p], Context(loaded[p]))
         /\ \A c \in 0..MaxCheckpoints : On(loaded[p], c) => c <= Context(loaded[p])
         /\ \A d \in Event : told[d] <= Context(loaded[p])
<1>1. /\ turnEvent = ev[p] /\ ev[p] # 0 /\ ~Marked(ev[p]) /\ told[ev[p]] = -1
      /\ \A q \in Process : Begun(q) => q = p
  BY DEF Begun, LedgerInv, LedgerBarrier, Turning
<1>2. turnEvent = cursor + 1 /\ ~OpenRecord /\ ev[p] \in Event
  BY <1>1, TurnTyped DEF LedgerInv, AbortInv, LedgerBarrier, Turning
<1>3. ~Behind
  BY <1>1 DEF LedgerInv, LedgerBarrier, Branches, Stops
<1>4. /\ Context(loaded[p]) \in 0..current
      /\ Context(loaded[p]) # 0 => On(loaded[p], Context(loaded[p]))
      /\ \A c \in 0..MaxCheckpoints : On(loaded[p], c) => c <= Context(loaded[p])
  BY <1>2, Rooting, ContextOnBranch
<1>5. ASSUME NEW d \in Event
      PROVE  told[d] <= Context(loaded[p])
  <2>1. CASE told[d] <= 0
    BY <1>4, <2>1, Rooting
  <2>2. CASE told[d] > 0
    <3>1. d <= cursor
      BY <1>1, <2>2 DEF LedgerInv, LedgerBarrier, Turning
    <3>2. On(loaded[p], told[d])
      BY <2>2, <3>1 DEF Kept, Runner, Rooted, LedgerInv, LedgerBarrier, Branches, Anchored
    <3> QED
      BY <1>4, <2>2, <3>2, Rooting
  <2> QED
    BY <2>1, <2>2, Rooting
<1> QED
  BY <1>1, <1>2, <1>3, <1>4, <1>5

\* What an append leaves of the branches, and what it makes of the last one.
LEMMA OnAppended ==
  ASSUME TypeOK, NEW x \in Entry, file' = Append(file, x)
  PROVE  \A b \in SUBSET (1..Len(file)) : \A c :
           /\ (\E i \in b : file'[i] = <<"compaction", c>>) <=> On(b, c)
           /\ (\E i \in b \cup {Len(file) + 1} : file'[i] = <<"compaction", c>>)
                <=> On(b, c) \/ x = <<"compaction", c>>
BY AppendFacts DEF On

\* A process that goes on running keeps its manager, but for what it appends; it
\* starts to run where it opens the session.
LEMMA RunningFrom ==
  ASSUME TypeOK, NEW p \in Process,
         \/ WorkerStep(p) \/ CommandStep(p)
         \/ Acquire(p) \/ LoseApp(p) \/ Drain(p) \/ Crash(p),
         pc'[p] \in Running
  PROVE  \/ pc[p] \in Running /\ loaded[p] \subseteq loaded'[p]
         \/ Open(p) /\ loaded'[p] = ActiveBranch
<1>0. pc \in [Process -> Step] /\ loaded \in [Process -> SUBSET (1..Len(file))]
  BY DEF TypeOK, TreeTypeOK
<1> USE DEF Goto, Throw, Stop, Running, procVars
<1>1. CASE Open(p)
  <2>1. pc'[p] = "prepare"
    BY <1>0, <1>1 DEF Open
  <2> QED
    BY <1>0, <1>1, <2>1 DEF Open
<1>2. CASE AppendEntry(p) \/ Turn(p) \/ Mark(p)
  <2>1. pc[p] \in {"append", "turn", "mark"}
    BY <1>2 DEF AppendEntry, Turn, Mark
  <2>2. loaded' = loaded \/ loaded' = [loaded EXCEPT ![p] = @ \cup {Len(file) + 1}]
    BY <1>2 DEF AppendEntry, Turn, Mark, AppendEnd
  <2>3. loaded[p] \subseteq loaded'[p]
    BY <1>0, <2>2
  <2> QED
    BY <2>1, <2>3
<1>3. CASE \/ Prepare(p) \/ Reconcile(p) \/ Advance(p) \/ Decide(p) \/ Capture(p) \/ Record(p)
           \/ ArmGate(p) \/ SyncEntry(p) \/ Compacted(p) \/ Verify(p) \/ BeginTurn(p)
  <2>1. pc[p] \in Running
    BY <1>3 DEF Prepare, Reconcile, Advance, Decide, Capture, Record, ArmGate, SyncEntry, Compacted,
                Verify, BeginTurn
  <2>2. loaded' = loaded
    BY <1>3 DEF Prepare, Reconcile, Advance, Decide, Capture, Record, ArmGate, SyncEntry, Compacted,
                Verify, BeginTurn
  <2> QED
    BY <2>1, <2>2
<1>4. CASE Complete(p) \/ Pause(p) \/ GateLost(p) \/ Acquire(p) \/ Drain(p) \/ Crash(p)
  <2>1. CASE Acquire(p)
    BY <1>0, <2>1 DEF Acquire
  <2>2. CASE Complete(p) \/ Pause(p) \/ GateLost(p) \/ Drain(p) \/ Crash(p)
    BY <1>0, <2>2 DEF Complete, Pause, GateLost, Drain, Crash
  <2> QED
    BY <1>4, <2>1, <2>2
<1>5. CASE CommandStep(p)
  <2>1. pc'[p] \in CommandSteps
    BY <1>0, <1>5 DEF CommandStep, ConsumeManifest, ClaimRepair, Prove, ProveAgain, Abort,
       ClaimIntent, Stage, ReleaseIntent, Publish, GiveBack, Leave, CommandSteps
  <2> QED
    BY <2>1 DEF CommandSteps
<1>6. CASE LoseApp(p)
  BY <1>6 DEF LoseApp
<1> QED
  BY <1>1, <1>2, <1>3, <1>4, <1>5, <1>6 DEF WorkerStep

\* Who runs after a step ran before it, on the same branch, or opened the session.
LEMMA RunnerFrom ==
  ASSUME LedgerInv, NEW p \in Process, NEW q \in Process, Runner(q)',
         \/ WorkerStep(p) \/ CommandStep(p) \/ Claim(p)
         \/ Acquire(p) \/ LoseApp(p) \/ Drain(p) \/ Crash(p)
  PROVE  \/ Runner(q) /\ loaded[q] \subseteq loaded'[q]
         \/ q = p /\ Open(p) /\ loaded'[p] = ActiveBranch
<1>t. TypeOK
  BY DEF LedgerInv, AbortInv
<1>0. pc'[q] \in {"armed", "append", "turn", "mark"} \/ (Newest(q)' /\ pc'[q] \in Running)
  BY DEF Runner
<1>1. CASE Claim(p) \/ (ClaimRepair(p) /\ RepairGrant(p)) \/ (ClaimIntent(p) /\ RepairGrant(p))
  <2>1. pc'[p] \in {"open", "prove", "digest"} /\ (Newest(q)' => q = p)
    BY <1>1, <1>t, GrantLeaves, NewestGranted DEF LedgerInv
  <2>2. q # p
    BY <1>0, <2>1 DEF Running
  <2>3. pc'[q] = pc[q] /\ loaded'[q] = loaded[q]
    BY <1>t, <2>2, OthersStay, OthersEvents
  <2> QED
    BY <1>0, <2>1, <2>2, <2>3 DEF Runner
<1>2. CASE ~(Claim(p) \/ (ClaimRepair(p) /\ RepairGrant(p)) \/ (ClaimIntent(p) /\ RepairGrant(p)))
  <2>1. Newest(q)' => Newest(q)
    BY <1>2, NewestStays DEF LedgerInv
  <2>2. CASE q # p
    <3>1. pc'[q] = pc[q] /\ loaded'[q] = loaded[q]
      BY <1>t, <2>2, OthersStay, OthersEvents
    <3> QED
      BY <1>0, <2>1, <3>1 DEF Runner
  <2>3. CASE q = p
    <3>1. pc'[p] \in Running
      BY <1>0, <2>3 DEF Running
    <3>2. CASE Open(p) /\ loaded'[p] = ActiveBranch
      BY <2>3, <3>2
    <3>3. CASE pc[p] \in Running /\ loaded[p] \subseteq loaded'[p]
      <4>1. CASE Newest(p)
        BY <2>3, <3>3, <4>1 DEF Runner
      <4>2. CASE ~Newest(p)
        <5>1. pc'[p] \in {"armed", "append", "turn", "mark"}
          BY <1>0, <2>1, <2>3, <4>2
        <5>2. ~Record(p) /\ ~BeginTurn(p)
          <6>1. Record(p) \/ BeginTurn(p) => Work(ep[p], ce[p], ev[p]) /\ pc[p] \in {"record", "begin"}
            BY DEF Record, CheckpointPrepare, BeginTurn, BeginTurnMark
          <6> QED
            BY <4>2, <6>1, WorkIsNewest DEF LedgerInv
        <5>3. pc[p] \in {"armed", "append", "turn", "mark"}
          <6>1. CASE pc'[p] \in {"armed", "append"}
            BY <5>2, <6>1, PendingFrom DEF LedgerInv
          <6>2. CASE pc'[p] \in {"turn", "mark"}
            <7>1. CASE Turn(p) \/ Mark(p)
              BY <7>1 DEF Turn, Mark
            <7>2. CASE Complete(p)
              BY <1>t, <5>1, <7>2 DEF Complete, Stop, TypeOK
            <7>3. CASE ~(Turn(p) \/ Mark(p) \/ Complete(p))
              BY <1>t, <5>2, <6>2, <7>3, TurnsUntouched
            <7> QED
              BY <7>1, <7>2, <7>3
          <6> QED
            BY <5>1, <6>1, <6>2
        <5> QED
          BY <2>3, <3>3, <5>3 DEF Runner
      <4> QED
        BY <4>1, <4>2
    <3> QED
      BY <1>2, <1>t, <3>1, <3>2, <3>3, RunningFrom
  <2> QED
    BY <2>2, <2>3
<1> QED
  BY <1>1, <1>2

\* A marked turn is the one being completed, by a process on the branch it ran on.
LEMMA MarkFrom ==
  ASSUME LedgerInv, NEW p \in Process, NEW q \in Process, pc'[q] = "mark",
         \/ WorkerStep(p) \/ CommandStep(p) \/ Claim(p)
         \/ Acquire(p) \/ LoseApp(p) \/ Drain(p) \/ Crash(p)
  PROVE  \/ q = p /\ Turn(p)
         \/ pc[q] = "mark" /\ ev'[q] = ev[q] /\ loaded'[q] = loaded[q]
<1>t. TypeOK /\ pc \in [Process -> Step]
  BY DEF LedgerInv, AbortInv, TypeOK
<1>1. CASE q # p
  BY <1>1, <1>t, OthersStay, OthersEvents
<1>2. CASE q = p
  <2>1. CASE Turn(p)
    BY <1>2, <2>1
  <2>2. CASE BeginTurn(p) \/ Mark(p) \/ Complete(p)
    BY <1>2, <1>t, <2>2 DEF BeginTurn, Mark, Complete, Goto, Stop
  <2>3. CASE ~(Turn(p) \/ BeginTurn(p) \/ Mark(p) \/ Complete(p))
    <3>1. LoseApp(p) /\ UNCHANGED <<pc, ev>>
      BY <1>2, <1>t, <2>3, TurnsUntouched
    <3> QED
      BY <1>2, <3>1 DEF LoseApp
  <2> QED
    BY <2>1, <2>2, <2>3
<1> QED
  BY <1>1, <1>2

\* What an append leaves of the branches: the new entry ends the one it was made on.
LEMMA AppendedEnd ==
  ASSUME LedgerInv, NEW p \in Process, NEW x \in Entry, AppendEnd(p, x)
  PROVE  /\ Len(file) \in Nat /\ Len(file') = Len(file) + 1
         /\ \A i \in 1..Len(file') : i \in 1..Len(file) \/ i = Len(file) + 1
         /\ \A i \in 1..Len(file') : i \in branch'[i]
         /\ \A c : \A i \in 1..Len(file) :
              (\E j \in branch'[i] : file'[j] = <<"compaction", c>>) <=> On(branch[i], c)
         /\ \A c : (\E j \in branch'[Len(file) + 1] : file'[j] = <<"compaction", c>>)
                     <=> On(loaded[p], c) \/ x = <<"compaction", c>>
         /\ \A c : \A q \in Process :
              (\E j \in loaded'[q] : file'[j] = <<"compaction", c>>)
                <=> On(loaded[q], c) \/ (q = p /\ x = <<"compaction", c>>)
<1> DEFINE n == Len(file) + 1
<1>1. /\ Len(file) \in Nat /\ Len(branch) = Len(file)
      /\ \A i \in 1..Len(file) : branch[i] \in SUBSET (1..Len(file))
      /\ \A q \in Process : loaded[q] \in SUBSET (1..Len(file))
  BY Rooting
<1>2. /\ TypeOK /\ branch \in Seq(SUBSET Nat) /\ loaded \in [Process -> SUBSET (1..Len(file))]
      /\ file \in Seq(Entry)
  BY DEF LedgerInv, AbortInv, TypeOK, TreeTypeOK
<1>3. /\ file' = Append(file, x) /\ loaded' = [loaded EXCEPT ![p] = @ \cup {n}]
      /\ branch' = Append(branch, loaded'[p])
  BY DEF AppendEnd
<1>4. /\ Len(file') = n /\ \A i \in 1..Len(file') : i \in 1..Len(file) \/ i = n
  BY <1>1, <1>2, <1>3, AppendFacts
<1>5. /\ loaded'[p] = loaded[p] \cup {n}
      /\ \A q \in Process : q # p => loaded'[q] = loaded[q]
  BY <1>2, <1>3
<1>6. /\ branch'[n] = loaded[p] \cup {n}
      /\ \A i \in 1..Len(file) : branch'[i] = branch[i]
  <2>1. loaded'[p] \in SUBSET Nat
    BY <1>1, <1>5
  <2> QED
    BY <1>1, <1>2, <1>3, <1>5, <2>1, AppendProperties
<1>7. \A b \in SUBSET (1..Len(file)) : \A c :
        /\ (\E i \in b : file'[i] = <<"compaction", c>>) <=> On(b, c)
        /\ (\E i \in b \cup {n} : file'[i] = <<"compaction", c>>)
             <=> On(b, c) \/ x = <<"compaction", c>>
  BY <1>2, <1>3, OnAppended
<1>8. \A i \in 1..Len(file') : i \in branch'[i]
  BY <1>4, <1>6 DEF LedgerInv, LedgerBarrier, Branches, Ending
<1>9. \A c : \A i \in 1..Len(file) :
        (\E j \in branch'[i] : file'[j] = <<"compaction", c>>) <=> On(branch[i], c)
  BY <1>1, <1>6, <1>7
<1>10. \A c : (\E j \in branch'[n] : file'[j] = <<"compaction", c>>)
                <=> On(loaded[p], c) \/ x = <<"compaction", c>>
  BY <1>1, <1>6, <1>7
<1>11. \A c : \A q \in Process :
         (\E j \in loaded'[q] : file'[j] = <<"compaction", c>>)
           <=> On(loaded[q], c) \/ (q = p /\ x = <<"compaction", c>>)
  <2> SUFFICES ASSUME NEW c, NEW q \in Process
               PROVE  (\E j \in loaded'[q] : file'[j] = <<"compaction", c>>)
                        <=> On(loaded[q], c) \/ (q = p /\ x = <<"compaction", c>>)
    OBVIOUS
  <2>1. CASE q = p
    BY <1>1, <1>5, <1>7, <2>1
  <2>2. CASE q # p
    BY <1>1, <1>5, <1>7, <2>2
  <2> QED
    BY <2>1, <2>2
<1> QED
  BY <1>1, <1>4, <1>8, <1>9, <1>10, <1>11

\* A turn adds its entry to the branch it ran on: it goes on from the checkpoint
\* restored last, or falls behind it.
LEMMA BranchesTurn ==
  ASSUME LedgerInv, NEW p \in Process, Turn(p)
  PROVE  Branches'
<1> DEFINE n == Len(file) + 1
           c == Context(loaded[p])
           x == <<"turn", ev[p]>>
           Now(b, d) == \E j \in b : file'[j] = <<"compaction", d>>
<1>0. /\ pc[p] = "turn" /\ AppendEnd(p, x) /\ synced' = synced
      /\ told' = [told EXCEPT ![ev[p]] = c] /\ due' = [due EXCEPT ![ev[p]] = current]
      /\ UNCHANGED <<record, current, turnEvent, cursor, ev>>
  BY DEF Turn, AppendEnd, storeVars, stateVars
<1>1. /\ synced \in 0..Len(file)
      /\ current \in 0..MaxCheckpoints /\ MaxCheckpoints \in Nat
      /\ \A d \in Event : told[d] \in -1..MaxCheckpoints /\ due[d] \in -1..MaxCheckpoints
      /\ current # 0 => synced \in 1..Len(file)
      /\ \A d \in Event : told[d] > 0 => current # 0 /\ told[d] \in 0..MaxCheckpoints
  BY Rooting
<1>2. /\ turnEvent = ev[p] /\ ev[p] = cursor + 1 /\ ev[p] \in Event /\ turnEvent # 0
      /\ told[ev[p]] = -1 /\ ~Marked(ev[p]) /\ ~OpenRecord /\ ~Behind
      /\ \A q \in Process : Begun(q) => q = p
      /\ c \in 0..current /\ (c # 0 => On(loaded[p], c))
      /\ \A d \in 0..MaxCheckpoints : On(loaded[p], d) => d <= c
      /\ \A d \in Event : told[d] <= c
  BY <1>0, TurnFacts
<1>3. x \in Entry /\ TypeOK /\ cursor \in Nat /\ told \in [Event -> -1..MaxCheckpoints]
      /\ due \in [Event -> -1..MaxCheckpoints]
  <2>1. TypeOK
    BY DEF LedgerInv, AbortInv
  <2> QED
    BY <2>1, <1>2, TurnTyped DEF TypeOK, Entry, Event
<1>4. /\ Len(file) \in Nat /\ Len(file') = n
      /\ \A i \in 1..Len(file') : i \in branch'[i]
      /\ \A d : \A i \in 1..Len(file) : Now(branch'[i], d) <=> On(branch[i], d)
      /\ \A d : Now(branch'[n], d) <=> On(loaded[p], d)
      /\ \A d : \A q \in Process : Now(loaded'[q], d) <=> On(loaded[q], d)
  <2>1. \A d : x # <<"compaction", d>>
    OBVIOUS
  <2>2. /\ Len(file) \in Nat /\ Len(file') = n
        /\ \A i \in 1..Len(file') : i \in branch'[i]
        /\ \A d : \A i \in 1..Len(file) : Now(branch'[i], d) <=> On(branch[i], d)
        /\ \A d : Now(branch'[n], d) <=> On(loaded[p], d) \/ x = <<"compaction", d>>
        /\ \A d : \A q \in Process :
             Now(loaded'[q], d) <=> On(loaded[q], d) \/ (q = p /\ x = <<"compaction", d>>)
    <3> HIDE DEF c, x
    <3> QED
      BY <1>0, <1>3, AppendedEnd, Zenon
  <2> HIDE DEF x, n, Now
  <2> QED
    BY <2>1, <2>2, Zenon
<1>5. current # 0 => \A i \in synced..n : i = n \/ (i \in 1..Len(file) /\ i \in synced..Len(file))
  BY <1>1, <1>4
<1>6. \A d : current # 0 /\ On(loaded[p], d) /\ (\A i \in synced..Len(file) : On(branch[i], d))
        => \A i \in synced..n : Now(branch'[i], d)
  BY <1>4, <1>5
<1>7. \A e \in Event : Marked(e)' <=> Marked(e)
  <2>1. file' = Append(file, x) /\ \A e : x # <<"marker", e>>
    BY <1>0 DEF AppendEnd
  <2> QED
    BY <1>3, <2>1, MarkedAppend
<1>8. \A q \in Process : Runner(q)' => Runner(q)
  BY RunnerFrom, <1>0 DEF WorkerStep, Open
<1>9. \A q \in Process : pc'[q] = "mark" => q = p
  BY <1>2, MarkFrom DEF WorkerStep, Begun
<1>10. /\ told'[ev[p]] = c /\ due'[ev[p]] = current
       /\ \A d \in Event : d # ev[p] => told'[d] = told[d] /\ due'[d] = due[d]
  BY <1>0, <1>2, <1>3
<1>11. turnEvent' = ev[p] /\ turnEvent' # 0 /\ ~Marked(turnEvent)' /\ ~OpenRecord'
  BY <1>0, <1>2, <1>7 DEF OpenRecord, Marked
<1> HIDE DEF c, x
<1>12. Ending'
  BY <1>0, <1>4, <1>11 DEF LedgerInv, LedgerBarrier, Branches, Ending
<1>13. Anchored'
  <2>1. ASSUME NEW d \in Event
        PROVE  told'[d] <= current'
    BY <1>0, <1>1, <1>2, <1>10 DEF LedgerInv, LedgerBarrier, Branches, Anchored
  <2>2. ASSUME NEW d \in Event, Kept(d)'
        PROVE  Rooted(told[d])'
    <3>1. d # ev[p]
      BY <1>0, <1>2, <1>3, <1>7, <2>2 DEF Kept
    <3>2. Kept(d) /\ told'[d] = told[d]
      BY <1>0, <1>7, <1>10, <2>2, <3>1 DEF Kept
    <3>3. /\ \A i \in synced..Len(file) : On(branch[i], told[d])
          /\ \A q \in Process : Runner(q) => On(loaded[q], told[d])
          /\ current # 0
      BY <1>1, <3>2 DEF LedgerInv, LedgerBarrier, Branches, Anchored, Rooted, Kept
    <3>4. On(loaded[p], told[d])
      BY <1>0, <3>3 DEF Runner
    <3>5. \A i \in synced..n : Now(branch'[i], told[d])
      BY <1>6, <3>3, <3>4
    <3>6. \A q \in Process : Runner(q)' => Now(loaded'[q], told[d])
      BY <1>4, <1>8, <3>3
    <3>7. ASSUME NEW i \in synced'..Len(file')
          PROVE  On(branch[i], told[d])'
      <4>1. i \in synced..n
        BY <1>0, <1>4, <3>7
      <4> HIDE DEF n
      <4>2. Now(branch'[i], told[d])
        BY <3>5, <4>1
      <4> QED
        BY <3>2, <4>2 DEF On
    <3>8. ASSUME NEW q \in Process, Runner(q)'
          PROVE  On(loaded[q], told[d])'
      BY <3>2, <3>6, <3>8 DEF On
    <3> QED
      BY <3>7, <3>8 DEF Rooted
  <2>3. ASSUME NEW q \in Process, pc'[q] = "mark", told'[ev'[q]] > 0
        PROVE  On(loaded[q], told[ev[q]])'
    <3>1. q = p /\ ev' = ev
      BY <1>0, <1>9, <2>3
    <3>2. c # 0 /\ told'[ev'[q]] = c
      BY <1>2, <1>10, <2>3, <3>1
    <3>3. Now(loaded'[p], c)
      BY <1>2, <1>4, <3>2
    <3> QED
      BY <3>1, <3>2, <3>3 DEF On
  <2> QED
    BY <2>1, <2>2, <2>3 DEF Anchored
<1>14. Lineage'
  <2>0. SUFFICES ASSUME ~Behind', current' # 0
               PROVE  /\ \A i \in synced'..Len(file') : On(branch[i], current)'
                      /\ \A q \in Process : pc'[q] = "mark" \/ (record'.phase = "aborted" /\ Runner(q)')
                           => On(loaded[q], current)'
    BY DEF Lineage
  <2>1. c = current /\ current # 0 /\ On(loaded[p], current)
    BY <1>0, <1>2, <1>10, <2>0 DEF Behind
  <2>2. /\ \A i \in synced..Len(file) : On(branch[i], current)
        /\ record.phase = "aborted" => \A q \in Process : Runner(q) => On(loaded[q], current)
    BY <1>2, <2>1 DEF LedgerInv, LedgerBarrier, Branches, Lineage
  <2>3. \A i \in synced..n : Now(branch'[i], current)
    BY <1>6, <2>1, <2>2
  <2>4. \A q \in Process : pc'[q] = "mark" \/ (record.phase = "aborted" /\ Runner(q)')
          => Now(loaded'[q], current)
    BY <1>4, <1>8, <1>9, <2>1, <2>2
  <2> QED
    BY <1>0, <1>4, <2>3, <2>4 DEF On
<1>15. Stops'
  <2>0. SUFFICES ASSUME Behind'
               PROVE  /\ record'.phase = "restored"
                      /\ turnEvent' # 0 /\ told'[turnEvent'] # -1 /\ ~Marked(turnEvent)'
                      /\ \A q \in Process : pc'[q] = "mark" => ~On(loaded[q], current)'
    BY DEF Stops
  <2>1. c # current
    <3>1. c = current => told' = due'
      BY <1>0, <1>2 DEF Behind
    <3> QED
      BY <2>0, <3>1 DEF Behind
  <2>2. current # 0 /\ ~On(loaded[p], current)
    BY <1>1, <1>2, <2>1
  <2>3. record.phase = "restored"
    <3>1. record.phase \in Phases
      BY <1>3, EntriesTyped
    <3>2. record.phase # "none"
      BY <2>2 DEF LedgerInv, LedgerBarrier, Branches, Ending
    <3>3. record.phase # "aborted"
      BY <1>0, <1>2, <2>2 DEF Runner, LedgerInv, LedgerBarrier, Branches, Lineage
    <3> QED
      BY <1>2, <3>1, <3>2, <3>3 DEF OpenRecord, Phases
  <2>4. told'[turnEvent'] # -1
    BY <1>2, <1>10, <1>11
  <2>5. ~Now(loaded'[p], current)
    BY <1>4, <2>2
  <2> QED
    BY <1>0, <1>9, <1>11, <2>3, <2>4, <2>5 DEF On
<1> QED
  BY <1>12, <1>13, <1>14, <1>15 DEF Branches

\* While a turn is being completed nobody else runs on a session.
LEMMA AloneAtMark ==
  ASSUME LedgerInv, NEW p \in Process, pc[p] = "mark", NEW q \in Process, Runner(q)
  PROVE  q = p
<1>1. /\ Begun(p) /\ turnEvent # 0
      /\ \A r \in Process : Begun(r) => r = p
  BY DEF Begun, LedgerInv, LedgerBarrier, Turning
<1>2. record.phase # "prepared"
  BY <1>1 DEF OpenRecord, LedgerInv, LedgerBarrier, Turning
<1>3. pc[q] \notin {"armed", "append"}
  BY <1>2 DEF LedgerInv, LedgerBarrier, Appenders
<1>4. Newest(q) => pc[q] \in CommandSteps \cup {"open", "turn", "mark", "complete", "catch"}
  BY <1>1 DEF LedgerInv, LedgerBarrier, NewestReads
<1>5. pc[q] \in {"turn", "mark"}
  BY <1>3, <1>4 DEF Runner, Running, CommandSteps
<1> QED
  BY <1>1, <1>5 DEF Begun

\* The marker settles the turn's branch as the one everybody opens from now on.
LEMMA BranchesMark ==
  ASSUME LedgerInv, NEW p \in Process, Mark(p)
  PROVE  Branches'
<1> DEFINE n == Len(file) + 1
           x == <<"marker", ev[p]>>
           Now(b, d) == \E j \in b : file'[j] = <<"compaction", d>>
<1>0. /\ pc[p] = "mark" /\ AppendEnd(p, x) /\ synced' = Len(file') /\ pc' = [pc EXCEPT ![p] = "complete"]
      /\ UNCHANGED <<record, current, turnEvent, cursor, ev, told, due>>
  BY DEF Mark, AppendEnd, Goto, storeVars, stateVars, historyVars
<1>1. /\ TypeOK /\ pc \in [Process -> Step] /\ x \in Entry
      /\ turnEvent = ev[p] /\ ev[p] # 0 /\ turnEvent # 0 /\ ~OpenRecord
  <2>1. TypeOK /\ pc \in [Process -> Step] /\ ev[p] \in 0..MaxSeq
    BY DEF LedgerInv, AbortInv, TypeOK
  <2> QED
    BY <1>0, <2>1 DEF Entry, Begun, LedgerInv, LedgerBarrier, Turning
<1>2. /\ Len(file) \in Nat /\ Len(file') = n
      /\ \A i \in 1..Len(file') : i \in branch'[i]
      /\ \A d : Now(branch'[n], d) <=> On(loaded[p], d)
  <2>1. \A d : x # <<"compaction", d>>
    OBVIOUS
  <2>2. /\ Len(file) \in Nat /\ Len(file') = n
        /\ \A i \in 1..Len(file') : i \in branch'[i]
        /\ \A d : Now(branch'[n], d) <=> On(loaded[p], d) \/ x = <<"compaction", d>>
    <3> HIDE DEF x
    <3> QED
      BY <1>0, <1>1, AppendedEnd, Zenon
  <2> HIDE DEF x, n, Now
  <2> QED
    BY <2>1, <2>2, Zenon
<1>3. \A e \in Event : Marked(e)' <=> Marked(e) \/ e = ev[p]
  <2>1. file' = Append(file, x) /\ \A e : x = <<"marker", e>> <=> e = ev[p]
    BY <1>0 DEF AppendEnd
  <2> HIDE DEF x
  <2> QED
    BY <1>1, <2>1, MarkedAppend
<1>4. \A q \in Process : ~Runner(q)' /\ pc'[q] # "mark"
  <2> SUFFICES ASSUME NEW q \in Process, Runner(q)' \/ pc'[q] = "mark"
               PROVE  FALSE
    OBVIOUS
  <2>1. Runner(q)'
    BY DEF Runner
  <2>2. Runner(q)
    BY <1>0, <2>1, RunnerFrom DEF WorkerStep, Open
  <2>3. q = p
    BY <1>0, <2>2, AloneAtMark
  <2>4. pc'[p] = "complete"
    BY <1>0, <1>1
  <2> QED
    BY <2>1, <2>3, <2>4 DEF Runner, Running
<1>5. \A i \in synced'..Len(file') : i = n
  BY <1>0, <1>2
<1>6. \A d \in Event : Kept(d)' => told'[d] = told[d] /\ On(loaded[p], told[d])
  <2> SUFFICES ASSUME NEW d \in Event, Kept(d)' PROVE On(loaded[p], told[d])
    BY <1>0
  <2>1. CASE Kept(d)
    BY <1>0, <2>1 DEF Runner, LedgerInv, LedgerBarrier, Branches, Anchored, Rooted
  <2>2. CASE ~Kept(d)
    <3>1. d = ev[p] /\ told[d] > 0
      BY <1>0, <1>3, <2>2 DEF Kept
    <3> QED
      BY <1>0, <3>1 DEF LedgerInv, LedgerBarrier, Branches, Anchored
  <2> QED
    BY <2>1, <2>2
<1> HIDE DEF n, x
<1>7. Ending'
  BY <1>0, <1>1, <1>2 DEF LedgerInv, LedgerBarrier, Branches, Ending, OpenRecord
<1>8. Anchored'
  <2>1. \A d \in Event : told'[d] <= current'
    BY <1>0 DEF LedgerInv, LedgerBarrier, Branches, Anchored
  <2>2. ASSUME NEW d \in Event, Kept(d)'
        PROVE  Rooted(told[d])'
    <3>1. told'[d] = told[d] /\ Now(branch'[n], told[d])
      BY <1>2, <1>6, <2>2
    <3>2. ASSUME NEW i \in synced'..Len(file')
          PROVE  On(branch[i], told[d])'
      BY <1>5, <3>1, <3>2 DEF On
    <3> QED
      BY <1>4, <3>2 DEF Rooted
  <2> QED
    BY <1>4, <2>1, <2>2 DEF Anchored
<1>9. Lineage'
  <2> SUFFICES ASSUME ~Behind', current' # 0
               PROVE  \A i \in synced'..Len(file') : On(branch[i], current)'
    BY <1>4 DEF Lineage
  <2>1. On(loaded[p], current)
    BY <1>0 DEF Behind, LedgerInv, LedgerBarrier, Branches, Lineage
  <2>2. Now(branch'[n], current')
    BY <1>0, <1>2, <2>1
  <2> QED
    BY <1>5, <2>2 DEF On
<1>10. Stops'
  <2> SUFFICES ASSUME Behind'
               PROVE  /\ record'.phase = "restored"
                      /\ turnEvent' # 0 /\ told'[turnEvent'] # -1
                      /\ \A i \in synced'..Len(file') : ~On(branch[i], current)'
    BY <1>4 DEF Stops
  <2>1. /\ ~On(loaded[p], current) /\ record.phase = "restored"
        /\ told[turnEvent] # -1
    BY <1>0, <1>1 DEF Behind, LedgerInv, LedgerBarrier, Branches, Stops
  <2>2. ~Now(branch'[n], current')
    BY <1>0, <1>2, <2>1
  <2> QED
    BY <1>0, <1>1, <1>5, <2>1, <2>2 DEF On
<1> QED
  BY <1>7, <1>8, <1>9, <1>10 DEF Branches

\* The tree grows with an entry only; any other step leaves it as it is.
LEMMA BranchShape ==
  ASSUME TypeOK, NEW p \in Process,
         \/ WorkerStep(p) \/ CommandStep(p) \/ Claim(p)
         \/ Acquire(p) \/ LoseApp(p) \/ Drain(p) \/ Crash(p)
  PROVE  \/ UNCHANGED <<file, branch>>
         \/ Turn(p) \/ Mark(p)
         \/ AppendEntry(p) /\ AppendEnd(p, <<"compaction", seen[p].id>>)
<1>1. CASE AppendEntry(p)
  BY <1>1 DEF AppendEntry
<1>2. CASE Reconcile(p) \/ SyncEntry(p)
  BY <1>2 DEF Reconcile, SyncEntry
<1>3. CASE WorkerStep(p) /\ ~(AppendEntry(p) \/ Turn(p) \/ Mark(p) \/ Reconcile(p) \/ SyncEntry(p))
  BY <1>3 DEF WorkerStep, Open, Prepare, Advance, Decide, Capture, Record, ArmGate,
         Compacted, Verify, BeginTurn, Complete, Pause, GateLost, diskVars
<1>4. CASE CommandStep(p)
  BY <1>4 DEF CommandStep, ConsumeManifest, ClaimRepair, Prove, ProveAgain, Abort, ClaimIntent, Stage,
         ReleaseIntent, Publish, GiveBack, Leave, diskVars
<1>5. CASE Claim(p) \/ Acquire(p) \/ LoseApp(p) \/ Drain(p) \/ Crash(p)
  BY <1>5 DEF Claim, Acquire, LoseApp, Drain, Crash, diskVars
<1> QED
  BY <1>1, <1>2, <1>3, <1>4, <1>5

\* Between two turns an entry of the open record is made on a file that is on disk.
LEMMA BranchesAppendEntry ==
  ASSUME LedgerInv, NEW p \in Process,
         AppendEntry(p), AppendEnd(p, <<"compaction", seen[p].id>>)
  PROVE  Branches'
<1> DEFINE n == Len(file) + 1
           x == <<"compaction", record.id>>
           Now(b, d) == \E j \in b : file'[j] = <<"compaction", d>>
<1>0. /\ pc[p] = "append" /\ synced' = synced
      /\ UNCHANGED <<record, current, turnEvent, cursor, ev, told, due>>
  BY DEF AppendEntry, AppendEnd, storeVars, stateVars, historyVars
<1>1. /\ record.phase = "prepared" /\ OpenRecord /\ seen[p].id = record.id
      /\ ~InFile(record.id) /\ turnEvent = 0 /\ ~Behind
  BY <1>0 DEF OpenRecord, Holds, LedgerInv, AbortInv, CheckpointBarrier, HeldApart,
              LedgerBarrier, Appenders, Turning, Branches, Stops
<1>2. /\ synced = Len(file) /\ x \in Entry /\ TypeOK /\ AppendEnd(p, x) /\ turnEvent' = 0
      /\ \A q \in Process : pc[q] # "mark"
  BY <1>0, <1>1 DEF LedgerInv, AbortInv, TypeOK, Entry, CheckpointRecord, LedgerBarrier, Branches,
                    Ending, Turning, Begun
<1>3. /\ Len(file) \in Nat /\ Len(file') = n
      /\ \A i \in 1..Len(file') : i \in branch'[i]
      /\ \A d : \A i \in 1..Len(file) : Now(branch'[i], d) <=> On(branch[i], d)
      /\ \A d : On(loaded[p], d) => Now(branch'[n], d)
      /\ \A d : \A q \in Process : On(loaded[q], d) => Now(loaded'[q], d)
  <2>1. /\ Len(file) \in Nat /\ Len(file') = n
        /\ \A i \in 1..Len(file') : i \in branch'[i]
        /\ \A d : \A i \in 1..Len(file) : Now(branch'[i], d) <=> On(branch[i], d)
        /\ \A d : Now(branch'[n], d) <=> On(loaded[p], d) \/ x = <<"compaction", d>>
        /\ \A d : \A q \in Process :
             Now(loaded'[q], d) <=> On(loaded[q], d) \/ (q = p /\ x = <<"compaction", d>>)
    <3> HIDE DEF x
    <3> QED
      BY <1>2, AppendedEnd, Zenon
  <2> HIDE DEF x, n, Now
  <2> QED
    BY <2>1, Zenon
<1>4. /\ file'[n] = x /\ (\A i \in 1..Len(file) : file'[i] = file[i])
      /\ \A e \in Event : Marked(e)' <=> Marked(e)
  <2>1. file' = Append(file, x) /\ \A e : x # <<"marker", e>>
    BY <1>2 DEF AppendEnd
  <2> HIDE DEF x
  <2> QED
    BY <1>2, <2>1, AppendFacts, MarkedAppend
<1>5. \A q \in Process : Runner(q)' => Runner(q)
  BY <1>0, RunnerFrom DEF WorkerStep, Open
<1>6. \A q \in Process : pc'[q] # "mark"
  BY <1>0, <1>2, MarkFrom DEF WorkerStep, Turn
<1>7. /\ current # 0 => Len(file) \in 1..Len(file)
      /\ \A i \in synced..n : i = n \/ i = Len(file)
      /\ \A d \in Event : told[d] > 0 => current # 0
  BY <1>2, <1>3, Rooting
<1> HIDE DEF n, x
<1>8. Ending'
  <2>1. ~OnDisk(record.id)' /\ InFile(record.id)'
    <3>1. \A i \in 1..synced : file'[i] # <<"compaction", record.id>>
      BY <1>1, <1>2, <1>4 DEF InFile
    <3>2. n \in 1..Len(file')
      BY <1>3 DEF n
    <3> QED
      BY <1>0, <1>4, <3>1, <3>2 DEF OnDisk, InFile, x
  <2>2. file'[Len(file')] = <<"compaction", record'.id>>
    BY <1>0, <1>3, <1>4 DEF x
  <2> QED
    BY <1>0, <1>1, <1>3, <2>1, <2>2 DEF LedgerInv, LedgerBarrier, Branches, Ending, OpenRecord
<1>9. Anchored'
  <2>1. \A d \in Event : told'[d] <= current'
    BY <1>0 DEF LedgerInv, LedgerBarrier, Branches, Anchored
  <2>2. ASSUME NEW d \in Event, Kept(d)'
        PROVE  Rooted(told[d])'
    <3>1. Kept(d) /\ told'[d] = told[d]
      BY <1>0, <1>4, <2>2 DEF Kept
    <3>2. /\ \A i \in synced..Len(file) : On(branch[i], told[d])
          /\ \A q \in Process : Runner(q) => On(loaded[q], told[d])
      BY <3>1 DEF LedgerInv, LedgerBarrier, Branches, Anchored, Rooted
    <3>3. Now(branch'[n], told[d])
      BY <1>0, <1>3, <3>2 DEF Runner
    <3>4. Now(branch'[Len(file)], told[d])
      <4>1. Len(file) \in 1..Len(file) /\ Len(file) \in synced..Len(file)
        BY <1>2, <1>3, <1>7, <3>1 DEF Kept
      <4>2. On(branch[Len(file)], told[d])
        BY <3>2, <4>1
      <4> HIDE DEF Now
      <4> QED
        BY <1>3, <4>1, <4>2, Zenon
    <3>5. ASSUME NEW i \in synced'..Len(file')
          PROVE  On(branch[i], told[d])'
      BY <1>0, <1>3, <1>7, <3>1, <3>3, <3>4 DEF On
    <3>6. ASSUME NEW q \in Process, Runner(q)'
          PROVE  On(loaded[q], told[d])'
      <4>1. On(loaded[q], told[d])
        BY <1>5, <3>2, <3>6
      <4>2. Now(loaded'[q], told[d])
        <5> HIDE DEF Now
        <5> QED
          BY <1>3, <4>1, Zenon
      <4> QED
        BY <3>1, <4>2 DEF On
    <3> QED
      BY <3>5, <3>6 DEF Rooted
  <2> QED
    BY <1>6, <2>1, <2>2 DEF Anchored
<1>10. Lineage'
  <2> SUFFICES ASSUME current' # 0, NEW i \in synced'..Len(file')
               PROVE  On(branch[i], current)' \/ (OpenRecord' /\ file'[i] = <<"compaction", record'.id>>)
    BY <1>0, <1>1, <1>6 DEF Lineage
  <2>1. CASE i = n
    BY <1>0, <1>1, <1>4, <2>1 DEF OpenRecord, x
  <2>2. CASE i = Len(file)
    <3>1. i \in 1..Len(file) /\ i \in synced..Len(file)
      BY <1>0, <1>2, <1>3, <1>7, <2>2
    <3>2. On(branch[i], current) \/ (OpenRecord /\ file[i] = <<"compaction", record.id>>)
      BY <1>0, <1>1, <3>1 DEF LedgerInv, LedgerBarrier, Branches, Lineage
    <3>3. On(branch[i], current)
      BY <1>1, <3>1, <3>2 DEF InFile
    <3>4. Now(branch'[i], current')
      BY <1>0, <1>3, <3>1, <3>3
    <3> QED
      BY <3>4 DEF On
  <2> QED
    BY <1>0, <1>3, <1>7, <2>1, <2>2
<1>11. Stops'
  BY <1>0, <1>1 DEF Stops, Behind
<1> QED
  BY <1>8, <1>9, <1>10, <1>11 DEF Branches

\* A new record is made between two turns, on a file that is on disk, and only
\* while no turn is behind.
LEMMA BranchesRecord ==
  ASSUME LedgerInv, NEW p \in Process, Record(p)
  PROVE  Branches'
<1>0. /\ UNCHANGED <<file, branch, synced, current, turnEvent, cursor, told, due, ev, loaded>>
      /\ ~OpenRecord /\ record' = seen[p] /\ seen[p].phase = "prepared" /\ pc[p] = "record" /\ Newest(p)
  BY RecordMade DEF Record, diskVars, procVars
<1>1. turnEvent = 0 /\ ~Behind
  <2>1. turnEvent = 0
    BY <1>0 DEF LedgerInv, LedgerBarrier, NewestReads, CommandSteps
  <2> QED
    BY <1>0, <2>1 DEF LedgerInv, LedgerBarrier, Branches, Stops, Settled
<1>2. synced = Len(file) /\ ~InFile(seen[p].id)
  BY <1>0, <1>1 DEF Holds, LedgerInv, AbortInv, CheckpointBarrier, HeldApart, LedgerBarrier, Branches,
                    Ending
<1>3. \A q \in Process : pc'[q] # "mark" /\ (Runner(q)' => Runner(q))
  <2>1. ~Turn(p) /\ ~Open(p)
    BY <1>0 DEF Turn, Open
  <2>2. \A q \in Process : pc[q] # "mark"
    BY <1>1 DEF Begun, LedgerInv, LedgerBarrier, Turning
  <2>3. WorkerStep(p)
    BY DEF WorkerStep
  <2>4. \A q \in Process : pc'[q] # "mark"
    BY <2>1, <2>2, <2>3, MarkFrom
  <2> QED
    BY <2>1, <2>3, <2>4, RunnerFrom
<1>4. Ending'
  <2>1. ~InFile(record.id)'
    BY <1>0, <1>2 DEF InFile
  <2> QED
    BY <1>0, <1>2, <2>1 DEF LedgerInv, LedgerBarrier, Branches, Ending
<1>5. Anchored'
  <2>1. \A d \in Event : Kept(d)' => Kept(d) /\ told'[d] = told[d]
    BY <1>0 DEF Kept, Marked
  <2>2. \A d \in Event : Kept(d) => Rooted(told[d])
    BY DEF LedgerInv, LedgerBarrier, Branches, Anchored
  <2>3. \A d \in Event : Kept(d)' => Rooted(told[d])'
    BY <1>0, <1>3, <2>1, <2>2 DEF Rooted, On
  <2> QED
    BY <1>0, <1>3, <2>3 DEF LedgerInv, LedgerBarrier, Branches, Anchored
<1>6. Lineage'
  BY <1>0, <1>1, <1>3 DEF LedgerInv, LedgerBarrier, Branches, Lineage, Behind, On
<1>7. Stops'
  BY <1>0, <1>1 DEF Stops, Behind
<1> QED
  BY <1>4, <1>5, <1>6, <1>7 DEF Branches

\* A transition is made with the entry on disk and at the end of the file, so the
\* checkpoint it restores is on the branch that is opened next.
LEMMA BranchesTransition ==
  ASSUME LedgerInv, NEW p \in Process, Transition(p)
  PROVE  Branches'
<1>0. /\ OpenRecord /\ OnDisk(record.id) /\ InFile(record.id)
      /\ record'.id = record.id /\ record'.phase = NextPhase(record.phase)
      /\ current' = IF record.phase = "compacted" THEN record.id ELSE current
      /\ UNCHANGED <<file, synced, turnEvent, cursor, told, due, ev>>
  BY TransitionShape
<1>1. /\ turnEvent = 0 /\ ~Behind /\ current < record.id
      /\ \A q \in Process : pc[q] # "mark"
  BY <1>0 DEF LedgerInv, LedgerBarrier, Cuts, Turning, Begun, Branches, Stops, OpenRecord
<1>2. /\ synced = Len(file) /\ file[Len(file)] = <<"compaction", record.id>>
      /\ record.id \in Int /\ current \in Int /\ Len(file) \in 1..Len(file)
      /\ Len(file) \in branch[Len(file)]
  <2>1. /\ synced = Len(file) /\ file[Len(file)] = <<"compaction", record.id>>
    BY <1>0, <1>1 DEF LedgerInv, LedgerBarrier, Branches, Ending
  <2>2. /\ record.id \in Int /\ current \in Int /\ Len(file) \in Nat
    BY EntriesTyped DEF LedgerInv, AbortInv
  <2>3. Len(file) \in 1..Len(file)
    BY <1>0, <2>2 DEF InFile
  <2> QED
    BY <2>1, <2>2, <2>3 DEF LedgerInv, LedgerBarrier, Branches, Ending
<1>3. UNCHANGED <<branch, loaded>> /\ WorkerStep(p) /\ ~Turn(p) /\ ~Open(p)
  <2>1. UNCHANGED <<branch, loaded>>
    BY DEF Transition, Advance, Compacted, Verify, diskVars, procVars
  <2>2. pc[p] \in {"advance", "compacted", "verify"} /\ WorkerStep(p)
    BY DEF Transition, Advance, Compacted, Verify, WorkerStep
  <2> QED
    BY <2>1, <2>2 DEF Turn, Open
<1>4. \A q \in Process : pc'[q] # "mark" /\ (Runner(q)' => Runner(q))
  <2>1. \A q \in Process : pc'[q] # "mark"
    BY <1>1, <1>3, MarkFrom
  <2> QED
    BY <1>3, <2>1, RunnerFrom
<1>5. /\ InFile(record.id)' /\ OnDisk(record.id)'
      /\ record'.phase \in {"compacted", "restored"}
      /\ record'.phase = "restored" => record'.id = current'
      /\ record'.phase = "compacted" => current' = current /\ OpenRecord'
  BY <1>0 DEF InFile, OnDisk, NextPhase, OpenRecord
<1>6. Ending'
  BY <1>0, <1>2, <1>3, <1>5 DEF LedgerInv, LedgerBarrier, Branches, Ending
<1>7. Anchored'
  <2>1. \A d \in Event : Kept(d)' => Kept(d) /\ told'[d] = told[d]
    BY <1>0 DEF Kept, Marked
  <2>2. \A d \in Event : Kept(d) => Rooted(told[d])
    BY DEF LedgerInv, LedgerBarrier, Branches, Anchored
  <2>3. \A d \in Event : Kept(d)' => Rooted(told[d])'
    BY <1>0, <1>3, <1>4, <2>1, <2>2 DEF Rooted, On
  <2>4. \A d \in Event : told[d] <= current /\ told[d] \in Int
    BY Rooting DEF LedgerInv, LedgerBarrier, Branches, Anchored
  <2>5. \A d \in Event : told'[d] <= current'
    BY <1>0, <1>1, <1>2, <2>4
  <2> QED
    BY <1>4, <2>3, <2>5 DEF Anchored
<1>8. Lineage'
  <2>1. \A i \in synced'..Len(file') : i = Len(file)
    BY <1>0, <1>2
  <2>2. current' # 0 => On(branch[Len(file)], current)'
                        \/ (OpenRecord' /\ file'[Len(file)] = <<"compaction", record'.id>>)
    <3>1. CASE record'.phase = "restored"
      BY <1>0, <1>2, <1>3, <1>5, <3>1 DEF On
    <3>2. CASE record'.phase = "compacted"
      BY <1>0, <1>2, <1>5, <3>2
    <3> QED
      BY <1>5, <3>1, <3>2
  <2> QED
    BY <1>0, <1>4, <1>5, <2>1, <2>2 DEF Lineage
<1>9. Stops'
  BY <1>0, <1>1 DEF Stops, Behind
<1> QED
  BY <1>6, <1>7, <1>8, <1>9 DEF Branches

\* A checkpoint is given up before its entry, and by a command that nobody else's
\* session outlives.
LEMMA BranchesAbort ==
  ASSUME LedgerInv, NEW p \in Process, Abort(p), record' # record
  PROVE  Branches'
<1>0. /\ record.phase = "prepared" /\ record'.phase = "aborted" /\ ~InFile(record.id)
      /\ \A q \in Process : pc[q] \notin {"armed", "append"}
      /\ UNCHANGED <<file, synced, current, turnEvent, cursor, told, due, ev>>
  BY AbortShape
<1>1. /\ UNCHANGED <<branch, loaded>> /\ pc[p] = "abort" /\ pc'[p] = "leave" /\ CommandStep(p)
      /\ Newest(p) /\ \A q \in Process : Newest(q) => q = p
  <2>1. /\ UNCHANGED <<branch, loaded>> /\ pc[p] = "abort" /\ MayAbort(p) /\ CommandStep(p)
        /\ pc' = [pc EXCEPT ![p] = "leave"]
    BY DEF Abort, diskVars, procVars, CommandStep, Goto
  <2>2. pc'[p] = "leave"
    BY <2>1 DEF LedgerInv, AbortInv, TypeOK
  <2> QED
    BY <2>1, <2>2, WorkIsNewest DEF MayAbort, LedgerInv
<1>2. /\ OpenRecord /\ turnEvent = 0 /\ ~Behind /\ synced = Len(file)
      /\ \A q \in Process : pc[q] \notin {"turn", "mark"}
  BY <1>0 DEF OpenRecord, LedgerInv, LedgerBarrier, Turning, Begun, Branches, Stops, Ending
<1>3. \A q \in Process : ~Runner(q)' /\ pc'[q] # "mark"
  <2> SUFFICES ASSUME NEW q \in Process, Runner(q)' \/ pc'[q] = "mark"
               PROVE  FALSE
    OBVIOUS
  <2>1. Runner(q)'
    BY DEF Runner
  <2>2. Runner(q)
    BY <1>1, <2>1, RunnerFrom DEF Open
  <2>3. q = p
    BY <1>0, <1>1, <1>2, <2>2 DEF Runner
  <2> QED
    BY <1>1, <2>2, <2>3 DEF Runner, Running
<1>4. Ending'
  BY <1>0, <1>1, <1>2 DEF LedgerInv, LedgerBarrier, Branches, Ending, OpenRecord
<1>5. Anchored'
  <2>1. \A d \in Event : Kept(d)' => Kept(d) /\ told'[d] = told[d]
    BY <1>0 DEF Kept, Marked
  <2>2. \A d \in Event : Kept(d) => Rooted(told[d])
    BY DEF LedgerInv, LedgerBarrier, Branches, Anchored
  <2>3. \A d \in Event : Kept(d)' => Rooted(told[d])'
    BY <1>0, <1>1, <1>3, <2>1, <2>2 DEF Rooted, On
  <2> QED
    BY <1>0, <1>3, <2>3 DEF LedgerInv, LedgerBarrier, Branches, Anchored
<1>6. Lineage'
  <2> SUFFICES ASSUME current' # 0, NEW i \in synced'..Len(file')
               PROVE  On(branch[i], current)'
    BY <1>3 DEF Lineage
  <2>1. i \in synced..Len(file) /\ i \in 1..Len(file)
    BY <1>0, <1>2, Rooting
  <2>2. On(branch[i], current) \/ file[i] = <<"compaction", record.id>>
    BY <1>0, <1>2, <2>1 DEF LedgerInv, LedgerBarrier, Branches, Lineage
  <2>3. On(branch[i], current)
    BY <1>0, <2>1, <2>2 DEF InFile
  <2> QED
    BY <1>0, <1>1, <2>3 DEF On
<1>7. Stops'
  BY <1>0, <1>2 DEF Stops, Behind
<1> QED
  BY <1>4, <1>5, <1>6, <1>7 DEF Branches

\* A power failure takes entries from the end, down to what is on disk, and every
\* session with it.
LEMMA BranchesCrash ==
  ASSUME LedgerInv, HostCrash
  PROVE  Branches'
<1>1. PICK n \in synced..Len(file) :
        file' = SubSeq(file, 1, n) /\ branch' = SubSeq(branch, 1, n) /\ synced' = n
  BY DEF HostCrash
<1>2. /\ Len(file') = n /\ \A i \in 1..n : file'[i] = file[i]
      /\ \A i \in 1..n : branch'[i] = branch[i]
      /\ \A i \in 1..n : i \in 1..Len(file) /\ branch[i] \subseteq 1..n
      /\ n \in Nat /\ Len(file) \in Nat
  <2>1. /\ file \in Seq(Entry) /\ branch \in Seq(SUBSET Nat) /\ Len(branch) = Len(file)
        /\ synced \in 0..Len(file) /\ Len(file) \in Nat
        /\ \A i \in 1..Len(file) : branch[i] \subseteq 1..i
    BY EntriesTyped DEF LedgerInv, AbortInv, TypeOK, TreeTypeOK
  <2>2. n \in Nat /\ \A i \in 1..n : i \in 1..Len(file) /\ 1..i \subseteq 1..n
    BY <2>1
  <2>3. /\ Len(file') = n /\ \A i \in 1..n : file'[i] = file[i]
        /\ \A i \in 1..n : branch'[i] = branch[i]
    BY <1>1, <2>1, <2>2
  <2> QED
    BY <2>1, <2>2, <2>3
<1>3. /\ UNCHANGED <<record, current, turnEvent, cursor, told, due>>
      /\ \A q \in Process : ~Runner(q)' /\ ~Newest(q)' /\ pc'[q] # "mark"
  BY DEF HostCrash, storeVars, stateVars, historyVars, Runner, Newest
<1>4. \A c : \A i \in 1..n : On(branch[i], c)
              => \E j \in branch'[i] : file'[j] = <<"compaction", c>>
  BY <1>2 DEF On
<1>5. \A c : \A i \in 1..n : (\E j \in branch'[i] : file'[j] = <<"compaction", c>>)
              => On(branch[i], c)
  BY <1>2 DEF On
<1>6. /\ \A e : Marked(e)' => Marked(e)
      /\ \A i \in synced'..Len(file') : i = n
      /\ current # 0 => n \in 1..n
      /\ \A d \in Event : told[d] > 0 => current # 0
  BY <1>1, <1>2, Rooting DEF Marked
<1>7. Ending'
  <2>1. \A i \in 1..Len(file') : i \in branch'[i]
    BY <1>2 DEF LedgerInv, LedgerBarrier, Branches, Ending
  <2>2. OpenRecord' /\ InFile(record.id)' => file'[Len(file')] = <<"compaction", record'.id>>
    <3> SUFFICES ASSUME OpenRecord', InFile(record.id)'
                 PROVE  file'[Len(file')] = <<"compaction", record'.id>>
      OBVIOUS
    <3>1. PICK i \in 1..n : file[i] = <<"compaction", record.id>>
      BY <1>2, <1>3 DEF InFile
    <3>2. /\ OpenRecord /\ InFile(record.id) /\ i \in 1..Len(file)
          /\ Len(file) \in 1..Len(file)
      BY <1>2, <1>3, <3>1 DEF InFile, OpenRecord
    <3>3. file[Len(file)] = <<"compaction", record.id>>
      BY <3>2 DEF LedgerInv, LedgerBarrier, Branches, Ending
    <3>4. i = Len(file)
      BY <3>1, <3>2, <3>3 DEF LedgerInv, AbortInv, CheckpointBarrier, OneEntry
    <3>5. n = i
      BY <1>1, <1>2, <3>1, <3>4
    <3> QED
      BY <1>2, <1>3, <3>1, <3>5
  <2> QED
    BY <1>1, <1>2, <1>3, <2>1, <2>2 DEF LedgerInv, LedgerBarrier, Branches, Ending
<1>8. Anchored'
  <2>1. ASSUME NEW d \in Event, Kept(d)'
        PROVE  Rooted(told[d])'
    <3>1. Kept(d) /\ told'[d] = told[d]
      BY <1>3, <1>6, <2>1 DEF Kept
    <3>2. n \in 1..n /\ On(branch[n], told[d])
      <4>1. n \in 1..n /\ \A i \in synced..Len(file) : On(branch[i], told[d])
        BY <1>6, <3>1 DEF Kept, LedgerInv, LedgerBarrier, Branches, Anchored, Rooted
      <4> QED
        BY <1>1, <4>1
    <3>3. \E j \in branch'[n] : file'[j] = <<"compaction", told[d]>>
      BY <1>4, <3>2
    <3> QED
      BY <1>3, <1>6, <3>1, <3>3 DEF Rooted, On
  <2> QED
    BY <1>3, <2>1 DEF LedgerInv, LedgerBarrier, Branches, Anchored
<1>9. Lineage'
  <2> SUFFICES ASSUME ~Behind', current' # 0
               PROVE  On(branch[n], current)' \/ (OpenRecord' /\ file'[n] = <<"compaction", record'.id>>)
    BY <1>3, <1>6 DEF Lineage
  <2>1. On(branch[n], current) \/ (OpenRecord /\ file[n] = <<"compaction", record.id>>)
    <3>1. ~Behind /\ current # 0
      BY <1>3 DEF Behind
    <3> QED
      BY <1>1, <3>1 DEF LedgerInv, LedgerBarrier, Branches, Lineage
  <2>2. n \in 1..n
    BY <1>3, <1>6
  <2>3. CASE On(branch[n], current)
    <3>1. \E j \in branch'[n] : file'[j] = <<"compaction", current>>
      BY <1>4, <2>2, <2>3
    <3> QED
      BY <1>3, <3>1 DEF On
  <2>4. CASE OpenRecord /\ file[n] = <<"compaction", record.id>>
    BY <1>2, <1>3, <2>2, <2>4 DEF OpenRecord
  <2> QED
    BY <2>1, <2>3, <2>4
<1>10. Stops'
  <2> SUFFICES ASSUME Behind'
               PROVE  /\ record'.phase = "restored"
                      /\ turnEvent' # 0 => told'[turnEvent'] # -1
                      /\ turnEvent' = 0 \/ Marked(turnEvent)' => ~On(branch[n], current)'
    BY <1>3, <1>6 DEF Stops
  <2>1. Behind
    BY <1>3 DEF Behind
  <2>2. /\ record.phase = "restored"
        /\ turnEvent # 0 => told[turnEvent] # -1
        /\ turnEvent = 0 \/ Marked(turnEvent) => ~On(branch[n], current)
    BY <1>1, <2>1 DEF LedgerInv, LedgerBarrier, Branches, Stops
  <2>3. n \in 1..n
    BY <1>1, <1>2, <2>2, Rooting DEF LedgerInv, AbortInv, CheckpointBarrier, RecordDurable, OnDisk
  <2>4. Marked(turnEvent)' => Marked(turnEvent)
    BY <1>2, <1>3 DEF Marked
  <2>5. On(branch[n], current)' => On(branch[n], current)
    <3>1. (\E j \in branch'[n] : file'[j] = <<"compaction", current>>) => On(branch[n], current)
      BY <1>5, <2>3
    <3> QED
      BY <1>3, <3>1 DEF On
  <2> QED
    BY <1>3, <2>2, <2>4, <2>5
<1> QED
  BY <1>7, <1>8, <1>9, <1>10 DEF Branches

\* A step that changes neither the tree nor what was restored or told: whoever runs
\* after it ran before, or opened the session at the end of the file; whoever marks,
\* marked; and nobody gets past reconciliation while a turn is behind.
LEMMA BranchesAtRest ==
  ASSUME LedgerInv, UNCHANGED <<file, branch, record, current, told, due>>,
         synced' \in {synced, Len(file)},
         \A q \in Process : Runner(q)' =>
           (Runner(q) /\ loaded[q] \subseteq loaded'[q]) \/ loaded'[q] = ActiveBranch,
         \A q \in Process : pc'[q] = "mark" =>
           pc[q] = "mark" /\ ev'[q] = ev[q] /\ loaded'[q] = loaded[q],
         turnEvent' = 0 \/ Marked(turnEvent)' => turnEvent = 0 \/ Marked(turnEvent),
         \A d \in Event : d <= cursor' => d <= cursor \/ Marked(d),
         Behind =>
           /\ turnEvent' # 0 => told[turnEvent'] # -1
           /\ turnEvent' = 0 => \A q \in Process : Newest(q)' => pc'[q] \notin Settled
  PROVE  Branches'
<1>1. /\ \A i \in synced'..Len(file') : i \in synced..Len(file)
      /\ current # 0 => Len(file) \in synced..Len(file) /\ file # <<>>
      /\ \A d \in Event : told[d] > 0 => current # 0
  <2>1. /\ Len(file) \in Nat /\ synced \in 0..Len(file)
        /\ current # 0 => synced \in 1..Len(file)
        /\ \A d \in Event : told[d] > 0 => current # 0
    BY Rooting
  <2>2. \A i \in synced'..Len(file') : i \in synced..Len(file)
    BY <2>1
  <2>3. current # 0 => Len(file) \in synced..Len(file) /\ Len(file) # 0
    BY <2>1
  <2> QED
    BY <2>1, <2>2, <2>3
<1>2. current # 0 => ActiveBranch = branch[Len(file)]
  BY <1>1 DEF ActiveBranch
<1>3. /\ \A i \in 1..Len(file) : i \in branch[i]
      /\ record.phase = "restored" => record.id = current
      /\ record.phase = "none" => current = 0
      /\ turnEvent = 0 \/ Marked(turnEvent) =>
           synced = Len(file) \/ (OpenRecord /\ InFile(record.id) /\ ~OnDisk(record.id))
      /\ OpenRecord /\ InFile(record.id) => file[Len(file)] = <<"compaction", record.id>>
  BY DEF LedgerInv, LedgerBarrier, Branches, Ending
<1>4. Ending'
  <2>1. turnEvent' = 0 \/ Marked(turnEvent)' =>
          synced' = Len(file') \/ (OpenRecord' /\ InFile(record.id)' /\ ~OnDisk(record.id)')
    <3>1. CASE synced' = Len(file)
      BY <3>1
    <3>2. CASE synced' = synced
      BY <1>3, <3>2 DEF OpenRecord, InFile, OnDisk
    <3> QED
      BY <3>1, <3>2
  <2> QED
    BY <1>3, <2>1 DEF Ending, OpenRecord, InFile
<1>5. Anchored'
  <2>1. ASSUME NEW d \in Event, Kept(d)'
        PROVE  Rooted(told[d])'
    <3>1. Kept(d)
      BY <2>1 DEF Kept, Marked
    <3>2. /\ \A i \in synced..Len(file) : On(branch[i], told[d])
          /\ \A q \in Process : Runner(q) => On(loaded[q], told[d])
      BY <3>1 DEF LedgerInv, LedgerBarrier, Branches, Anchored, Rooted
    <3>3. On(ActiveBranch, told[d])
      BY <1>1, <1>2, <3>1, <3>2 DEF Kept
    <3>4. ASSUME NEW q \in Process, Runner(q)'
          PROVE  On(loaded[q], told[d])'
      BY <3>2, <3>3, <3>4 DEF On
    <3>5. ASSUME NEW i \in synced'..Len(file')
          PROVE  On(branch[i], told[d])'
      BY <1>1, <3>2, <3>5 DEF On
    <3> QED
      BY <3>4, <3>5 DEF Rooted
  <2>2. ASSUME NEW q \in Process, pc'[q] = "mark", told'[ev'[q]] > 0
        PROVE  On(loaded[q], told[ev[q]])'
    <3>1. pc[q] = "mark" /\ told[ev[q]] > 0 /\ loaded'[q] = loaded[q] /\ told'[ev'[q]] = told[ev[q]]
      BY <2>2
    <3>2. On(loaded[q], told[ev[q]])
      BY <3>1 DEF LedgerInv, LedgerBarrier, Branches, Anchored
    <3> QED
      BY <3>1, <3>2 DEF On
  <2> QED
    BY <2>1, <2>2 DEF LedgerInv, LedgerBarrier, Branches, Anchored
<1>6. Lineage'
  <2> SUFFICES ASSUME ~Behind', current' # 0
               PROVE  /\ \A i \in synced'..Len(file') :
                           On(branch[i], current)' \/ (OpenRecord' /\ file'[i] = <<"compaction", record'.id>>)
                      /\ \A q \in Process :
                           pc'[q] = "mark" \/ (record'.phase = "aborted" /\ Runner(q)')
                             => On(loaded[q], current)'
    BY DEF Lineage
  <2>1. /\ \A i \in synced..Len(file) :
             On(branch[i], current) \/ (OpenRecord /\ file[i] = <<"compaction", record.id>>)
        /\ \A q \in Process :
             pc[q] = "mark" \/ (record.phase = "aborted" /\ Runner(q)) => On(loaded[q], current)
    BY DEF Behind, LedgerInv, LedgerBarrier, Branches, Lineage
  <2>2. record.phase = "aborted" => On(ActiveBranch, current)
    BY <1>1, <1>2, <2>1 DEF OpenRecord
  <2>3. ASSUME NEW i \in synced'..Len(file')
        PROVE  On(branch[i], current)' \/ (OpenRecord' /\ file'[i] = <<"compaction", record'.id>>)
    BY <1>1, <2>1, <2>3 DEF On, OpenRecord
  <2>4. ASSUME NEW q \in Process, pc'[q] = "mark"
        PROVE  On(loaded[q], current)'
    BY <2>1, <2>4 DEF On
  <2>5. ASSUME NEW q \in Process, record'.phase = "aborted", Runner(q)'
        PROVE  On(loaded[q], current)'
    BY <2>1, <2>2, <2>5 DEF On
  <2> QED
    BY <2>3, <2>4, <2>5
<1>7. Stops'
  <2> SUFFICES ASSUME Behind'
               PROVE  /\ record'.phase = "restored"
                      /\ turnEvent' # 0 => told'[turnEvent'] # -1
                      /\ turnEvent' = 0 \/ Marked(turnEvent)' =>
                           \A i \in synced'..Len(file') : ~On(branch[i], current)'
                      /\ \A q \in Process : pc'[q] = "mark" => ~On(loaded[q], current)'
                      /\ turnEvent' = 0 => \A q \in Process : Newest(q)' => pc'[q] \notin Settled
    BY DEF Stops
  <2>1. Behind
    BY DEF Behind
  <2>2. /\ record.phase = "restored"
        /\ turnEvent = 0 \/ Marked(turnEvent) => \A i \in synced..Len(file) : ~On(branch[i], current)
        /\ \A q \in Process : pc[q] = "mark" => ~On(loaded[q], current)
    BY <2>1 DEF LedgerInv, LedgerBarrier, Branches, Stops
  <2>3. ASSUME turnEvent' = 0 \/ Marked(turnEvent)', NEW i \in synced'..Len(file')
        PROVE  ~On(branch[i], current)'
    BY <1>1, <2>2, <2>3 DEF On
  <2>4. ASSUME NEW q \in Process, pc'[q] = "mark"
        PROVE  ~On(loaded[q], current)'
    BY <2>2, <2>4 DEF On
  <2> QED
    BY <2>1, <2>2, <2>3, <2>4
<1> QED
  BY <1>4, <1>5, <1>6, <1>7 DEF Branches

\* Where a worker that has its checkpoint behind it comes from.
LEMMA SettledFrom ==
  ASSUME TypeOK, NEW p \in Process,
         \/ WorkerStep(p) \/ CommandStep(p)
         \/ Acquire(p) \/ LoseApp(p) \/ Drain(p) \/ Crash(p),
         pc'[p] \in Settled
  PROVE  pc[p] \in Settled \/ Prepare(p) \/ Reconcile(p) \/ Transition(p)
<1>0. pc \in [Process -> Step] /\ seen \in [Process -> CheckpointRecord]
  BY DEF TypeOK
<1> USE DEF Goto, Throw, Stop, Settled
<1>1. CASE Open(p)
  BY <1>0, <1>1 DEF Open
<1>2. CASE Prepare(p) \/ Reconcile(p) \/ Advance(p) \/ Compacted(p)
  BY <1>2 DEF Transition
<1>3. CASE Decide(p) \/ Capture(p) \/ Record(p) \/ BeginTurn(p)
  BY <1>3 DEF Decide, Capture, Record, BeginTurn
<1>4. CASE ArmGate(p) \/ AppendEntry(p) \/ SyncEntry(p) \/ Turn(p) \/ Mark(p)
  BY <1>0, <1>4 DEF ArmGate, AppendEntry, SyncEntry, Turn, Mark
<1>5. CASE Verify(p)
  BY <1>0, <1>5 DEF Verify, Transition
<1>6. CASE Complete(p) \/ Pause(p) \/ GateLost(p) \/ Drain(p) \/ Crash(p)
  BY <1>0, <1>6 DEF Complete, Pause, GateLost, Drain, Crash
<1>7. CASE Acquire(p)
  BY <1>0, <1>7 DEF Acquire
<1>8. CASE LoseApp(p)
  BY <1>8 DEF LoseApp
<1>9. CASE CommandStep(p)
  <2>1. pc'[p] \in CommandSteps
    BY <1>0, <1>9 DEF CommandStep, ConsumeManifest, ClaimRepair, Prove, ProveAgain, Abort,
       ClaimIntent, Stage, ReleaseIntent, Publish, GiveBack, Leave, CommandSteps
  <2> QED
    BY <2>1 DEF CommandSteps
<1> QED
  BY <1>1, <1>2, <1>3, <1>4, <1>5, <1>6, <1>7, <1>8, <1>9 DEF WorkerStep

\* Once a turn is behind, reconciliation does not find its entry on the branch.
LEMMA BehindStopsHere ==
  ASSUME LedgerInv, Behind, turnEvent = 0, NEW p \in Process, Newest(p),
         Prepare(p) \/ Reconcile(p)
  PROVE  pc'[p] \notin Settled
<1>0. pc \in [Process -> Step] /\ record.phase = "restored" /\ record.id = current
  BY DEF LedgerInv, AbortInv, TypeOK, LedgerBarrier, Branches, Stops, Ending
<1>1. CASE Prepare(p)
  BY <1>0, <1>1 DEF Prepare, Goto, Settled
<1>2. CASE Reconcile(p)
  <2>1. seen[p] = record
    BY <1>2 DEF Reconcile, LedgerInv, LedgerBarrier, NewestReads
  <2>2. ~Claimed(current)
    <3> SUFFICES ASSUME Claimed(current) PROVE FALSE
      OBVIOUS
    <3>1. Claims(current) \cap ActiveBranch # {}
      <4>1. Cardinality({}) = 0
        BY FS_EmptySet
      <4> QED
        BY <4>1 DEF Claimed
    <3>2. /\ file # <<>> /\ On(branch[Len(file)], current)
      BY <3>1 DEF ActiveBranch, Claims, On
    <3>3. Len(file) \in synced..Len(file)
      BY Rooting
    <3> QED
      BY <3>2, <3>3 DEF LedgerInv, LedgerBarrier, Branches, Stops
  <2> QED
    BY <1>0, <1>2, <2>1, <2>2 DEF Reconcile, Require, Goto, Throw, Settled
<1> QED
  BY <1>1, <1>2

\* Nobody gets past reconciliation, and no turn begins, while a turn is behind.
LEMMA BehindStops ==
  ASSUME LedgerInv, Behind, NEW p \in Process,
         \/ WorkerStep(p) \/ CommandStep(p) \/ Claim(p)
         \/ Acquire(p) \/ LoseApp(p) \/ Drain(p) \/ Crash(p),
         ~Turn(p), ~Mark(p)
  PROVE  /\ turnEvent' # 0 => told[turnEvent'] # -1
         /\ turnEvent' = 0 => \A q \in Process : Newest(q)' => pc'[q] \notin Settled
<1>t. TypeOK /\ pc \in [Process -> Step]
  BY DEF LedgerInv, AbortInv, TypeOK
<1>a. /\ turnEvent # 0 => told[turnEvent] # -1
      /\ turnEvent = 0 => \A q \in Process : Newest(q) => pc[q] \notin Settled
      /\ ~OpenRecord
  BY DEF LedgerInv, LedgerBarrier, Branches, Stops, OpenRecord
<1>1. CASE Claim(p) \/ (ClaimRepair(p) /\ RepairGrant(p)) \/ (ClaimIntent(p) /\ RepairGrant(p))
  <2>1. /\ turnEvent' = turnEvent /\ pc'[p] \in {"open", "prove", "digest"}
    BY <1>t, <1>1, GrantLeaves
  <2>2. \A q \in Process : Newest(q)' => q = p
    BY <1>1, NewestGranted DEF LedgerInv
  <2> QED
    BY <1>a, <2>1, <2>2 DEF Settled
<1>2. ASSUME ~(Claim(p) \/ (ClaimRepair(p) /\ RepairGrant(p)) \/ (ClaimIntent(p) /\ RepairGrant(p)))
      PROVE  /\ turnEvent' # 0 => told[turnEvent'] # -1
             /\ turnEvent' = 0 => \A q \in Process : Newest(q)' => pc'[q] \notin Settled
  <2>0. \A q \in Process : Newest(q)' => Newest(q) /\ (q # p => pc'[q] = pc[q])
    BY <1>2, NewestStays DEF LedgerInv
  <2>1. CASE Complete(p)
    <3>1. turnEvent' = 0 /\ pc'[p] = "idle" /\ Work(ep[p], ce[p], ev[p]) /\ pc[p] = "complete"
      BY <1>t, <2>1 DEF Complete, CompleteEvent, Stop
    <3>2. \A q \in Process : Newest(q) => q = p
      BY <3>1, WorkIsNewest DEF LedgerInv
    <3> QED
      BY <2>0, <3>1, <3>2 DEF Settled
  <2>2. ~BeginTurn(p)
    <3> SUFFICES ASSUME BeginTurn(p) PROVE FALSE
      OBVIOUS
    <3>1. Work(ep[p], ce[p], ev[p]) /\ turnEvent = 0 /\ pc[p] = "begin"
      BY DEF BeginTurn, BeginTurnMark
    <3>2. Newest(p)
      BY <3>1, WorkIsNewest DEF LedgerInv
    <3> QED
      BY <1>a, <3>1, <3>2 DEF Settled
  <2>3. CASE ~Complete(p)
    <3>1. turnEvent' = turnEvent
      BY <1>t, <2>2, <2>3, TurnsUntouched
    <3>2. ASSUME turnEvent = 0, NEW q \in Process, Newest(q)', pc'[q] \in Settled
          PROVE  FALSE
      <4>1. Newest(q) /\ pc[q] \notin Settled
        BY <1>a, <2>0, <3>2
      <4>2. q = p
        BY <2>0, <3>2, <4>1
      <4>3. Prepare(p) \/ Reconcile(p) \/ Transition(p)
        BY <1>t, <1>2, <3>2, <4>1, <4>2, SettledFrom
      <4>4. ~Transition(p)
        BY <1>a, TransitionShape
      <4> QED
        BY <3>2, <4>1, <4>2, <4>3, <4>4, BehindStopsHere
    <3> QED
      BY <1>a, <3>1, <3>2
  <2> QED
    BY <2>1, <2>3
<1> QED
  BY <1>1, <1>2

\* Whatever step is taken, the branches go on from what was restored and told.
LEMMA BranchesKeep ==
  ASSUME LedgerInv, [Next]_vars
  PROVE  Branches'
<1>t. TypeOK /\ pc \in [Process -> Step]
  BY DEF LedgerInv, AbortInv, TypeOK
<1>1. ASSUME NEW p \in Process,
             \/ WorkerStep(p) \/ CommandStep(p) \/ Claim(p)
             \/ Acquire(p) \/ LoseApp(p) \/ Drain(p) \/ Crash(p)
      PROVE  Branches'
  <2>1. CASE Turn(p) \/ Mark(p) \/ Record(p) \/ Transition(p)
    BY <2>1, BranchesTurn, BranchesMark, BranchesRecord, BranchesTransition
  <2>2. CASE Abort(p) /\ record' # record
    BY <2>2, BranchesAbort
  <2>3. CASE AppendEntry(p) /\ AppendEnd(p, <<"compaction", seen[p].id>>)
    BY <2>3, BranchesAppendEntry
  <2>4. CASE ~(\/ Turn(p) \/ Mark(p) \/ Record(p) \/ Transition(p)
               \/ Abort(p) /\ record' # record
               \/ AppendEntry(p) /\ AppendEnd(p, <<"compaction", seen[p].id>>))
    <3>1. UNCHANGED <<file, branch>> /\ synced' \in {synced, Len(file)}
      BY <1>t, <1>1, <2>4, BranchShape, SyncShape
    <3>2. UNCHANGED <<record, current>>
      <4>1. CASE Abort(p)
        BY <2>4, <4>1 DEF Abort, historyVars
      <4> QED
        BY <1>t, <1>1, <2>4, <4>1, OthersWriteNothing
    <3>3. \A q \in Process : Runner(q)' =>
            (Runner(q) /\ loaded[q] \subseteq loaded'[q]) \/ loaded'[q] = ActiveBranch
      BY <1>1, RunnerFrom
    <3>4. \A q \in Process : pc'[q] = "mark" =>
            pc[q] = "mark" /\ ev'[q] = ev[q] /\ loaded'[q] = loaded[q]
      BY <1>1, <2>4, MarkFrom
    <3>5. /\ UNCHANGED <<told, due>>
          /\ turnEvent' = 0 \/ Marked(turnEvent)' => turnEvent = 0 \/ Marked(turnEvent)
          /\ \A d \in Event : d <= cursor' => d <= cursor \/ Marked(d)
      <4>1. CASE Complete(p)
        <5>1. /\ Marked(ev[p]) /\ ev[p] = cursor + 1 /\ cursor' = ev[p] /\ turnEvent' = 0
              /\ UNCHANGED <<told, due>>
          <6>1. /\ Marked(ev[p]) /\ Work(ep[p], ce[p], ev[p]) /\ cursor' = ev[p] /\ turnEvent' = 0
                /\ UNCHANGED <<told, due>>
            BY <4>1 DEF Complete, CompleteEvent, historyVars
          <6> QED
            BY <6>1 DEF Work, LedgerInv, LedgerBarrier, Turning
        <5>2. turnEvent # 0 => Marked(turnEvent)
          BY <5>1 DEF LedgerInv, LedgerBarrier, Turning
        <5>3. \A d \in Event : d <= cursor + 1 => d <= cursor \/ d = cursor + 1
          BY <1>t, TurnTyped
        <5> QED
          BY <5>1, <5>2, <5>3
      <4>2. CASE BeginTurn(p)
        BY <4>2 DEF BeginTurn, BeginTurnMark, historyVars
      <4>3. CASE ~Complete(p) /\ ~BeginTurn(p)
        <5>1. UNCHANGED <<turnEvent, cursor, told, due>>
          BY <1>t, <1>1, <2>4, <4>3, TurnsUntouched
        <5> QED
          BY <3>1, <5>1 DEF Marked
      <4> QED
        BY <4>1, <4>2, <4>3
    <3>6. Behind =>
            /\ turnEvent' # 0 => told[turnEvent'] # -1
            /\ turnEvent' = 0 => \A q \in Process : Newest(q)' => pc'[q] \notin Settled
      BY <1>1, <2>4, BehindStops
    <3> QED
      BY <3>1, <3>2, <3>3, <3>4, <3>5, <3>6, BranchesAtRest
  <2> QED
    BY <2>1, <2>2, <2>3, <2>4
<1>2. CASE ExpireApp \/ ExpireLease \/ UNCHANGED vars
  <2>1. /\ UNCHANGED <<record, file, branch, loaded, synced, current, told, due, turnEvent, cursor, pc, ev>>
        /\ UNCHANGED <<ce, leaseEpoch>>
    BY <1>2, ExpiryLeaves DEF ExpireApp, ExpireLease, vars, diskVars, procVars
  <2>2. /\ \A q \in Process : (Runner(q)' <=> Runner(q)) /\ (Newest(q)' <=> Newest(q))
        /\ Marked(turnEvent)' <=> Marked(turnEvent)
    BY <2>1 DEF Runner, Newest, Marked
  <2>3. Behind =>
            /\ turnEvent' # 0 => told[turnEvent'] # -1
            /\ turnEvent' = 0 => \A q \in Process : Newest(q)' => pc'[q] \notin Settled
    BY <2>1, <2>2 DEF LedgerInv, LedgerBarrier, Branches, Stops
  <2> QED
    BY <2>1, <2>2, <2>3, BranchesAtRest
<1>3. CASE HostCrash
  BY <1>3, BranchesCrash
<1> QED
  BY <1>1, <1>2, <1>3 DEF Next


-----------------------------------------------------------------------------
(* The theorem *)

\* The invariant holds at first, also of a chat an older controller left behind.
LEMMA LedgerInit == Init => LedgerBarrier
<1> SUFFICES ASSUME Init PROVE LedgerBarrier
  OBVIOUS
<1>1. /\ \A p \in Process : pc[p] = "idle" /\ ce[p] = 0
      /\ current = 0 /\ turnEvent = 0 /\ ~leaseLive /\ told = due
      /\ \A e \in Event : told[e] = IF e > cursor THEN -1 ELSE 0
      /\ synced = Len(file) /\ branch = [i \in 1..Len(file) |-> 1..i]
      /\ cursor \in Nat /\ Event \subseteq Nat
  BY DEF Init, Event
<1>2. TypeOK
  BY InitTyped
<1>3. /\ Cuts
      /\ \A e \in Event : Marked(e) => e <= cursor
      /\ record.phase \in {"none", "prepared"}
      /\ OpenRecord /\ InFile(record.id) => file[Len(file)] = <<"compaction", record.id>>
  <2>1. CASE record = NoCheckpoint /\ file = <<>>
    <3>1. ~OpenRecord /\ 1..Len(file) = {} /\ record.phase = "none"
      BY <2>1 DEF OpenRecord, NoCheckpoint
    <3> QED
      BY <1>1, <3>1 DEF Cuts, Marked
  <2>2. CASE /\ cursor = 1 /\ record = LegacyCheckpoint
             /\ file \in {FirstTurn, Append(FirstTurn, <<"compaction", 1>>)}
    <3>1. OpenRecord /\ record.id = 1 /\ record.phase = "prepared"
      BY <2>2 DEF OpenRecord, LegacyCheckpoint
    <3>2. \A i \in 1..Len(file) :
             \/ i = 1 /\ file[i] = <<"turn", 1>>
             \/ i = 2 /\ file[i] = <<"marker", 1>>
             \/ i = 3 /\ file[i] = <<"compaction", 1>> /\ Len(file) = 3
      <4>1. CASE file = FirstTurn
        BY <4>1 DEF FirstTurn
      <4>2. CASE file = Append(FirstTurn, <<"compaction", 1>>)
        <5>1. /\ Len(file) = 3 /\ file[1] = <<"turn", 1>> /\ file[2] = <<"marker", 1>>
              /\ file[3] = <<"compaction", 1>>
          BY <4>2 DEF FirstTurn
        <5> QED
          BY <5>1
      <4> QED
        BY <2>2, <4>1, <4>2
    <3>3. Cuts
      BY <1>1, <3>1, <3>2 DEF Cuts, IsCut
    <3>4. \A e \in Event : Marked(e) => e <= cursor
      BY <2>2, <3>2 DEF Marked
    <3>5. InFile(record.id) => file[Len(file)] = <<"compaction", record.id>>
      BY <3>1, <3>2 DEF InFile
    <3> QED
      BY <3>1, <3>3, <3>4, <3>5
  <2> QED
    BY <2>1, <2>2 DEF Init
<1>4. Appenders /\ NewestReads /\ Turning
  BY <1>1, <1>3 DEF Appenders, NewestReads, Turning, Newest, Begun
<1>5. Branches
  <2>1. \A i \in 1..Len(file) : i \in branch[i]
    BY <1>1
  <2>2. ~Behind /\ \A e \in Event : told[e] <= 0
    BY <1>1 DEF Behind
  <2>3. Ending
    BY <1>1, <1>3, <2>1 DEF Ending
  <2>4. Anchored
    <3>1. \A e \in Event : told[e] \in {-1, 0}
      BY <1>1
    <3>2. \A e \in Event : told[e] <= current /\ ~(told[e] > 0)
      BY <1>1, <3>1
    <3>3. \A p \in Process : pc[p] # "mark"
      BY <1>1
    <3> QED
      BY <3>2, <3>3 DEF Anchored, Kept
  <2> QED
    BY <1>1, <2>2, <2>3, <2>4 DEF Branches, Lineage, Stops
<1> QED
  BY <1>3, <1>4, <1>5 DEF LedgerBarrier

\* A turn that runs is the first since the last one restored, or falls behind it.
LEMMA TurnImplements ==
  ASSUME LedgerInv, NEW p \in Process, Turn(p)
  PROVE  Ledger!Turn(ev[p]) /\ ev[p] \in Event
<1>1. /\ ev[p] = cursor + 1 /\ ev[p] \in Event /\ told[ev[p]] = -1 /\ turnEvent # 0
  BY TurnKeeps
<1>2. /\ told' = [told EXCEPT ![ev[p]] = Context(loaded[p])]
      /\ due' = [due EXCEPT ![ev[p]] = current]
      /\ current' = current /\ pc[p] = "turn"
  BY DEF Turn
<1>3. /\ Context(loaded[p]) \in 0..current
      /\ \A d \in Event : told[d] <= Context(loaded[p])
      /\ ~Behind
  BY <1>2, TurnFacts
<1>4. ASSUME NEW d \in ev[p]+1 .. MaxSeq
      PROVE  told[d] = -1
  <2>1. /\ cursor \in Nat /\ d \in Event /\ d > cursor + 1
    BY <1>1, TurnTyped, StoreAssumption DEF LedgerInv, AbortInv, Event
  <2>2. turnEvent = cursor + 1
    BY <1>1 DEF LedgerInv, LedgerBarrier, Turning
  <2> QED
    BY <2>1, <2>2 DEF LedgerInv, LedgerBarrier, Turning
<1> QED
  BY <1>1, <1>2, <1>3, <1>4 DEF Ledger!Turn, Ledger!Behind, Behind, Ledger!Event, Event

\* A step of a process is one of the ledger, or leaves it alone.
LEMMA StepImplements ==
  ASSUME LedgerInv, TypeOK', NEW p \in Process,
         \/ WorkerStep(p) \/ CommandStep(p) \/ Claim(p)
         \/ Acquire(p) \/ LoseApp(p) \/ Drain(p) \/ Crash(p)
  PROVE  Ledger!Next \/ UNCHANGED <<current, told, due>>
<1>1. CASE Transition(p)
  <2>1. /\ current' = current \/ (current' = record.id /\ OpenRecord)
        /\ UNCHANGED <<told, due>> /\ OpenRecord
    BY <1>1, TransitionShape
  <2>2. CASE current' # current
    <3>1. current < current' /\ current' \in 0..MaxCheckpoints /\ current \in 0..MaxCheckpoints
      BY <2>1, <2>2 DEF LedgerInv, LedgerBarrier, Cuts, AbortInv, TypeOK
    <3>2. current' \in current+1 .. MaxCheckpoints
      BY <3>1, CheckpointAssumption
    <3>3. ~Behind
      BY <2>1 DEF OpenRecord, LedgerInv, LedgerBarrier, Branches, Stops
    <3> QED
      BY <2>1, <3>2, <3>3 DEF Ledger!Next, Ledger!Replace, Ledger!Behind, Behind
  <2> QED
    BY <2>1, <2>2
<1>2. CASE Turn(p)
  BY <1>2, TurnImplements DEF Ledger!Next, Ledger!Event, Event
<1>3. CASE BeginTurn(p) \/ Mark(p) \/ Complete(p) \/ Record(p)
  BY <1>3 DEF BeginTurn, Mark, Complete, Record, historyVars
<1>4. CASE Abort(p)
  BY <1>4 DEF Abort, historyVars
<1>5. CASE ~(\/ Transition(p) \/ Turn(p) \/ BeginTurn(p) \/ Mark(p) \/ Complete(p)
             \/ Record(p) \/ Abort(p))
  BY <1>5, TurnsUntouched, OthersWriteNothing DEF LedgerInv, AbortInv
<1> QED
  BY <1>1, <1>2, <1>3, <1>4, <1>5

\* Compaction implements its ledger: the context moves from one restored
\* checkpoint to a later one, and every turn runs once, in sequence, on the one
\* restored last or on one that no turn before it was past; if it is not the last
\* restored, no turn and no checkpoint follows, whatever controllers, commands
\* and faults do.
THEOREM ContextImplemented == Spec => ImplementsLedger
<1>1. Init => Ledger!Init
  <2> SUFFICES ASSUME Init PROVE Ledger!Init
    OBVIOUS
  <2>1. cursor \in 0..MaxSeq
    BY StoreAssumption DEF Init
  <2> QED
    BY <2>1 DEF Init, Ledger!Init, Ledger!Event, Event
<1>2. ASSUME LedgerInv, TypeOK', [Next]_vars
      PROVE  LedgerBarrier' /\ [Ledger!Next]_<<current, told, due>>
  <2>1. LedgerBarrier'
    BY <1>2, CutsKeep, AppendersKeep, NewestReadsKeep, TurningKeep, BranchesKeep
       DEF LedgerBarrier
  <2>2. Ledger!Next \/ UNCHANGED <<current, told, due>>
    <3>1. CASE ExpireApp \/ ExpireLease \/ UNCHANGED vars
      BY <3>1, ExpiryLeaves
    <3>2. CASE HostCrash
      BY <3>2 DEF HostCrash, historyVars
    <3> QED
      BY <1>2, <3>1, <3>2, StepImplements DEF Next
  <2> QED
    BY <2>1, <2>2
<1>3. /\ TypeOK /\ TypeOK' /\ CheckpointBarrier /\ AbortBarrier /\ LedgerBarrier /\ [Next]_vars
         => LedgerBarrier' /\ [Ledger!Next]_<<current, told, due>>
  BY <1>2 DEF LedgerInv, AbortInv
<1> QED
  BY <1>1, <1>3, LedgerInit, TypeCorrect, RestoredDurable, AbortedNeverComes, PTL
     DEF Spec, ImplementsLedger, Ledger!Spec

-----------------------------------------------------------------------------
(* What the ledger is good for *)

\* The agent never forgets backwards: a turn sees no older checkpoint than any
\* turn before it did, and none that was not restored by then; only the last turn
\* may see less than what was restored, and nothing is restored after it.
ContextsAdvance ==
  /\ \A d, e \in Event : d < e /\ told[e] # -1 => told[d] <= told[e] /\ told[d] = due[d]
  /\ \A e \in Event : told[e] <= due[e] /\ due[e] <= current
  /\ \A e \in Event : told[e] < due[e] => due[e] = current

\* Shown of the ledger's two actions alone, and carried over by the refinement:
\* no turn is ever given a history that an earlier turn was already past,
\* whichever worker, recovery or stalled writer prepared it.
THEOREM ContextsOrdered == Spec => []ContextsAdvance
<1>1. Init => ContextsAdvance
  <2> SUFFICES ASSUME Init PROVE ContextsAdvance
    OBVIOUS
  <2>1. /\ told = [e \in Event |-> IF e > cursor THEN -1 ELSE 0] /\ due = told /\ current = 0
        /\ cursor \in Nat /\ Event \subseteq Nat
    BY DEF Init, Event
  <2> QED
    BY <2>1 DEF ContextsAdvance
<1>2. ASSUME TypeOK, ContextsAdvance, [Ledger!Next]_<<current, told, due>>
      PROVE  ContextsAdvance'
  <2>0. /\ told \in [Event -> -1..MaxCheckpoints] /\ due \in [Event -> -1..MaxCheckpoints]
        /\ current \in 0..MaxCheckpoints
        /\ MaxCheckpoints \in Nat /\ MaxSeq \in Nat /\ Event = 1..MaxSeq
    BY <1>2, CheckpointAssumption, StoreAssumption DEF TypeOK, Event
  <2>1. CASE Ledger!Replace
    <3>1. current' > current /\ told' = told /\ due' = due /\ told = due /\ current' \in Int
      BY <2>0, <2>1 DEF Ledger!Replace, Ledger!Behind
    <3> QED
      BY <1>2, <2>0, <3>1 DEF ContextsAdvance
  <2>2. ASSUME NEW e \in Event, Ledger!Turn(e)
        PROVE  ContextsAdvance'
    <3>1. PICK c \in 0..current :
            (\A d \in Event : told[d] <= c) /\ told' = [told EXCEPT ![e] = c]
      BY <2>2 DEF Ledger!Turn, Ledger!Event, Event
    <3>2. /\ due' = [due EXCEPT ![e] = current] /\ current' = current /\ told = due
          /\ \A d \in e+1 .. MaxSeq : told[d] = -1
      BY <2>2 DEF Ledger!Turn, Ledger!Behind
    <3>3. /\ told'[e] = c /\ due'[e] = current
          /\ \A d \in Event : d # e => told'[d] = told[d] /\ due'[d] = told[d]
      BY <2>0, <3>1, <3>2
    <3>4. ASSUME NEW d \in Event, NEW f \in Event, d < f, told'[f] # -1
          PROVE  told'[d] <= told'[f] /\ told'[d] = due'[d]
      <4>1. CASE f = e
        BY <2>0, <3>1, <3>3, <3>4, <4>1
      <4>2. CASE f # e
        <5>1. told'[f] = told[f] /\ d # e
          BY <2>0, <3>2, <3>3, <3>4, <4>2
        <5> QED
          BY <1>2, <2>0, <3>2, <3>3, <3>4, <5>1 DEF ContextsAdvance
      <4> QED
        BY <4>1, <4>2
    <3>5. \A d \in Event : /\ told'[d] <= due'[d] /\ due'[d] <= current'
                           /\ told'[d] < due'[d] => due'[d] = current'
      BY <1>2, <2>0, <3>1, <3>2, <3>3 DEF ContextsAdvance
    <3> QED
      BY <3>4, <3>5 DEF ContextsAdvance
  <2>3. CASE UNCHANGED <<current, told, due>>
    BY <1>2, <2>3 DEF ContextsAdvance
  <2> QED
    BY <1>2, <2>1, <2>2, <2>3 DEF Ledger!Next, Ledger!Event, Event
<1>3. TypeOK /\ ContextsAdvance /\ [Ledger!Next]_<<current, told, due>> => ContextsAdvance'
  BY <1>2
<1> QED
  BY <1>1, <1>3, ContextImplemented, TypeCorrect, PTL DEF Spec, ImplementsLedger, Ledger!Spec
=============================================================================
