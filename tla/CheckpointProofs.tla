-------------------------- MODULE CheckpointProofs --------------------------
(* Theorems about Checkpoint, for every value of its constants. *)
EXTENDS Checkpoint, FiniteSetTheorems, SequenceTheorems, WellFoundedInduction, TLAPS

-----------------------------------------------------------------------------
(* The inductive invariants *)

\* Checkpoint c has an entry in the file, or in the part that is on disk.
InFile(c) == \E i \in 1..Len(file) : file[i] = <<"compaction", c>>
OnDisk(c) == \E i \in 1..synced : file[i] = <<"compaction", c>>

\* Process p has drawn a checkpoint and not yet appended its entry.
Holds(p) == pc[p] \in {"record", "armed", "append"}

OneEntry ==
  \A i, j \in 1..Len(file) : file[i][1] = "compaction" /\ file[i] = file[j] => i = j
DrawnBefore ==
  /\ record.id <= drawn
  /\ \A p \in Process : seen[p].id <= drawn
  /\ \A i \in 1..Len(file) : file[i][1] = "compaction" => file[i][2] <= drawn
HeldApart ==
  \A p \in Process : Holds(p) =>
    /\ seen[p].phase = "prepared" /\ seen[p].bound
    /\ ~InFile(seen[p].id)
    /\ \A q \in Process : Holds(q) /\ seen[q].id = seen[p].id => q = p
WorkersDurable ==
  \A p \in Process :
    /\ pc[p] = "appended" => InFile(seen[p].id)
    /\ pc[p] \in {"advance", "compacted", "verify"} => OnDisk(seen[p].id)
RecordDurable == record.phase \in {"compacted", "restored"} => OnDisk(record.id)

\* Why RestoredIsDurable holds, whatever the leases do: a checkpoint is drawn by
\* one worker, a worker that has not appended it yet holds one nobody else holds
\* and that is not in the file, so it is there at most once; and every worker
\* about to move the record has synced an entry that names it.
CheckpointBarrier ==
  OneEntry /\ DrawnBefore /\ HeldApart /\ WorkersDurable /\ RecordDurable

\* The worker that prepared the open record has not appended its entry yet.
Pending(q) ==
  pc[q] \in {"armed", "append"} /\ record.phase = "prepared" /\ seen[q].id = record.id

\* Process p holds the newest chat epoch, whether or not its leases have run out.
Newest(p) == ce[p] = leaseEpoch /\ ce[p] # 0

CommandSteps == {"idle", "consume", "claim", "prove", "proveAgain", "abort", "giveBack",
                 "intend", "digest", "release", "publish", "leave"}
WorkerSteps == {"open", "prepare", "reconcile", "advance", "decide", "capture", "record", "armed",
                "append", "appended", "compacted", "verify", "begin", "turn", "mark", "complete",
                "catch"}

OwnEpochs ==
  /\ \A p \in Process : ce[p] <= leaseEpoch
  /\ \A p, q \in Process : ce[p] = ce[q] /\ ce[p] # 0 => p = q
  /\ \A p \in Process : pc[p] \notin {"idle", "consume", "claim", "intend", "leave"} => ce[p] # 0
NewestPauses ==
  \A p \in Process : Newest(p) =>
    /\ pc[p] \in WorkerSteps => pause = "none"
    /\ pc[p] \in {"prove", "proveAgain", "abort"} => pause = "compaction_failed"
PendingIsSafe ==
  \A q \in Process : Pending(q) =>
    /\ pause # "compaction_failed"
    /\ \A r \in Process : Newest(r) /\ r # q =>
         \/ pc[r] \in CommandSteps \cup {"open", "prepare", "complete"}
         \/ pc[r] = "reconcile" /\ seen[r].id = record.id
         \/ pc[r] = "catch" /\ reason[r] # "compaction_failed"
AbortIsSafe ==
  /\ \A p \in Process : pc[p] = "record" => seen[p].id # record.id
  /\ \A p \in Process :
       pc[p] = "abort" /\ Newest(p) /\ seen[p] = record /\ record.phase = "prepared" =>
         ~InFile(record.id)
  /\ record.phase = "aborted" =>
       /\ ~InFile(record.id)
       /\ \A p \in Process : pc[p] \in {"armed", "append"} => seen[p].id # record.id

\* Why AbortedHasNoEntry holds: a worker suspended before its append blocks the
\* repair command without holding anything, because the only pause the command
\* accepts is one that worker would have had to set itself; whoever took over
\* finds no entry and pauses for another reason.
AbortBarrier == OwnEpochs /\ NewestPauses /\ PendingIsSafe /\ AbortIsSafe

\* A record of an older controller that nobody has settled yet.
LegacyOpen == record.phase = "prepared" /\ ~record.bound

OwnIntents == issued \cup {NoDigest, OldDigest}

\* Why LegacyAbortAuthorized holds: while such a record is open no worker runs,
\* so the file stays what the operator saw; what the repair command carries is an
\* intent that was published, or none; and at the abort it fits record and file.
LegacyBarrier ==
  /\ LegacyOpen =>
       /\ record.id # 0 /\ pause = "compaction_failed"
       /\ \A p \in Process : pc[p] \in CommandSteps
  /\ manifest \in OwnIntents
  /\ \A p \in Process :
       /\ pc[p] \in {"release", "publish", "leave"} \/ want[p] \in OwnIntents
       /\ pc[p] = "abort" /\ LegacyOpen /\ seen[p] = record =>
            file = record.gen /\ want[p] = DigestOf(record, file)

-----------------------------------------------------------------------------
(* Type correctness *)

\* A set of positions that is not empty has a last one: what follows a position
\* shrinks strictly with it, and finite sets cannot shrink for ever.
LEMMA LastPosition ==
  ASSUME NEW n \in Nat, NEW S \in SUBSET (1..n), S # {}
  PROVE  \E i \in S : \A j \in S : j <= i
<1> DEFINE After(i) == i+1 .. n
           T == {After(i) : i \in S}
<1>1. IsFiniteSet(1..n)
  BY FS_Interval
<1>2. FiniteSubsetsOf(1..n) = SUBSET (1..n)
  BY <1>1, FS_FiniteSubsetsOfFinite
<1>3. T \subseteq SUBSET (1..n) /\ T # {}
  <2>1. ASSUME NEW i \in S
        PROVE  After(i) \in SUBSET (1..n)
    OBVIOUS
  <2>2. PICK k \in S : TRUE
    OBVIOUS
  <2>3. After(k) \in T
    OBVIOUS
  <2> HIDE DEF After
  <2> QED
    BY <2>1, <2>3
<1>4. PICK X \in T : \A Y \in T : <<Y, X>> \notin StrictSubsetOrdering(1..n)
  <2> HIDE DEF T
  <2> QED
    BY <1>2, <1>3, FS_StrictSubsetOrderingWellFounded, WFMin
<1>5. PICK i \in S : X = After(i)
  OBVIOUS
<1>6. ASSUME NEW j \in S, j > i
      PROVE  FALSE
  <2>1. i + 1 \in After(i) /\ i + 1 \notin After(j) /\ After(j) \subseteq After(i)
    BY <1>6
  <2>2. After(j) \in T
    OBVIOUS
  <2>3. <<After(j), X>> \in StrictSubsetOrdering(1..n)
    BY <1>3, <1>5, <2>1, <2>2 DEF StrictSubsetOrdering
  <2> QED
    BY <1>4, <2>2, <2>3
<1> QED
  BY <1>6

\* The context on a branch is a checkpoint, or none.
LEMMA ContextTyped ==
  ASSUME file \in Seq(Entry), NEW b \in SUBSET (1..Len(file))
  PROVE  Context(b) \in 0..MaxCheckpoints
<1> DEFINE cuts == CutsOf(b)
<1>1. CASE cuts = {}
  BY <1>1, CheckpointAssumption DEF Context
<1>2. CASE cuts # {}
  <2>1. Len(file) \in Nat /\ cuts \in SUBSET (1..Len(file))
    BY DEF CutsOf
  <2>2. \E i \in cuts : \A j \in cuts : j <= i
    <3> HIDE DEF cuts
    <3> QED
      BY <1>2, <2>1, LastPosition
  <2>3. PICK i \in cuts : Context(b) = file[i][2]
    BY <1>2, <2>2 DEF Context
  <2>4. file[i] \in Entry /\ file[i][1] = "compaction"
    BY <2>1, <2>3 DEF CutsOf
  <2> QED
    BY <2>3, <2>4 DEF Entry
<1> QED
  BY <1>1, <1>2

\* An appended entry keeps the file a sequence, and the mark inside it.
LEMMA AppendTyped ==
  ASSUME NEW x \in Entry, file \in Seq(Entry), synced \in 0..Len(file)
  PROVE  Append(file, x) \in Seq(Entry) /\ synced \in 0..Len(Append(file, x))
OBVIOUS

\* The branch a manager opened now would be on is one of the file.
LEMMA ActiveTyped ==
  ASSUME file \in Seq(Entry), TreeTypeOK
  PROVE  ActiveBranch \in SUBSET (1..Len(file))
<1>1. Len(file) \in Nat /\ (file # <<>> => Len(file) \in 1..Len(file))
  BY EmptySeq
<1> QED
  BY <1>1 DEF ActiveBranch, TreeTypeOK

\* Managers are closed or opened, and the file is left alone.
LEMMA LoadedTyped ==
  ASSUME file \in Seq(Entry), TreeTypeOK, UNCHANGED <<file, branch>>, NEW p \in Process,
         loaded' \in {loaded, [loaded EXCEPT ![p] = {}], [loaded EXCEPT ![p] = ActiveBranch]}
  PROVE  TreeTypeOK'
BY ActiveTyped DEF TreeTypeOK

\* An entry is appended below the branch of p.
LEMMA AppendTree ==
  ASSUME file \in Seq(Entry), TreeTypeOK, NEW p \in Process, NEW x \in Entry, AppendEnd(p, x)
  PROVE  TreeTypeOK'
<1>1. /\ Len(file) \in Nat /\ Len(file') = Len(file) + 1
      /\ 1..Len(file) \subseteq 1..Len(file')
      /\ Len(file) + 1 \in 1..Len(file')
  BY AppendProperties DEF AppendEnd
<1>2. loaded' \in [Process -> SUBSET (1..Len(file'))]
  BY <1>1 DEF AppendEnd, TreeTypeOK
<1>3. loaded'[p] \in SUBSET Nat
  BY <1>1, <1>2
<1>4. /\ branch' \in Seq(SUBSET Nat) /\ Len(branch') = Len(file')
      /\ branch'[Len(file) + 1] = loaded'[p]
      /\ \A i \in 1..Len(file) : branch'[i] = branch[i]
  BY <1>1, <1>3, AppendProperties DEF AppendEnd, TreeTypeOK
<1>5. ASSUME NEW i \in 1..Len(file')
      PROVE  branch'[i] \subseteq 1..i
  <2>1. CASE i = Len(file) + 1
    BY <1>1, <1>2, <1>4, <2>1
  <2>2. CASE i \in 1..Len(file)
    BY <1>4, <2>2 DEF TreeTypeOK
  <2> QED
    BY <1>1, <2>1, <2>2
<1> QED
  BY <1>2, <1>4, <1>5 DEF TreeTypeOK

\* A digest of a record and a history is one of Digest.
LEMMA DigestTyped ==
  ASSUME NEW r \in CheckpointRecord, NEW g \in Seq(Entry)
  PROVE  DigestOf(r, g) \in Digest
BY DEF DigestOf, Digest, CheckpointRecord, Event

\* The two constant digests are of Digest.
LEMMA NoDigestTyped == NoDigest \in Digest /\ OldDigest \in Digest
<1>1. <<>> \in Seq(Entry)
  OBVIOUS
<1>2. NoDigest \in Digest
  BY <1>1 DEF NoDigest, Digest
<1>3. OldDigest = [id |-> 0, event |-> 1, gen |-> <<>>]
  BY DEF OldDigest, NoDigest
<1> QED
  BY <1>1, <1>2, <1>3 DEF Digest

\* The record before any checkpoint is one.
LEMMA NoCheckpointTyped == NoCheckpoint \in CheckpointRecord
BY CheckpointAssumption, StoreAssumption DEF NoCheckpoint, CheckpointRecord, Phases

\* The initial state has its types.
LEMMA InitTyped == Init => TypeOK
<1> SUFFICES ASSUME Init PROVE TypeOK
  OBVIOUS
<1>1. /\ <<>> \in Seq(Entry)
      /\ 1 < MaxSeq =>
           /\ FirstTurn \in Seq(Entry) /\ Append(FirstTurn, <<"compaction", 1>>) \in Seq(Entry)
           /\ LegacyCheckpoint \in CheckpointRecord
  <2>1. <<>> \in Seq(Entry) /\ <<"compaction", 1>> \in Entry
    BY CheckpointAssumption DEF Entry
  <2>2. ASSUME 1 < MaxSeq
        PROVE  FirstTurn \in Seq(Entry)
    BY <2>2, StoreAssumption DEF FirstTurn, Entry
  <2>3. ASSUME 1 < MaxSeq
        PROVE  LegacyCheckpoint \in CheckpointRecord
    BY <2>2, <2>3, CheckpointAssumption, StoreAssumption
       DEF LegacyCheckpoint, CheckpointRecord, Phases
  <2> QED
    BY <2>1, <2>2, <2>3
<1>2. /\ record \in CheckpointRecord /\ file \in Seq(Entry) /\ manifest \in Digest
      /\ drawn \in 0..MaxCheckpoints /\ session \in Nat /\ pause \in Pauses \cup {"none"}
      /\ cursor \in 0..MaxSeq
  <2>1. CASE cursor = 0 /\ record = NoCheckpoint /\ file = <<>> /\ pause = "none" /\ session = 0
             /\ drawn = 0 /\ manifest = NoDigest
    BY <1>1, <2>1, NoCheckpointTyped, NoDigestTyped, CheckpointAssumption, StoreAssumption
  <2>2. CASE /\ 1 < MaxSeq /\ cursor = 1 /\ record = LegacyCheckpoint
             /\ file \in {FirstTurn, Append(FirstTurn, <<"compaction", 1>>)}
             /\ pause = "compaction_failed" /\ session = 1
             /\ drawn = 1 /\ manifest \in {NoDigest, OldDigest}
    <3>1. 1 \in 0..MaxCheckpoints /\ 1 \in 0..MaxSeq
      BY <2>2, CheckpointAssumption, StoreAssumption
    <3>2. file \in Seq(Entry) /\ manifest \in Digest /\ record \in CheckpointRecord
      BY <1>1, <2>2, NoDigestTyped
    <3> QED
      BY <2>2, <3>1, <3>2 DEF Pauses
  <2> QED
    BY <2>1, <2>2 DEF Init
<1>3. synced \in 0..Len(file) /\ told \in [Event -> -1..MaxCheckpoints] /\ due = told
  BY <1>2, CheckpointAssumption DEF Init
<1>4. StoreTypeOK
  <2>1. admitted \in SUBSET Event
    BY DEF Init
  <2>2. tools \in [Send -> {"none", "attempting", "confirmed", "uncertain"}]
    BY DEF Init
  <2>3. cursor \in Event \cup {0}
    BY <1>2, StoreAssumption DEF Event
  <2>4. /\ appEpoch = 0 /\ appLive = FALSE /\ leaseEpoch = 0 /\ leaseApp = 0 /\ leaseEvent = 0
        /\ leaseLive = FALSE /\ gap = "none" /\ turnEvent = 0
    BY DEF Init
  <2> QED
    BY <1>2, <2>1, <2>2, <2>3, <2>4 DEF StoreTypeOK
<1>5. TreeTypeOK
  <2>1. branch = [i \in 1..Len(file) |-> 1..i] /\ loaded = [p \in Process |-> {}] /\ Len(file) \in Nat
    BY <1>2 DEF Init
  <2>2. branch \in Seq(SUBSET Nat) /\ Len(branch) = Len(file)
    BY <2>1
  <2> QED
    BY <2>1, <2>2 DEF TreeTypeOK
<1> QED
  BY <1>2, <1>3, <1>4, <1>5, NoCheckpointTyped, NoDigestTyped, CheckpointAssumption, StoreAssumption
     DEF Init, TypeOK, Roles, Step

\* The fields of process p.
LEMMA ProcessTyped ==
  ASSUME TypeOK, NEW p \in Process
  PROVE  /\ ep[p] \in Nat /\ ce[p] \in Nat /\ ev[p] \in 0..MaxSeq
         /\ seen[p] \in CheckpointRecord /\ want[p] \in Digest
         /\ reason[p] \in Pauses \cup {"none"}
BY DEF TypeOK

\* A record in another phase is a record.
LEMMA PhaseTyped ==
  ASSUME NEW r \in CheckpointRecord, NEW ph \in Phases
  PROVE  [r EXCEPT !.phase = ph] \in CheckpointRecord
BY DEF CheckpointRecord

\* Stopping a process keeps the types.
LEMMA StopTyped ==
  ASSUME TypeOK, NEW p \in Process, NEW r \in Roles, Stop(p, r)
  PROVE  /\ role' \in [Process -> Roles] /\ pc' \in [Process -> Step]
         /\ ep' \in [Process -> Nat] /\ ce' \in [Process -> Nat] /\ ev' \in [Process -> 0..MaxSeq]
         /\ seen' \in [Process -> CheckpointRecord]
         /\ reason' \in [Process -> Pauses \cup {"none"}]
         /\ want' \in [Process -> Digest]
         /\ UNCHANGED <<file, branch>> => TreeTypeOK'
<1>1. UNCHANGED <<file, branch>> => TreeTypeOK'
  BY LoadedTyped DEF TypeOK, Stop
<1> QED
  BY <1>1, NoCheckpointTyped, NoDigestTyped, StoreAssumption DEF TypeOK, Stop, Step

\* A process goes to another step.
LEMMA GotoTyped ==
  ASSUME TypeOK, NEW p \in Process, NEW s \in Step, Goto(p, s)
  PROVE  pc' \in [Process -> Step] /\ reason' \in [Process -> Pauses \cup {"none"}]
BY DEF TypeOK, Goto

\* A process fails.
LEMMA ThrowTyped ==
  ASSUME TypeOK, NEW p \in Process, NEW why \in Pauses, Throw(p, why)
  PROVE  pc' \in [Process -> Step] /\ reason' \in [Process -> Pauses \cup {"none"}]
<1>1. "catch" \in Step
  BY DEF Step
<1> QED
  BY <1>1 DEF TypeOK, Throw

\* What the step of a worker does to the tree and to the managers.
LEMMA WorkerTree ==
  ASSUME TypeOK, NEW p \in Process, WorkerStep(p)
  PROVE  TreeTypeOK'
<1>0. ev[p] \in 0..MaxSeq /\ seen[p] \in CheckpointRecord /\ file \in Seq(Entry) /\ TreeTypeOK
  BY ProcessTyped DEF TypeOK
<1> USE DEF diskVars, procVars
<1>1. CASE Open(p) \/ Complete(p) \/ Pause(p) \/ GateLost(p)
  <2>1. CASE Open(p)
    BY <1>0, <2>1, LoadedTyped DEF Open
  <2>2. CASE Complete(p) \/ Pause(p) \/ GateLost(p)
    BY <1>0, <2>2, LoadedTyped DEF Complete, Pause, GateLost, Stop
  <2> QED
    BY <1>1, <2>1, <2>2
<1>2. CASE AppendEntry(p) \/ Turn(p) \/ Mark(p)
  <2>1. \/ \E x \in {<<"compaction", seen[p].id>>, <<"turn", ev[p]>>, <<"marker", ev[p]>>} : AppendEnd(p, x)
        \/ UNCHANGED <<file, branch, loaded>>
    BY <1>2 DEF AppendEntry, Turn, Mark
  <2>2. {<<"compaction", seen[p].id>>, <<"turn", ev[p]>>, <<"marker", ev[p]>>} \subseteq Entry
    BY <1>0 DEF Entry, CheckpointRecord
  <2> QED
    BY <1>0, <2>1, <2>2, AppendTree, LoadedTyped
<1>3. CASE \/ Prepare(p) \/ Reconcile(p) \/ Advance(p) \/ Decide(p) \/ Capture(p) \/ Record(p)
           \/ ArmGate(p) \/ SyncEntry(p) \/ Compacted(p) \/ Verify(p) \/ BeginTurn(p)
  <2>1. UNCHANGED <<file, branch, loaded>>
    BY <1>3 DEF Prepare, Reconcile, Advance, Decide, Capture, Record, ArmGate, SyncEntry, Compacted,
                Verify, BeginTurn
  <2> QED
    BY <1>0, <2>1, LoadedTyped
<1> QED
  BY <1>1, <1>2, <1>3 DEF WorkerStep

\* The steps of a worker.
LEMMA WorkerStepTyped ==
  ASSUME TypeOK, NEW p \in Process, WorkerStep(p)
  PROVE  TypeOK'
<1>t. TreeTypeOK'
  BY WorkerTree
<1>0. /\ ep[p] \in Nat /\ ce[p] \in Nat /\ ev[p] \in 0..MaxSeq
      /\ seen[p] \in CheckpointRecord /\ want[p] \in Digest
      /\ reason[p] \in Pauses \cup {"none"}
  BY ProcessTyped
<1>a. MaxSeq \in Nat /\ MaxCheckpoints \in Nat
  BY StoreAssumption, CheckpointAssumption
<1>b. "off" \in Roles /\ "controller" \in Roles
  BY DEF Roles
<1>c. /\ {"session_failed", "mutation_uncertain", "usage_unknown", "compaction_failed",
           "restore_failed", "preparation_failed"} \subseteq Pauses
      /\ {"complete", "prepare", "decide", "advance", "begin", "capture", "record", "append",
           "appended", "compacted", "mark"} \subseteq Step
  BY DEF Pauses, Step
<1> DEFINE Moved == pc' \in [Process -> Step] /\ reason' \in [Process -> Pauses \cup {"none"}]
<1> USE DEF TypeOK, storeVars, leaseVars, stateVars, repairVars, diskVars, procVars,
            boundVars, historyVars
<1>1. CASE Open(p)
  <2>1. Moved
    BY <1>1, <1>c, GotoTyped, ThrowTyped DEF Open
  <2>2. StoreTypeOK'
    <3>1. CASE Bind(ep[p], ce[p], ev[p], 1)
      BY <3>1 DEF Bind, StoreTypeOK
    <3>2. CASE UNCHANGED storeVars
      BY <3>2 DEF StoreTypeOK
    <3> QED
      BY <1>1, <3>1, <3>2 DEF Open
  <2> QED
    BY <1>t, <1>1, <2>1, <2>2 DEF Open, Bind
<1>2. CASE Prepare(p)
  BY <1>t, <1>2 DEF Prepare, Goto, Step, StoreTypeOK
<1>3. CASE Reconcile(p)
  <2>1. Moved
    BY <1>3, <1>c, GotoTyped, ThrowTyped DEF Reconcile, Require
  <2>2. synced' \in {synced, Len(file)} /\ UNCHANGED file
    BY <1>3 DEF Reconcile
  <2>3. synced' \in 0..Len(file')
    <3>1. Len(file) \in Nat
      BY LenProperties
    <3> QED
      BY <2>2, <3>1
  <2>4. StoreTypeOK'
    BY <1>3 DEF Reconcile, StoreTypeOK, storeVars
  <2> QED
    BY <1>t, <1>3, <2>1, <2>2, <2>3, <2>4 DEF Reconcile
<1>4. CASE Advance(p)
  <2>1. NextPhase(seen[p].phase) \in Phases
    BY DEF NextPhase, Phases
  <2>2. record' \in CheckpointRecord /\ current' \in 0..MaxCheckpoints
    BY <1>0, <1>4, <2>1, PhaseTyped DEF Advance, CheckpointTransition, CheckpointRecord
  <2> QED
    BY <1>t, <1>4, <2>2 DEF Advance, Goto, Step, StoreTypeOK
<1>5. CASE Decide(p)
  <2>1. Moved
    BY <1>5, <1>c, GotoTyped, ThrowTyped DEF Decide
  <2> QED
    BY <1>t, <1>5, <2>1 DEF Decide, StoreTypeOK
<1>6. CASE Capture(p)
  <2>1. ASSUME drawn < MaxCheckpoints, drawn' = drawn + 1
        PROVE  /\ drawn' \in 0..MaxCheckpoints
               /\ [id |-> drawn + 1, phase |-> "prepared", event |-> ev[p],
                   gen |-> file, bound |-> TRUE] \in CheckpointRecord
    BY SMTT(20), <1>0, <1>a, <2>1 DEF CheckpointRecord, Phases
  <2>9. Moved
    BY <1>6, <1>c, GotoTyped, ThrowTyped DEF Capture
  <2> QED
    BY ZenonT(30), <1>t, <1>6, <2>1, <2>9 DEF Capture, StoreTypeOK
<1>7. CASE Record(p)
  BY <1>t, <1>0, <1>7 DEF Record, CheckpointPrepare, Goto, Step, StoreTypeOK
<1>8. CASE ArmGate(p)
  BY <1>t, <1>8 DEF ArmGate, Goto, Step, StoreTypeOK
<1>9. CASE AppendEntry(p)
  <2>1. <<"compaction", seen[p].id>> \in Entry
    BY <1>0 DEF CheckpointRecord, Entry
  <2>2. file' \in Seq(Entry) /\ synced' \in 0..Len(file')
    BY <1>9, <2>1, AppendTyped DEF AppendEntry, AppendEnd
  <2>9. Moved
    BY <1>9, <1>c, GotoTyped, ThrowTyped DEF AppendEntry
  <2> QED
    BY <1>t, <1>9, <2>2, <2>9 DEF AppendEntry, AppendEnd, StoreTypeOK
<1>10. CASE SyncEntry(p)
  <2>1. Moved
    BY <1>10, <1>c, GotoTyped, ThrowTyped DEF SyncEntry
  <2>2. UNCHANGED file /\ synced' \in 0..Len(file')
    <3>1. UNCHANGED file /\ synced' \in {synced, Len(file)}
      BY <1>10 DEF SyncEntry
    <3>2. Len(file) \in Nat
      BY LenProperties
    <3> QED
      BY <3>1, <3>2
  <2>3. StoreTypeOK'
    BY <1>10 DEF SyncEntry, StoreTypeOK, storeVars
  <2> QED
    BY <1>t, <1>10, <2>1, <2>2, <2>3 DEF SyncEntry
<1>11. CASE Compacted(p)
  <2>1. NextPhase(seen[p].phase) \in Phases
    BY DEF NextPhase, Phases
  <2>2. record' \in CheckpointRecord /\ current' \in 0..MaxCheckpoints
    BY <1>0, <1>11, <2>1, PhaseTyped DEF Compacted, CheckpointTransition, CheckpointRecord
  <2> QED
    BY <1>t, <1>11, <2>2 DEF Compacted, Goto, Step, StoreTypeOK
<1>12. CASE Verify(p)
  <2>1. NextPhase(seen[p].phase) \in Phases
    BY DEF NextPhase, Phases
  <2>2. record' \in CheckpointRecord /\ current' \in 0..MaxCheckpoints
    BY <1>0, <1>12, <2>1, PhaseTyped DEF Verify, CheckpointTransition, CheckpointRecord
  <2>3. Moved
    BY <1>12, <1>c, GotoTyped, ThrowTyped DEF Verify
  <2> QED
    BY <1>t, <1>12, <2>2, <2>3 DEF Verify, StoreTypeOK
<1>13. CASE BeginTurn(p)
  BY <1>t, <1>13 DEF BeginTurn, BeginTurnMark, Work, Goto, Step, StoreTypeOK
<1>14. CASE Turn(p)
  <2>1. <<"turn", ev[p]>> \in Entry
    BY <1>0 DEF Entry
  <2>2. file' \in Seq(Entry) /\ synced' \in 0..Len(file')
    BY <1>14, <2>1, AppendTyped DEF Turn, AppendEnd
  <2>3. told' \in [Event -> -1..MaxCheckpoints] /\ due' \in [Event -> -1..MaxCheckpoints]
    <3>1. loaded[p] \in SUBSET (1..Len(file))
      BY DEF TreeTypeOK
    <3>2. Context(loaded[p]) \in -1..MaxCheckpoints /\ current \in -1..MaxCheckpoints
      BY <1>a, <3>1, ContextTyped
    <3> QED
      BY <1>14, <3>2 DEF Turn
  <2>9. Moved
    BY <1>14, <1>c, GotoTyped, ThrowTyped DEF Turn
  <2> QED
    BY <1>t, <1>14, <2>2, <2>3, <2>9 DEF Turn, AppendEnd, StoreTypeOK
<1>15. CASE Mark(p)
  <2>1. <<"marker", ev[p]>> \in Entry
    BY <1>0 DEF Entry
  <2>2. file' \in Seq(Entry) /\ synced' \in 0..Len(file')
    BY <1>15, <2>1, AppendTyped DEF Mark, AppendEnd
  <2> QED
    BY <1>t, <1>15, <2>2 DEF Mark, AppendEnd, Goto, Step, StoreTypeOK
<1>16. CASE Complete(p)
  <2>1. StoreTypeOK'
    BY <1>16 DEF Complete, CompleteEvent, Work, StoreTypeOK
  <2> QED
    BY <1>t, <1>16, <1>b, <2>1, StopTyped DEF Complete, CompleteEvent
<1>17. CASE Pause(p)
  <2>1. StoreTypeOK'
    BY <1>0, <1>17 DEF Pause, SetPause, StoreTypeOK
  <2> QED
    BY <1>t, <1>17, <1>b, <2>1, StopTyped DEF Pause, SetPause
<1>18. CASE GateLost(p)
  BY <1>t, <1>18, <1>b, StopTyped DEF GateLost, StoreTypeOK
<1> QED
  BY <1>1, <1>2, <1>3, <1>4, <1>5, <1>6, <1>7, <1>8, <1>9, <1>10, <1>11, <1>12, <1>13,
     <1>14, <1>15, <1>16, <1>17, <1>18 DEF WorkerStep

\* A command leaves the tree alone.
LEMMA CommandTree ==
  ASSUME TypeOK, NEW p \in Process, CommandStep(p)
  PROVE  TreeTypeOK'
<1>1. UNCHANGED <<file, branch>> /\ loaded' \in {loaded, [loaded EXCEPT ![p] = {}]}
  BY DEF CommandStep, ConsumeManifest, ClaimRepair, Prove, ProveAgain, Abort, ClaimIntent, Stage,
         ReleaseIntent, Publish, GiveBack, Leave, Stop, diskVars, procVars
<1> QED
  BY <1>1, LoadedTyped DEF TypeOK

\* The steps of the two commands.
LEMMA CommandStepTyped ==
  ASSUME TypeOK, NEW p \in Process, CommandStep(p)
  PROVE  TypeOK'
<1>t. TreeTypeOK'
  BY CommandTree
<1>0. /\ ep[p] \in Nat /\ ce[p] \in Nat /\ ev[p] \in 0..MaxSeq
      /\ seen[p] \in CheckpointRecord /\ want[p] \in Digest
      /\ reason[p] \in Pauses \cup {"none"}
  BY ProcessTyped
<1>a. MaxSeq \in Nat
  BY StoreAssumption
<1>b. "off" \in Roles /\ "aborted" \in Phases
  BY DEF Roles, Phases
<1>c. {"claim", "leave", "prove", "proveAgain", "giveBack", "abort", "digest", "release",
       "publish"} \subseteq Step
  BY DEF Step
<1> DEFINE Moved == pc' \in [Process -> Step] /\ reason' \in [Process -> Pauses \cup {"none"}]
<1> USE DEF TypeOK, leaseVars, stateVars, repairVars, diskVars, procVars, boundVars, historyVars
<1>1. CASE ConsumeManifest(p)
  <2>1. Moved
    BY <1>1, <1>c, GotoTyped DEF ConsumeManifest
  <2>2. want' \in [Process -> Digest] /\ manifest' \in Digest
    BY <1>1, NoDigestTyped DEF ConsumeManifest
  <2> QED
    BY <1>t, <1>1, <2>1, <2>2 DEF ConsumeManifest, StoreTypeOK, storeVars
<1>2. ASSUME RepairGrant(p), RepairEvidence(TRUE),
             UNCHANGED <<appEpoch, appLive, stateVars, admitted, tools>>
      PROVE  /\ StoreTypeOK'
             /\ ev' \in [Process -> 0..MaxSeq] /\ ce' \in [Process -> Nat]
             /\ seen' \in [Process -> CheckpointRecord]
  <2>1. cursor + 1 \in Event /\ leaseEpoch + 1 \in Nat
    BY <1>2 DEF RepairEvidence, StoreTypeOK
  <2>2. /\ leaseEpoch' \in Nat /\ leaseApp' \in Nat /\ leaseEvent' \in Event /\ leaseLive' \in BOOLEAN
    BY <1>0, <1>2, <2>1 DEF RepairGrant
  <2>3. StoreTypeOK'
    BY <1>2, <2>2 DEF StoreTypeOK
  <2>4. ev' \in [Process -> 0..MaxSeq]
    <3>1. cursor + 1 \in 0..MaxSeq
      BY <1>a, <2>1 DEF Event
    <3> QED
      BY <1>2, <3>1 DEF RepairGrant
  <2>5. ce' \in [Process -> Nat]
    BY <1>2, <2>1 DEF RepairGrant
  <2>6. seen' \in [Process -> CheckpointRecord]
    BY <1>2 DEF RepairGrant
  <2> QED
    BY <2>3, <2>4, <2>5, <2>6
<1>3. CASE ClaimRepair(p)
  <2>1. Moved
    BY <1>3, <1>c, GotoTyped DEF ClaimRepair
  <2>2. want' \in [Process -> Digest] /\ intent' \in Digest
    BY <1>0, <1>3, NoDigestTyped DEF ClaimRepair
  <2>3. CASE RepairEvidence(want[p] # NoDigest) /\ RepairGrant(p)
    <3>1. RepairEvidence(TRUE)
      BY <2>3 DEF RepairEvidence
    <3> QED
      BY <1>t, <1>2, <1>3, <2>1, <2>2, <2>3, <3>1 DEF ClaimRepair
  <2>4. CASE UNCHANGED <<leaseVars, ev, ce, seen, want, intent>>
    BY <1>t, <1>3, <2>1, <2>4 DEF ClaimRepair, StoreTypeOK
  <2> QED
    BY <1>3, <2>3, <2>4 DEF ClaimRepair
<1>4. CASE ClaimIntent(p)
  <2>1. Moved
    BY <1>4, <1>c, GotoTyped DEF ClaimIntent
  <2>2. CASE RepairEvidence(TRUE) /\ RepairGrant(p) /\ intent' = NoDigest
    BY <1>t, <1>2, <1>4, <2>1, <2>2, NoDigestTyped DEF ClaimIntent
  <2>3. CASE UNCHANGED <<leaseVars, ev, ce, seen, intent>>
    BY <1>t, <1>4, <2>1, <2>3 DEF ClaimIntent, StoreTypeOK
  <2> QED
    BY <1>4, <2>2, <2>3 DEF ClaimIntent
<1>5. CASE Prove(p) \/ ProveAgain(p)
  <2>1. Moved
    BY <1>5, <1>c, GotoTyped DEF Prove, ProveAgain
  <2> QED
    BY <1>t, <1>5, <2>1 DEF Prove, ProveAgain, StoreTypeOK, storeVars
<1>6. ASSUME FreeLease, UNCHANGED <<appEpoch, appLive, cursor, gap, turnEvent, session, admitted, tools>>,
             pause' \in {pause, "none"}
      PROVE  StoreTypeOK' /\ intent' \in Digest
  BY <1>6, NoDigestTyped DEF FreeLease, StoreTypeOK
<1>7. CASE Abort(p)
  <2>1. Moved
    BY <1>7, <1>c, GotoTyped DEF Abort
  <2>2. CASE FreeLease /\ pause' = "none" /\ record' = [record EXCEPT !.phase = "aborted"]
    <3>1. record' \in CheckpointRecord
      BY <1>b, <2>2, PhaseTyped
    <3> QED
      BY <1>t, <1>6, <1>7, <2>1, <2>2, <3>1 DEF Abort
  <2>3. CASE UNCHANGED <<record, pause, leaseVars, intent>>
    BY <1>t, <1>7, <2>1, <2>3 DEF Abort, StoreTypeOK
  <2> QED
    BY <1>7, <2>2, <2>3 DEF Abort
<1>8. CASE GiveBack(p)
  <2>1. Moved
    BY <1>8, <1>c, GotoTyped DEF GiveBack
  <2>2. StoreTypeOK' /\ intent' \in Digest
    BY <1>6, <1>8 DEF GiveBack, StoreTypeOK
  <2> QED
    BY <1>t, <1>8, <2>1, <2>2 DEF GiveBack
<1>9. CASE ReleaseIntent(p)
  <2>1. Moved
    BY <1>9, <1>c, GotoTyped DEF ReleaseIntent
  <2>2. StoreTypeOK' /\ intent' \in Digest
    BY <1>6, <1>9 DEF ReleaseIntent, StoreTypeOK
  <2> QED
    BY <1>t, <1>9, <2>1, <2>2 DEF ReleaseIntent
<1>10. CASE Leave(p)
  <2>1. StoreTypeOK'
    BY <1>10 DEF Leave, AppRelease, StoreTypeOK, storeVars
  <2> QED
    BY <1>t, <1>10, <1>b, <2>1, StopTyped DEF Leave
<1>11. CASE Stage(p)
  <2>1. Moved
    BY <1>11, <1>c, GotoTyped DEF Stage
  <2>2. want' \in [Process -> Digest]
    BY <1>0, <1>11, DigestTyped DEF Stage
  <2> QED
    BY <1>t, <1>11, <2>1, <2>2 DEF Stage, StoreTypeOK, storeVars
<1>12. CASE Publish(p)
  <2>1. Moved
    BY <1>12, <1>c, GotoTyped DEF Publish
  <2>2. manifest' \in Digest /\ issued' \in SUBSET Digest
    BY <1>0, <1>12 DEF Publish
  <2> QED
    BY <1>t, <1>12, <2>1, <2>2 DEF Publish, StoreTypeOK, storeVars
<1> QED
  BY <1>1, <1>3, <1>4, <1>5, <1>7, <1>8, <1>9, <1>10, <1>11, <1>12 DEF CommandStep

\* Starts, stops, and what time and the host do.
LEMMA WorldStepTyped ==
  ASSUME TypeOK,
         \/ \E p \in Process : Acquire(p) \/ Claim(p) \/ LoseApp(p) \/ Drain(p) \/ Crash(p)
         \/ ExpireApp \/ ExpireLease \/ HostCrash
  PROVE  TypeOK'
<1>0. /\ "off" \in Roles
      /\ MaxFaults \in Nat /\ MaxRepairs \in Nat /\ MaxSeq \in Nat
  BY CheckpointAssumption, StoreAssumption DEF Roles
<1>t. ASSUME UNCHANGED <<file, branch, loaded>>
      PROVE  TreeTypeOK'
  BY <1>t DEF TypeOK, TreeTypeOK
<1> USE DEF TypeOK, leaseVars, stateVars, repairVars, diskVars, procVars, boundVars, historyVars
<1>1. ASSUME NEW p \in Process, Acquire(p)
      PROVE  TypeOK'
  <2>1. StoreTypeOK' /\ ep' \in [Process -> Nat]
    <3>1. appEpoch + 1 \in Nat
      BY DEF StoreTypeOK
    <3>2. StoreTypeOK'
      BY <1>1, <3>1 DEF Acquire, AppAcquire, StoreTypeOK
    <3> QED
      BY <1>1, <3>1, <3>2 DEF Acquire
  <2>2. role' \in [Process -> Roles] /\ pc' \in [Process -> Step]
    BY <1>1 DEF Acquire, Roles, Step
  <2>3. repairs' \in 0..MaxRepairs
    BY <1>0, <1>1 DEF Acquire
  <2> QED
    BY <1>t, <1>1, <2>1, <2>2, <2>3 DEF Acquire
<1>2. ASSUME NEW p \in Process, Claim(p)
      PROVE  TypeOK'
  <2>1. "open" \in Step
    BY DEF Step
  <2>2. cursor + 1 \in Event /\ leaseEpoch + 1 \in Nat
    BY <1>2 DEF Claim, ClaimGrant, StoreTypeOK
  <2>3. pc' \in [Process -> Step] /\ reason' \in [Process -> Pauses \cup {"none"}]
    BY <1>2, <2>1, GotoTyped DEF Claim
  <2>4. StoreTypeOK'
    <3>1. ep[p] \in Nat
      BY ProcessTyped
    <3> QED
      BY <1>2, <2>2, <3>1 DEF Claim, ClaimGrant, StoreTypeOK
  <2> QED
    <3>1. ev' \in [Process -> 0..MaxSeq] /\ ce' \in [Process -> Nat]
      BY <1>0, <1>2, <2>2 DEF Claim, Event
    <3> QED
      BY <1>t, <1>2, <2>3, <2>4, <3>1 DEF Claim
<1>3. ASSUME NEW p \in Process, LoseApp(p)
      PROVE  TypeOK'
  BY <1>t, <1>0, <1>3 DEF LoseApp, StoreTypeOK, storeVars
<1>4. ASSUME NEW p \in Process, Drain(p)
      PROVE  TypeOK'
  <2>1. faults' \in 0..MaxFaults
    BY <1>0, <1>4 DEF Drain, Fault
  <2>2. StoreTypeOK'
    BY <1>4 DEF Drain, AppRelease, StoreTypeOK
  <2> QED
    BY <1>t, <1>0, <1>4, <2>1, <2>2, StopTyped DEF Drain, AppRelease
<1>5. ASSUME NEW p \in Process, Crash(p)
      PROVE  TypeOK'
  <2>1. StoreTypeOK' /\ faults' \in 0..MaxFaults
    BY <1>0, <1>5 DEF Crash, Fault, StoreTypeOK, storeVars
  <2> QED
    BY <1>t, <1>0, <1>5, <2>1, StopTyped DEF Crash
<1>6. CASE ExpireApp
  <2>1. faults' \in 0..MaxFaults
    BY <1>0, <1>6 DEF ExpireApp, Fault
  <2>2. StoreTypeOK'
    BY <1>6 DEF ExpireApp, AppExpires, StoreTypeOK
  <2> QED
    BY <1>t, <1>6, <2>1, <2>2 DEF ExpireApp
<1>7. CASE ExpireLease
  <2>1. faults' \in 0..MaxFaults
    BY <1>0, <1>7 DEF ExpireLease, Fault
  <2>2. StoreTypeOK'
    BY <1>7 DEF ExpireLease, LeaseExpires, StoreTypeOK
  <2> QED
    BY <1>t, <1>7, <2>1, <2>2 DEF ExpireLease
<1>8. CASE HostCrash
  <2>1. PICK n \in synced..Len(file) :
          file' = SubSeq(file, 1, n) /\ branch' = SubSeq(branch, 1, n) /\ synced' = n
    BY <1>8 DEF HostCrash
  <2>2. file' \in Seq(Entry) /\ synced' \in 0..Len(file')
    BY <2>1
  <2>3. StoreTypeOK' /\ faults' \in 0..MaxFaults
    BY <1>0, <1>8 DEF HostCrash, Fault, StoreTypeOK, storeVars
  <2>4. TreeTypeOK'
    <3>1. /\ n \in Nat /\ n <= Len(file) /\ Len(file) \in Nat
          /\ Len(branch) = Len(file) /\ branch \in Seq(SUBSET Nat)
      BY <2>1 DEF TreeTypeOK
    <3>2. /\ Len(file') = n /\ branch' \in Seq(SUBSET Nat) /\ Len(branch') = n
          /\ \A i \in 1..n : branch'[i] = branch[i]
      BY <2>1, <3>1
    <3>3. loaded' = [p \in Process |-> {}]
      BY <1>8 DEF HostCrash
    <3>4. loaded' \in [Process -> SUBSET (1..Len(file'))]
      BY <3>3
    <3>5. \A i \in 1..Len(file') : branch'[i] \subseteq 1..i
      <4> SUFFICES ASSUME NEW i \in 1..n PROVE branch[i] \subseteq 1..i
        BY <3>2
      <4>1. i \in 1..Len(file)
        BY <3>1
      <4> QED
        BY <4>1 DEF TreeTypeOK
    <3> QED
      BY <3>2, <3>4, <3>5 DEF TreeTypeOK
  <2> QED
    BY <1>0, <1>8, <2>2, <2>3, <2>4, NoCheckpointTyped, NoDigestTyped DEF HostCrash, Step
<1> QED
  BY <1>1, <1>2, <1>3, <1>4, <1>5, <1>6, <1>7, <1>8

\* Store, session file, manifest and processes hold values of their types, for
\* any number of processes, events, checkpoints, faults and commands.
THEOREM TypeCorrect == Spec => []TypeOK
<1>1. TypeOK /\ [Next]_vars => TypeOK'
  <2> SUFFICES ASSUME TypeOK, [Next]_vars PROVE TypeOK'
    OBVIOUS
  <2>1. CASE UNCHANGED vars
    BY <2>1 DEF vars, TypeOK, StoreTypeOK, TreeTypeOK, storeVars, leaseVars, stateVars, repairVars, diskVars,
                procVars, boundVars, historyVars
  <2>2. CASE Next
    BY <2>2, WorkerStepTyped, CommandStepTyped, WorldStepTyped DEF Next
  <2> QED
    BY <2>1, <2>2
<1> QED
  BY <1>1, InitTyped, PTL DEF Spec

-----------------------------------------------------------------------------
(* A restored checkpoint is durable *)

CheckpointInv == TypeOK /\ CheckpointBarrier

\* A step that leaves the file alone, draws nothing, and makes no new holder.
LEMMA QuietStep ==
  ASSUME CheckpointInv, TypeOK', file' = file, synced' \in synced..Len(file), drawn' = drawn,
         \/ record' = record
         \/ /\ record'.id <= drawn
            /\ record'.phase \in {"compacted", "restored"} => OnDisk(record'.id),
         \A q \in Process : seen'[q].id <= drawn,
         \A q \in Process : Holds(q)' => Holds(q) /\ seen'[q] = seen[q],
         \A q \in Process : pc'[q] = "appended" => pc[q] = "appended" /\ seen'[q] = seen[q],
         \A q \in Process : pc'[q] \in {"advance", "compacted", "verify"}
           => \E i \in 1..synced' : file[i] = <<"compaction", seen'[q].id>>
  PROVE  CheckpointBarrier'
<1>1. synced \in Int /\ synced' \in Int /\ synced <= synced'
  BY DEF CheckpointInv, TypeOK
<1>2. OneEntry' /\ DrawnBefore'
  BY DEF CheckpointInv, CheckpointBarrier, OneEntry, DrawnBefore
<1>3. HeldApart'
  BY DEF CheckpointInv, CheckpointBarrier, HeldApart, InFile
<1>4. WorkersDurable'
  BY DEF CheckpointInv, CheckpointBarrier, WorkersDurable, InFile, OnDisk
<1>5. \A c : OnDisk(c) => OnDisk(c)'
  BY <1>1 DEF OnDisk
<1>6. RecordDurable'
  BY <1>5 DEF CheckpointInv, CheckpointBarrier, RecordDurable
<1> QED
  BY <1>2, <1>3, <1>4, <1>6 DEF CheckpointBarrier

\* An entry is appended: one of another kind, or of a checkpoint nobody has
\* appended and nobody else holds.
LEMMA AppendStep ==
  ASSUME CheckpointInv, NEW x \in Entry,
         file' = Append(file, x), synced' \in {synced, Len(file) + 1},
         drawn' = drawn, record' = record, seen' = seen,
         x[1] = "compaction" => x[2] <= drawn /\ ~InFile(x[2]),
         \A q \in Process : Holds(q)' => Holds(q) /\ <<"compaction", seen[q].id>> # x,
         \A q \in Process : pc'[q] = "appended" =>
           pc[q] = "appended" \/ x = <<"compaction", seen[q].id>>,
         \A q \in Process : pc'[q] \in {"advance", "compacted", "verify"} => pc'[q] = pc[q]
  PROVE  CheckpointBarrier'
<1>1. /\ file \in Seq(Entry) /\ Len(file) \in Nat /\ Len(file') = Len(file) + 1
      /\ synced \in 0..Len(file) /\ synced' \in Int /\ synced <= synced'
      /\ file'[Len(file) + 1] = x
      /\ \A i \in 1..Len(file) : file'[i] = file[i]
  BY DEF CheckpointInv, TypeOK
<1>2. /\ \A c : InFile(c) => InFile(c)'
      /\ \A c : OnDisk(c) => OnDisk(c)'
      /\ \A c : InFile(c)' => InFile(c) \/ x = <<"compaction", c>>
  <2>1. ASSUME NEW c, InFile(c)
        PROVE  InFile(c)'
    BY <1>1, <2>1 DEF InFile
  <2>2. ASSUME NEW c, OnDisk(c)
        PROVE  OnDisk(c)'
    <3>1. PICK i \in 1..synced : file[i] = <<"compaction", c>>
      BY <2>2 DEF OnDisk
    <3>2. i \in 1..Len(file) /\ i \in 1..synced'
      BY <1>1
    <3> QED
      BY <1>1, <3>1, <3>2 DEF OnDisk
  <2>3. ASSUME NEW c, InFile(c)'
        PROVE  InFile(c) \/ x = <<"compaction", c>>
    <3>1. PICK i \in 1..Len(file) + 1 : file'[i] = <<"compaction", c>>
      BY <1>1, <2>3 DEF InFile
    <3>2. i \in 1..Len(file) \/ i = Len(file) + 1
      BY <1>1
    <3> QED
      BY <1>1, <3>1, <3>2 DEF InFile
  <2> QED
    BY <2>1, <2>2, <2>3
<1>3. x[1] = "compaction" => x = <<"compaction", x[2]>>
  BY DEF Entry
<1>4. OneEntry'
  <2> SUFFICES ASSUME NEW i \in 1..Len(file'), NEW j \in 1..Len(file'),
                      file'[i][1] = "compaction", file'[i] = file'[j]
               PROVE  i = j
    BY DEF OneEntry
  <2>1. CASE i \in 1..Len(file) /\ j \in 1..Len(file)
    BY <1>1, <2>1 DEF CheckpointInv, CheckpointBarrier, OneEntry
  <2>2. CASE i = Len(file) + 1 /\ j \in 1..Len(file)
    BY <1>1, <1>3, <2>2 DEF InFile
  <2>3. CASE j = Len(file) + 1 /\ i \in 1..Len(file)
    BY <1>1, <1>3, <2>3 DEF InFile
  <2> QED
    BY <1>1, <2>1, <2>2, <2>3
<1>5. DrawnBefore'
  <2>1. ASSUME NEW i \in 1..Len(file'), file'[i][1] = "compaction"
        PROVE  file'[i][2] <= drawn
    <3>1. CASE i \in 1..Len(file)
      BY <1>1, <2>1, <3>1 DEF CheckpointInv, CheckpointBarrier, DrawnBefore
    <3>2. CASE i = Len(file) + 1
      BY <1>1, <2>1, <3>2
    <3> QED
      BY <1>1, <3>1, <3>2
  <2> QED
    BY <2>1 DEF CheckpointInv, CheckpointBarrier, DrawnBefore
<1>6. HeldApart'
  BY <1>2 DEF CheckpointInv, CheckpointBarrier, HeldApart
<1>7. WorkersDurable'
  <2>1. x[1] = "compaction" => InFile(x[2])'
    BY <1>1, <1>3 DEF InFile
  <2> QED
    BY <1>2, <2>1 DEF CheckpointInv, CheckpointBarrier, WorkersDurable
<1>8. RecordDurable'
  BY <1>2 DEF CheckpointInv, CheckpointBarrier, RecordDurable
<1> QED
  BY <1>4, <1>5, <1>6, <1>7, <1>8 DEF CheckpointBarrier

\* A power failure keeps what is on disk, and leaves no holder behind.
LEMMA HostCrashKeeps ==
  ASSUME CheckpointInv, HostCrash
  PROVE  CheckpointBarrier'
<1>1. PICK n \in synced..Len(file) : file' = SubSeq(file, 1, n) /\ synced' = n
  BY DEF HostCrash
<1>2. file \in Seq(Entry) /\ synced \in 0..Len(file) /\ Len(file) \in Nat
  BY DEF CheckpointInv, TypeOK
<1>3. Len(file') = n /\ n \in Nat /\ \A i \in 1..n : file'[i] = file[i]
  BY <1>1, <1>2
<1>4. OneEntry'
  BY <1>2, <1>3 DEF CheckpointInv, CheckpointBarrier, OneEntry
<1>5. \A c : OnDisk(c) => OnDisk(c)'
  BY <1>1, <1>2, <1>3 DEF OnDisk
<1>6. DrawnBefore'
  <2>1. drawn \in Nat /\ NoCheckpoint.id = 0
    BY CheckpointAssumption DEF CheckpointInv, TypeOK, NoCheckpoint
  <2>2. \A i \in 1..Len(file') : file'[i][1] = "compaction" => file'[i][2] <= drawn
    BY <1>2, <1>3 DEF CheckpointInv, CheckpointBarrier, DrawnBefore
  <2> QED
    BY <2>1, <2>2 DEF CheckpointInv, CheckpointBarrier, DrawnBefore, HostCrash
<1>7. HeldApart' /\ WorkersDurable'
  BY DEF HostCrash, HeldApart, WorkersDurable, Holds
<1>8. RecordDurable'
  BY <1>5 DEF CheckpointInv, CheckpointBarrier, RecordDurable, HostCrash
<1> QED
  BY <1>4, <1>6, <1>7, <1>8 DEF CheckpointBarrier

\* What is claimed on the active branch is in the file.
LEMMA ClaimedInFile ==
  ASSUME NEW c, Claimed(c)
  PROVE  InFile(c)
<1>1. Claims(c) \cap ActiveBranch # {}
  BY FS_EmptySet DEF Claimed
<1> QED
  BY <1>1 DEF Claims, InFile

\* The steps of a worker that move only itself, and not to a step of a holder.
LEMMA WorkerKeeps ==
  ASSUME CheckpointInv, TypeOK', NEW p \in Process, WorkerStep(p)
  PROVE  CheckpointBarrier'
<1>0. /\ pc \in [Process -> Step] /\ seen \in [Process -> CheckpointRecord]
      /\ record \in CheckpointRecord /\ drawn \in Nat
      /\ file \in Seq(Entry) /\ synced \in 0..Len(file) /\ Len(file) \in Nat
      /\ synced \in synced..Len(file) /\ Len(file) \in synced..Len(file)
  BY CheckpointAssumption DEF CheckpointInv, TypeOK
<1>a. /\ NoCheckpoint.id <= drawn
      /\ record.id <= drawn /\ \A q \in Process : seen[q].id <= drawn
  BY <1>0 DEF CheckpointInv, CheckpointBarrier, DrawnBefore, NoCheckpoint
<1>b. \A q \in Process : pc[q] \in {"advance", "compacted", "verify"} =>
        \E i \in 1..synced : file[i] = <<"compaction", seen[q].id>>
  BY DEF CheckpointInv, CheckpointBarrier, WorkersDurable, OnDisk
<1> USE DEF storeVars, leaseVars, stateVars, repairVars, diskVars, procVars, boundVars, historyVars
<1>1. CASE Open(p) \/ Decide(p) \/ BeginTurn(p)
  BY <1>0, <1>1, <1>a, <1>b, QuietStep DEF Open, Decide, BeginTurn, Goto, Throw, Holds
<1>2. CASE Prepare(p)
  BY <1>0, <1>2, <1>a, <1>b, QuietStep DEF Prepare, Goto, Holds
<1>3. CASE Reconcile(p)
  <2>1. Claimed(seen[p].id) => InFile(seen[p].id)
    BY ClaimedInFile
  <2>2. synced' \in {synced, Len(file)} /\ UNCHANGED <<file, record, drawn, seen>>
    BY <1>3 DEF Reconcile
  <2>3. \A q \in Process : pc'[q] \in {"advance", "compacted", "verify"} =>
          (q = p /\ InFile(seen[p].id) /\ synced' = Len(file)) \/ pc'[q] = pc[q]
    BY <1>0, <1>3, <2>1 DEF Reconcile, Require, Goto, Throw
  <2>4. \A q \in Process : pc'[q] \in {"advance", "compacted", "verify"} =>
          \E i \in 1..synced' : file[i] = <<"compaction", seen'[q].id>>
    <3>1. ASSUME NEW q \in Process, pc[q] \in {"advance", "compacted", "verify"}
          PROVE  \E i \in 1..synced' : file[i] = <<"compaction", seen[q].id>>
      <4>1. PICK i \in 1..synced : file[i] = <<"compaction", seen[q].id>>
        BY <1>b, <3>1
      <4>2. i \in 1..synced'
        BY <1>0, <2>2
      <4> QED
        BY <4>1, <4>2
    <3> QED
      BY <2>2, <2>3, <3>1 DEF InFile
  <2>5. \A q \in Process : /\ Holds(q)' => Holds(q)
                           /\ pc'[q] = "appended" => pc[q] = "appended"
    BY <1>0, <1>3 DEF Reconcile, Require, Goto, Throw, Holds
  <2> QED
    BY <1>0, <1>a, <2>2, <2>4, <2>5, QuietStep
<1>4. CASE Advance(p) \/ Compacted(p) \/ (Verify(p) /\ CheckpointTransition(p, seen[p]))
  <2>1. /\ record = seen[p] /\ record' = [record EXCEPT !.phase = NextPhase(record.phase)]
        /\ OnDisk(record.id)
        /\ UNCHANGED <<file, synced, drawn>>
    BY <1>4 DEF Advance, Compacted, Verify, CheckpointTransition,
                CheckpointInv, CheckpointBarrier, WorkersDurable
  <2>2. record'.id = record.id
    BY <1>0, <2>1 DEF CheckpointRecord
  <2>3. \A q \in Process : seen'[q].id = seen[q].id
    BY <1>0, <1>4, <2>1, <2>2 DEF Advance, Compacted, Verify
  <2>4. \A q \in Process :
          /\ Holds(q)' => Holds(q) /\ seen'[q] = seen[q]
          /\ pc'[q] = "appended" => pc[q] = "appended" /\ seen'[q] = seen[q]
          /\ pc'[q] \in {"advance", "compacted", "verify"} =>
               pc[q] \in {"advance", "compacted", "verify"}
    BY <1>0, <1>4 DEF Advance, Compacted, Verify, Goto, Throw, Holds
  <2> QED
    BY <1>0, <1>a, <1>b, <2>1, <2>2, <2>3, <2>4, QuietStep
<1>12. CASE Verify(p) /\ Throw(p, "compaction_failed") /\ UNCHANGED <<record, current>>
  BY <1>0, <1>12, <1>a, <1>b, QuietStep DEF Verify, Throw, Holds
<1>5. CASE Capture(p)
  <2>1. CASE drawn' = drawn /\ seen' = seen
    <3>1. pc' = [pc EXCEPT ![p] = "catch"] /\ UNCHANGED <<file, synced, record>>
      BY <1>0, <1>5, <2>1 DEF Capture, Throw
    <3> QED
      BY <1>0, <1>a, <1>b, <2>1, <3>1, QuietStep DEF Holds
  <2>2. CASE drawn' = drawn + 1
    <3>1. /\ UNCHANGED <<file, synced, record>>
          /\ seen' = [seen EXCEPT ![p] = [id |-> drawn + 1, phase |-> "prepared",
                                          event |-> ev[p], gen |-> file, bound |-> TRUE]]
          /\ pc' = [pc EXCEPT ![p] = "record"]
      BY <1>0, <1>5, <2>2 DEF Capture, Goto
    <3>2. /\ seen'[p].id = drawn + 1 /\ seen'[p].phase = "prepared" /\ seen'[p].bound
          /\ \A q \in Process : q # p => seen'[q] = seen[q] /\ pc'[q] = pc[q]
      BY <1>0, <3>1
    <3>3. ~InFile(drawn + 1)
      BY <1>0 DEF InFile, CheckpointInv, CheckpointBarrier, DrawnBefore
    <3>4. OneEntry' /\ RecordDurable'
      BY <3>1 DEF CheckpointInv, CheckpointBarrier, OneEntry, RecordDurable, OnDisk
    <3>5. DrawnBefore'
      <4>1. \A q \in Process : seen'[q].id <= drawn'
        <5>1. \A q \in Process : seen[q].id \in Int
          BY <1>0 DEF CheckpointRecord
        <5> QED
          BY <1>0, <1>a, <2>2, <3>2, <5>1
      <4>2. record'.id <= drawn'
        BY <1>0, <1>a, <2>2, <3>1 DEF CheckpointRecord
      <4>3. \A i \in 1..Len(file) : file[i] \in Entry
        BY <1>0
      <4>4. \A i \in 1..Len(file) : file[i][1] = "compaction" => file[i][2] <= drawn'
        BY <1>0, <2>2, <4>3 DEF Entry, CheckpointInv, CheckpointBarrier, DrawnBefore
      <4> QED
        BY <3>1, <4>1, <4>2, <4>4 DEF DrawnBefore
    <3>6. HeldApart'
      <4>1. \A q \in Process : Holds(q)' => q = p \/ Holds(q)
        BY <3>2 DEF Holds
      <4>2. \A q \in Process : q # p => seen'[q].id # seen'[p].id
        BY <1>0, <1>a, <3>2 DEF CheckpointRecord
      <4>3. \A c : InFile(c)' <=> InFile(c)
        BY <3>1 DEF InFile
      <4>4. ASSUME NEW q \in Process, Holds(q), q # p
            PROVE  /\ seen'[q].phase = "prepared" /\ seen'[q].bound /\ ~InFile(seen'[q].id)
                   /\ \A r \in Process : Holds(r) /\ seen[r].id = seen'[q].id => r = q
        BY <3>2, <4>4 DEF HeldApart, CheckpointInv, CheckpointBarrier
      <4>5. ASSUME NEW q \in Process, Holds(q)'
            PROVE  /\ seen'[q].phase = "prepared" /\ seen'[q].bound /\ ~InFile(seen'[q].id)
                   /\ \A r \in Process : Holds(r)' /\ seen'[r].id = seen'[q].id => r = q
        <5>1. CASE q = p
          BY <3>2, <3>3, <4>2, <5>1
        <5>2. CASE q # p
          BY <3>2, <4>1, <4>2, <4>4, <4>5, <5>2
        <5> QED
          BY <5>1, <5>2
      <4> QED
        BY <4>3, <4>5 DEF HeldApart
    <3>7. WorkersDurable'
      <4>1. /\ \A c : InFile(c)' <=> InFile(c)
            /\ \A c : OnDisk(c)' <=> OnDisk(c)
        BY <3>1 DEF InFile, OnDisk
      <4>2. \A q \in Process : q = p => pc'[q] = "record"
        BY <1>0, <3>1
      <4> QED
        BY <3>2, <4>1, <4>2 DEF WorkersDurable, CheckpointInv, CheckpointBarrier
    <3> QED
      BY <3>4, <3>5, <3>6, <3>7 DEF CheckpointBarrier
  <2> QED
    BY <1>5, <2>1, <2>2 DEF Capture
<1>6. CASE Record(p)
  <2>1. record' = seen[p] /\ Holds(p) /\ seen[p].phase = "prepared"
    BY <1>6 DEF Record, CheckpointPrepare, Holds, CheckpointInv, CheckpointBarrier, HeldApart
  <2> QED
    BY <1>0, <1>6, <1>a, <1>b, <2>1, QuietStep DEF Record, Goto, Holds
<1>7. CASE ArmGate(p)
  BY <1>0, <1>7, <1>a, <1>b, QuietStep DEF ArmGate, Goto, Holds
<1>8. CASE AppendEntry(p)
  <2>1. CASE UNCHANGED file /\ Throw(p, "compaction_failed")
    <3>1. /\ pc' = [pc EXCEPT ![p] = "catch"]
          /\ UNCHANGED <<file, synced, record, drawn, seen>>
      BY <1>8, <2>1 DEF AppendEntry, AppendEnd, Throw
    <3> QED
      BY <1>0, <1>a, <1>b, <3>1, QuietStep DEF Holds
  <2>2. CASE AppendEnd(p, <<"compaction", seen[p].id>>) /\ Goto(p, "appended")
    <3>1. <<"compaction", seen[p].id>> \in Entry
      BY <1>0 DEF Entry, CheckpointRecord
    <3>2. Holds(p) /\ ~InFile(seen[p].id)
      BY <1>8 DEF AppendEntry, Holds, CheckpointInv, CheckpointBarrier, HeldApart
    <3>3. \A q \in Process : Holds(q)' => Holds(q) /\ q # p
      BY <1>0, <2>2 DEF Goto, Holds
    <3>4. \A q \in Process : Holds(q)' => <<"compaction", seen[q].id>> # <<"compaction", seen[p].id>>
      BY <3>2, <3>3 DEF CheckpointInv, CheckpointBarrier, HeldApart
    <3>5. \A q \in Process : pc'[q] = "appended" => pc[q] = "appended" \/ q = p
      BY <1>0, <2>2 DEF Goto
    <3>6. \A q \in Process : pc'[q] \in {"advance", "compacted", "verify"} => pc'[q] = pc[q]
      BY <1>0, <2>2 DEF Goto
    <3>7. /\ file' = Append(file, <<"compaction", seen[p].id>>)
          /\ synced' = synced /\ drawn' = drawn /\ record' = record /\ seen' = seen
      BY <1>8, <2>2 DEF AppendEntry, AppendEnd
    <3> QED
      BY <1>a, <3>1, <3>2, <3>3, <3>4, <3>5, <3>6, <3>7, AppendStep
  <2> QED
    BY <1>8, <2>1, <2>2 DEF AppendEntry
<1>9. CASE SyncEntry(p)
  <2>1. pc[p] = "appended" /\ InFile(seen[p].id)
    BY <1>9 DEF SyncEntry, CheckpointInv, CheckpointBarrier, WorkersDurable
  <2>2. UNCHANGED <<file, record, drawn, seen>> /\ synced' \in {synced, Len(file)}
    BY <1>9 DEF SyncEntry
  <2>3. \A q \in Process : /\ Holds(q)' => Holds(q)
                           /\ pc'[q] = "appended" => pc[q] = "appended"
    BY <1>0, <1>9 DEF SyncEntry, Goto, Throw, Holds
  <2>4. \A q \in Process : pc'[q] \in {"advance", "compacted", "verify"} =>
          (q = p /\ synced' = Len(file)) \/ pc'[q] = pc[q]
    BY <1>0, <1>9 DEF SyncEntry, Goto, Throw
  <2>5. \A q \in Process : pc'[q] \in {"advance", "compacted", "verify"} =>
          \E i \in 1..synced' : file[i] = <<"compaction", seen'[q].id>>
    <3>1. ASSUME NEW q \in Process, q = p /\ synced' = Len(file)
          PROVE  \E i \in 1..synced' : file[i] = <<"compaction", seen'[q].id>>
      BY <2>1, <2>2, <3>1 DEF InFile
    <3>2. ASSUME NEW q \in Process, pc[q] \in {"advance", "compacted", "verify"}
          PROVE  \E i \in 1..synced' : file[i] = <<"compaction", seen'[q].id>>
      <4>1. PICK i \in 1..synced : file[i] = <<"compaction", seen[q].id>>
        BY <1>b, <3>2
      <4>2. i \in 1..synced'
        BY <1>0, <2>2
      <4> QED
        BY <2>2, <4>1, <4>2
    <3> QED
      BY <2>4, <3>1, <3>2
  <2> QED
    BY <1>0, <1>a, <2>2, <2>3, <2>5, QuietStep
<1>10. CASE Turn(p) \/ Mark(p)
  <2>1. PICK x \in {<<"turn", ev[p]>>, <<"marker", ev[p]>>} :
          file' = Append(file, x) /\ synced' \in {synced, Len(file')}
    <3>1. CASE Turn(p)
      BY <3>1 DEF Turn, AppendEnd
    <3>2. CASE Mark(p)
      BY <3>2 DEF Mark, AppendEnd
    <3> QED
      BY <1>10, <3>1, <3>2
  <2>2. x \in Entry /\ x[1] # "compaction"
    <3>1. ev[p] \in 0..MaxSeq
      BY DEF CheckpointInv, TypeOK
    <3> QED
      BY <3>1 DEF Entry
  <2>3. Len(file') = Len(file) + 1
    BY <1>0, <2>1
  <2>4. \A q \in Process :
          /\ Holds(q)' => Holds(q)
          /\ pc'[q] = "appended" => pc[q] = "appended"
          /\ pc'[q] \in {"advance", "compacted", "verify"} => pc'[q] = pc[q]
    BY <1>0, <1>10 DEF Turn, Mark, Goto, Throw, Holds
  <2>5. UNCHANGED <<drawn, record, seen>>
    BY <1>10 DEF Turn, Mark, AppendEnd
  <2> QED
    BY <2>1, <2>2, <2>3, <2>4, <2>5, AppendStep
<1>11. CASE Complete(p) \/ Pause(p) \/ GateLost(p)
  <2>1. /\ pc' = [pc EXCEPT ![p] = "idle"] /\ seen' = [seen EXCEPT ![p] = NoCheckpoint]
        /\ UNCHANGED <<file, synced, record, drawn>>
    BY <1>11 DEF Complete, Pause, GateLost, Stop
  <2> QED
    BY <1>0, <1>a, <1>b, <2>1, QuietStep DEF Holds
<1> QED
  BY <1>1, <1>2, <1>3, <1>4, <1>5, <1>6, <1>7, <1>8, <1>9, <1>10, <1>11, <1>12 DEF WorkerStep, Verify

\* The steps of the commands: none appends, and the only record they write is an
\* aborted one.
LEMMA CommandKeeps ==
  ASSUME CheckpointInv, TypeOK', NEW p \in Process, CommandStep(p)
  PROVE  CheckpointBarrier'
<1>0. /\ pc \in [Process -> Step] /\ seen \in [Process -> CheckpointRecord]
      /\ record \in CheckpointRecord /\ drawn \in Nat
      /\ synced \in synced..Len(file)
  BY CheckpointAssumption DEF CheckpointInv, TypeOK
<1>a. /\ NoCheckpoint.id <= drawn
      /\ record.id <= drawn /\ \A q \in Process : seen[q].id <= drawn
  BY <1>0 DEF CheckpointInv, CheckpointBarrier, DrawnBefore, NoCheckpoint
<1>b. \A q \in Process : pc[q] \in {"advance", "compacted", "verify"} =>
        \E i \in 1..synced : file[i] = <<"compaction", seen[q].id>>
  BY DEF CheckpointInv, CheckpointBarrier, WorkersDurable, OnDisk
<1> DEFINE Elsewhere == {"idle", "claim", "leave", "prove", "proveAgain", "giveBack", "abort",
                         "digest", "release", "publish"}
<1>1. PICK s \in Elsewhere : pc' = [pc EXCEPT ![p] = s]
  BY DEF CommandStep, ConsumeManifest, ClaimRepair, Prove, ProveAgain, Abort, ClaimIntent, Stage,
         ReleaseIntent, Publish, GiveBack, Leave, Goto, Stop
<1>2. UNCHANGED <<file, synced, drawn>>
  BY DEF CommandStep, ConsumeManifest, ClaimRepair, Prove, ProveAgain, Abort, ClaimIntent, Stage,
         ReleaseIntent, Publish, GiveBack, Leave, diskVars, boundVars
<1>3. PICK r \in {seen[p], record, NoCheckpoint} : seen' = [seen EXCEPT ![p] = r]
  <2>1. CASE seen' = seen
    BY <1>0, <2>1
  <2>2. CASE ClaimRepair(p) \/ ClaimIntent(p)
    BY <2>1, <2>2 DEF ClaimRepair, ClaimIntent, RepairGrant
  <2>3. CASE Leave(p)
    BY <2>3 DEF Leave, Stop
  <2> QED
    BY <2>1, <2>2, <2>3
       DEF CommandStep, ConsumeManifest, Prove, ProveAgain, Abort, Stage, ReleaseIntent, Publish,
           GiveBack, procVars
<1>4. record' = record \/ record' = [record EXCEPT !.phase = "aborted"]
  BY DEF CommandStep, ConsumeManifest, ClaimRepair, Prove, ProveAgain, Abort, ClaimIntent, Stage,
         ReleaseIntent, Publish, GiveBack, Leave
<1>5. record' = record \/ (record'.id = record.id /\ record'.phase = "aborted")
  BY <1>0, <1>4 DEF CheckpointRecord
<1>6. \A q \in Process : seen'[q].id <= drawn
  BY <1>0, <1>a, <1>3
<1>7. \A q \in Process :
        /\ Holds(q)' => Holds(q) /\ seen'[q] = seen[q]
        /\ pc'[q] = "appended" => pc[q] = "appended" /\ seen'[q] = seen[q]
        /\ pc'[q] \in {"advance", "compacted", "verify"} => pc'[q] = pc[q] /\ seen'[q] = seen[q]
  BY <1>0, <1>1, <1>3 DEF Holds
<1> QED
  BY <1>0, <1>a, <1>b, <1>2, <1>5, <1>6, <1>7, QuietStep

\* Starts, stops and expiries: a process at most returns to rest, or takes up a claim.
LEMMA WorldKeeps ==
  ASSUME CheckpointInv, TypeOK',
         \/ \E p \in Process : Acquire(p) \/ Claim(p) \/ LoseApp(p) \/ Drain(p) \/ Crash(p)
         \/ ExpireApp \/ ExpireLease \/ UNCHANGED vars
  PROVE  CheckpointBarrier'
<1>0. /\ pc \in [Process -> Step] /\ seen \in [Process -> CheckpointRecord]
      /\ record \in CheckpointRecord /\ drawn \in Nat
      /\ synced \in synced..Len(file)
  BY CheckpointAssumption DEF CheckpointInv, TypeOK
<1>a. /\ NoCheckpoint.id <= drawn
      /\ record.id <= drawn /\ \A q \in Process : seen[q].id <= drawn
  BY <1>0 DEF CheckpointInv, CheckpointBarrier, DrawnBefore, NoCheckpoint
<1>b. \A q \in Process : pc[q] \in {"advance", "compacted", "verify"} =>
        \E i \in 1..synced : file[i] = <<"compaction", seen[q].id>>
  BY DEF CheckpointInv, CheckpointBarrier, WorkersDurable, OnDisk
<1>1. CASE \E p \in Process : Acquire(p) \/ Claim(p) \/ LoseApp(p) \/ Drain(p) \/ Crash(p)
  <2>1. PICK p \in Process : Acquire(p) \/ Claim(p) \/ LoseApp(p) \/ Drain(p) \/ Crash(p)
    BY <1>1
  <2>2. UNCHANGED <<file, synced, drawn, record>>
    BY <2>1 DEF Acquire, Claim, LoseApp, Drain, Crash, diskVars, boundVars
  <2>3. \/ seen' = seen /\ (pc' = pc \/ \E s \in {"consume", "intend", "open"} : pc' = [pc EXCEPT ![p] = s])
        \/ seen' = [seen EXCEPT ![p] = NoCheckpoint] /\ pc' = [pc EXCEPT ![p] = "idle"]
    BY <2>1 DEF Acquire, Claim, LoseApp, Drain, Crash, Stop, Goto, procVars
  <2>4. \A q \in Process : seen'[q].id <= drawn
    BY <1>0, <1>a, <2>3
  <2>5. \A q \in Process :
          /\ Holds(q)' => Holds(q) /\ seen'[q] = seen[q]
          /\ pc'[q] = "appended" => pc[q] = "appended" /\ seen'[q] = seen[q]
          /\ pc'[q] \in {"advance", "compacted", "verify"} => pc'[q] = pc[q] /\ seen'[q] = seen[q]
    BY <1>0, <2>3 DEF Holds
  <2> QED
    BY <1>0, <1>b, <2>2, <2>4, <2>5, QuietStep
<1>2. CASE ExpireApp \/ ExpireLease \/ UNCHANGED vars
  <2>1. UNCHANGED <<file, synced, drawn, record, seen, pc>>
    BY <1>2 DEF ExpireApp, ExpireLease, vars, diskVars, boundVars, procVars
  <2> QED
    BY <1>0, <1>a, <1>b, <2>1, QuietStep DEF Holds
<1> QED
  BY <1>1, <1>2

\* The barrier makes what the store calls restored durable, and in one place.
LEMMA BarrierDurable ==
  ASSUME CheckpointInv
  PROVE  RestoredIsDurable
<1> SUFFICES ASSUME record.phase \in {"compacted", "restored"}
             PROVE  Cardinality(Claims(record.id) \cap 1..synced) = 1
  BY DEF RestoredIsDurable
<1>1. synced \in 0..Len(file) /\ Len(file) \in Nat
  BY DEF CheckpointInv, TypeOK
<1>2. PICK i \in 1..synced : file[i] = <<"compaction", record.id>>
  BY DEF CheckpointInv, CheckpointBarrier, RecordDurable, OnDisk
<1>3. \A j \in Claims(record.id) : j = i
  BY <1>1, <1>2 DEF Claims, CheckpointInv, CheckpointBarrier, OneEntry
<1>4. i \in Claims(record.id)
  BY <1>1, <1>2 DEF Claims
<1>5. Claims(record.id) \cap 1..synced = {i}
  BY <1>3, <1>4
<1> QED
  BY <1>5, FS_Singleton

\* What the store calls restored is in the durable part of the session file, in
\* exactly one entry: for any number of workers, commands and faults, and
\* however leases expire.
THEOREM RestoredDurable == Spec => [](RestoredIsDurable /\ CheckpointBarrier)
<1>1. Init => CheckpointBarrier
  <2> SUFFICES ASSUME Init PROVE CheckpointBarrier
    OBVIOUS
  <2>1. record.id <= drawn /\ record.phase \in {"none", "prepared"}
    BY DEF Init, NoCheckpoint, LegacyCheckpoint
  <2>2. \A p \in Process : pc[p] = "idle" /\ seen[p].id <= drawn
    BY DEF Init, NoCheckpoint
  <2>3. \A i \in 1..Len(file) : file[i][1] = "compaction" => i = 3 /\ file[i] = <<"compaction", 1>> /\ drawn = 1
    <3>1. CASE file = <<>>
      BY <3>1
    <3>2. CASE file \in {FirstTurn, Append(FirstTurn, <<"compaction", 1>>)} /\ drawn = 1
      <4>1. /\ Len(file) \in {2, 3}
            /\ file[1][1] = "turn" /\ file[2][1] = "marker"
            /\ Len(file) = 3 => file[3] = <<"compaction", 1>>
        BY <3>2 DEF FirstTurn
      <4> QED
        BY <3>2, <4>1
    <3> QED
      BY <3>1, <3>2 DEF Init
  <2>4. OneEntry /\ \A i \in 1..Len(file) : file[i][1] = "compaction" => file[i][2] <= drawn
    BY <2>3 DEF OneEntry
  <2> QED
    BY <2>1, <2>2, <2>4
       DEF CheckpointBarrier, DrawnBefore, HeldApart, Holds, WorkersDurable, RecordDurable
<1>2. TypeOK /\ TypeOK' /\ CheckpointBarrier /\ [Next]_vars => CheckpointBarrier'
  BY WorkerKeeps, CommandKeeps, WorldKeeps, HostCrashKeeps DEF CheckpointInv, Next
<1>3. TypeOK /\ CheckpointBarrier => RestoredIsDurable
  BY BarrierDurable DEF CheckpointInv
<1> QED
  BY <1>1, <1>2, <1>3, TypeCorrect, PTL DEF Spec

-----------------------------------------------------------------------------
(* An unbound record is given up only as the operator saw it *)

LegacyInv == TypeOK /\ CheckpointBarrier /\ LegacyBarrier

\* While a record of an older controller is open, no worker takes a step.
LEMMA NoWorker ==
  ASSUME LegacyInv, LegacyOpen, NEW p \in Process
  PROVE  ~WorkerStep(p) /\ ~Claim(p)
<1>1. pc[p] \in CommandSteps /\ pause = "compaction_failed"
  BY DEF LegacyInv, LegacyBarrier
<1>2. ~Claim(p)
  BY <1>1 DEF Claim, ClaimGrant, MayClaim
<1>3. ~(\/ Open(p) \/ Prepare(p) \/ Reconcile(p) \/ Advance(p) \/ Decide(p)
        \/ Capture(p) \/ Record(p) \/ ArmGate(p) \/ AppendEntry(p) \/ SyncEntry(p))
  BY <1>1 DEF CommandSteps, Open, Prepare, Reconcile, Advance, Decide, Capture, Record,
              ArmGate, AppendEntry, SyncEntry
<1>4. ~(\/ Compacted(p) \/ Verify(p) \/ BeginTurn(p) \/ Turn(p) \/ Mark(p) \/ Complete(p)
        \/ Pause(p) \/ GateLost(p))
  BY <1>1 DEF CommandSteps, Compacted, Verify, BeginTurn, Turn, Mark, Complete, Pause, GateLost,
              Gated
<1> QED
  BY <1>2, <1>3, <1>4 DEF WorkerStep

\* What a worker writes is bound, or past its preparation.
LEMMA WorkerWrites ==
  ASSUME LegacyInv, NEW p \in Process, WorkerStep(p)
  PROVE  /\ record' = record \/ ~LegacyOpen'
         /\ record' = record \/ record'.phase # "aborted"
         /\ want' = want \/ want' = [want EXCEPT ![p] = NoDigest]
         /\ pc' \in [Process -> Step] => pc'[p] \notin CommandSteps \ {"idle"}
         /\ UNCHANGED <<manifest, issued>>
<1>0. record \in CheckpointRecord /\ seen[p] \in CheckpointRecord /\ pc \in [Process -> Step]
  BY DEF LegacyInv, TypeOK
<1> USE DEF repairVars, procVars
<1>1. CASE \/ Open(p) \/ Prepare(p) \/ Reconcile(p) \/ Decide(p) \/ Capture(p)
  BY <1>0, <1>1 DEF Open, Prepare, Reconcile, Decide, Capture, Require, Goto, Throw, CommandSteps
<1>2. CASE Advance(p) \/ Compacted(p) \/ Verify(p)
  <2>1. record' = record \/ record' = [record EXCEPT !.phase = NextPhase(record.phase)]
    BY <1>2 DEF Advance, Compacted, Verify, CheckpointTransition
  <2>2. record' = record \/ record'.phase \in {"compacted", "restored"}
    BY <1>0, <2>1 DEF CheckpointRecord, NextPhase
  <2> QED
    BY <1>0, <1>2, <2>2 DEF Advance, Compacted, Verify, Goto, Throw, LegacyOpen, CommandSteps
<1>3. CASE Record(p)
  <2>1. Holds(p) /\ record' = seen[p]
    BY <1>3 DEF Record, CheckpointPrepare, Holds
  <2>2. record'.bound /\ record'.phase = "prepared"
    BY <2>1 DEF LegacyInv, CheckpointBarrier, HeldApart
  <2> QED
    BY <1>0, <1>3, <2>2 DEF Record, Goto, LegacyOpen, CommandSteps
<1>4. CASE ArmGate(p) \/ AppendEntry(p) \/ SyncEntry(p) \/ BeginTurn(p) \/ Turn(p) \/ Mark(p)
  BY <1>0, <1>4 DEF ArmGate, AppendEntry, SyncEntry, BeginTurn, Turn, Mark, Goto, Throw, CommandSteps
<1>5. CASE Complete(p) \/ Pause(p) \/ GateLost(p)
  BY <1>0, <1>5 DEF Complete, Pause, GateLost, Stop, CommandSteps
<1> QED
  BY <1>1, <1>2, <1>3, <1>4, <1>5 DEF WorkerStep

\* A worker's step: nothing is open, and intents are left alone.
LEMMA WorkerKeepsLegacy ==
  ASSUME LegacyInv, TypeOK', NEW p \in Process, WorkerStep(p)
  PROVE  LegacyBarrier'
<1>1. ~LegacyOpen /\ ~LegacyOpen'
  BY NoWorker, WorkerWrites DEF LegacyOpen
<1>2. UNCHANGED <<manifest, issued>> /\ (want' = want \/ want' = [want EXCEPT ![p] = NoDigest])
  BY WorkerWrites
<1>3. \A q \in Process : pc'[q] = pc[q] \/ q = p
  BY ZenonT(30) DEF WorkerStep, Open, Prepare, Reconcile, Advance, Decide, Capture, Record, ArmGate,
         AppendEntry, SyncEntry, Compacted, Verify, BeginTurn, Turn, Mark, Complete, Pause, GateLost,
         Goto, Throw, Require, Stop, LegacyInv, TypeOK
<1>4. pc[p] \notin {"release", "publish", "leave"}
  BY DEF WorkerStep, Open, Prepare, Reconcile, Advance, Decide, Capture, Record, ArmGate,
         AppendEntry, SyncEntry, Compacted, Verify, BeginTurn, Turn, Mark, Complete, Pause, GateLost,
         Gated
<1>5. \A q \in Process : pc'[q] \in {"release", "publish", "leave"} \/ want'[q] \in OwnIntents'
  BY <1>2, <1>3, <1>4 DEF LegacyInv, LegacyBarrier, OwnIntents, TypeOK
<1> QED
  BY <1>1, <1>2, <1>5 DEF LegacyInv, LegacyBarrier, OwnIntents

\* A command's step.
LEMMA CommandKeepsLegacy ==
  ASSUME LegacyInv, TypeOK', NEW p \in Process, CommandStep(p)
  PROVE  LegacyBarrier'
<1>0. /\ pc \in [Process -> Step] /\ want \in [Process -> Digest]
      /\ seen \in [Process -> CheckpointRecord] /\ record \in CheckpointRecord
      /\ manifest \in OwnIntents
      /\ pc[p] \in {"release", "publish", "leave"} \/ want[p] \in OwnIntents
  BY DEF LegacyInv, LegacyBarrier, TypeOK
<1> DEFINE Goes == {"idle", "claim", "leave", "prove", "proveAgain", "giveBack", "abort",
                    "digest", "release", "publish"}
<1>1. PICK s \in Goes : pc' = [pc EXCEPT ![p] = s]
  BY DEF CommandStep, ConsumeManifest, ClaimRepair, Prove, ProveAgain, Abort, ClaimIntent, Stage,
         ReleaseIntent, Publish, GiveBack, Leave, Goto, Stop
<1>2. record' = record \/ record' = [record EXCEPT !.phase = "aborted"]
  BY DEF CommandStep, ConsumeManifest, ClaimRepair, Prove, ProveAgain, Abort, ClaimIntent, Stage,
         ReleaseIntent, Publish, GiveBack, Leave
<1>3. LegacyOpen' => LegacyOpen /\ record' = record
  BY <1>0, <1>2 DEF LegacyOpen, CheckpointRecord
<1>4. LegacyOpen' => pause' = pause
  <2>1. CASE Abort(p)
    BY <1>0, <1>3, <2>1 DEF Abort, LegacyOpen, CheckpointRecord, stateVars
  <2> QED
    BY <2>1 DEF CommandStep, ConsumeManifest, ClaimRepair, Prove, ProveAgain, ClaimIntent, Stage,
                ReleaseIntent, Publish, GiveBack, Leave, AppRelease, storeVars, stateVars
<1>5. UNCHANGED file
  BY DEF CommandStep, ConsumeManifest, ClaimRepair, Prove, ProveAgain, Abort, ClaimIntent, Stage,
         ReleaseIntent, Publish, GiveBack, Leave, diskVars
<1>6. OwnIntents \subseteq OwnIntents' /\ manifest' \in OwnIntents'
  BY <1>0 DEF CommandStep, ConsumeManifest, ClaimRepair, Prove, ProveAgain, Abort, ClaimIntent, Stage,
         ReleaseIntent, Publish, GiveBack, Leave, OwnIntents, repairVars
<1>7. \A q \in Process : q # p => want'[q] = want[q] /\ seen'[q] = seen[q] /\ pc'[q] = pc[q]
  <2>1. \A q \in Process : q # p => pc'[q] = pc[q]
    BY <1>0, <1>1
  <2>2. \A q \in Process : q # p => want'[q] = want[q]
    BY <1>0 DEF CommandStep, ConsumeManifest, ClaimRepair, Prove, ProveAgain, Abort, ClaimIntent,
           Stage, ReleaseIntent, Publish, GiveBack, Leave, Stop, repairVars
  <2>3. \A q \in Process : q # p => seen'[q] = seen[q]
    BY <1>0 DEF CommandStep, ConsumeManifest, ClaimRepair, Prove, ProveAgain, Abort, ClaimIntent,
           Stage, ReleaseIntent, Publish, GiveBack, Leave, RepairGrant, Stop, procVars
  <2> QED
    BY <2>1, <2>2, <2>3
<1>8. pc'[p] \in {"release", "publish", "leave"} \/ want'[p] \in OwnIntents'
  <2>1. CASE Stage(p)
    BY <1>0, <1>6, <2>1 DEF Stage, Goto
  <2>2. CASE ReleaseIntent(p) \/ Publish(p)
    BY <1>0, <2>2 DEF ReleaseIntent, Publish, Goto
  <2>3. CASE Leave(p)
    BY <1>0, <2>3 DEF Leave, Stop, OwnIntents
  <2>4. CASE ConsumeManifest(p)
    BY <1>0, <1>6, <2>4 DEF ConsumeManifest
  <2>5. CASE ClaimRepair(p)
    BY <1>0, <1>6, <2>5 DEF ClaimRepair, OwnIntents
  <2>6. CASE Prove(p) \/ ProveAgain(p) \/ Abort(p) \/ GiveBack(p) \/ ClaimIntent(p)
    BY <1>0, <1>6, <2>6 DEF Prove, ProveAgain, Abort, GiveBack, ClaimIntent, repairVars
  <2> QED
    BY <2>1, <2>2, <2>3, <2>4, <2>5, <2>6 DEF CommandStep
<1>9. pc'[p] = "abort" /\ LegacyOpen' /\ seen'[p] = record' =>
        file' = record'.gen /\ want'[p] = DigestOf(record', file')
  <2>1. pc'[p] = "abort" => ProveAgain(p)
    BY <1>0 DEF CommandStep, ConsumeManifest, ClaimRepair, Prove, Abort, ClaimIntent,
           Stage, ReleaseIntent, Publish, GiveBack, Leave, Goto, Stop
  <2>2. CASE ProveAgain(p) /\ pc'[p] = "abort"
    BY <1>0, <1>3, <2>2 DEF ProveAgain, Goto, IsOrphan, LegacyOpen, procVars, diskVars, repairVars
  <2> QED
    BY <2>1, <2>2
<1>10. LegacyOpen' => \A q \in Process : pc'[q] \in CommandSteps
  <2>1. s \in CommandSteps
    BY DEF CommandSteps
  <2> QED
    BY <1>0, <1>1, <1>3, <2>1 DEF LegacyInv, LegacyBarrier
<1>11. \A q \in Process : pc'[q] \in {"release", "publish", "leave"} \/ want'[q] \in OwnIntents'
  BY <1>6, <1>7, <1>8 DEF LegacyInv, LegacyBarrier
<1>12. \A q \in Process : pc'[q] = "abort" /\ LegacyOpen' /\ seen'[q] = record' =>
         file' = record'.gen /\ want'[q] = DigestOf(record', file')
  BY <1>3, <1>5, <1>7, <1>9 DEF LegacyInv, LegacyBarrier
<1> QED
  BY <1>3, <1>4, <1>6, <1>10, <1>11, <1>12 DEF LegacyInv, LegacyBarrier

\* Starts, stops, and what time and the host do.
LEMMA WorldKeepsLegacy ==
  ASSUME LegacyInv, TypeOK',
         \/ \E p \in Process : Acquire(p) \/ Claim(p) \/ LoseApp(p) \/ Drain(p) \/ Crash(p)
         \/ ExpireApp \/ ExpireLease \/ HostCrash \/ UNCHANGED vars
  PROVE  LegacyBarrier'
<1>0. /\ pc \in [Process -> Step] /\ want \in [Process -> Digest]
      /\ seen \in [Process -> CheckpointRecord]
  BY DEF LegacyInv, TypeOK
<1>1. CASE \E p \in Process : Acquire(p) \/ Claim(p) \/ LoseApp(p) \/ Drain(p) \/ Crash(p)
  <2>1. PICK p \in Process : Acquire(p) \/ Claim(p) \/ LoseApp(p) \/ Drain(p) \/ Crash(p)
    BY <1>1
  <2>2. UNCHANGED <<file, record, manifest, issued, pause>>
    BY <2>1 DEF Acquire, AppAcquire, Claim, ClaimGrant, LoseApp, Drain, AppRelease, Crash,
                diskVars, repairVars, storeVars, stateVars
  <2>3. LegacyOpen => ~Claim(p)
    BY NoWorker
  <2>4. \/ want' = want /\ seen' = seen /\ pc' = pc
        \/ want' = want /\ seen' = seen /\ pc[p] = "idle"
             /\ \E s \in {"consume", "intend", "open"} :
                  /\ pc' = [pc EXCEPT ![p] = s]
                  /\ s = "open" => Claim(p)
        \/ want' = [want EXCEPT ![p] = NoDigest] /\ pc' = [pc EXCEPT ![p] = "idle"]
             /\ seen' = [seen EXCEPT ![p] = NoCheckpoint]
    BY <2>1 DEF Acquire, Claim, LoseApp, Drain, Crash, Stop, Goto, procVars, repairVars
  <2>5. LegacyOpen => \A q \in Process : pc'[q] \in CommandSteps
    BY <1>0, <2>3, <2>4 DEF LegacyInv, LegacyBarrier, CommandSteps
  <2>6. \A q \in Process : pc'[q] \in {"release", "publish", "leave"} \/ want'[q] \in OwnIntents
    BY <1>0, <2>4 DEF LegacyInv, LegacyBarrier, OwnIntents
  <2>7. \A q \in Process : pc'[q] = "abort" =>
          pc[q] = "abort" /\ want'[q] = want[q] /\ seen'[q] = seen[q]
    BY <1>0, <2>4
  <2> QED
    BY <2>2, <2>5, <2>6, <2>7 DEF LegacyInv, LegacyBarrier, LegacyOpen, OwnIntents, DigestOf
<1>2. CASE ExpireApp \/ ExpireLease \/ UNCHANGED vars
  <2>1. UNCHANGED <<file, record, manifest, issued, pause, want, seen, pc>>
    BY <1>2 DEF ExpireApp, AppExpires, ExpireLease, LeaseExpires, vars, storeVars, stateVars,
                diskVars, repairVars, procVars
  <2> QED
    BY <2>1 DEF LegacyInv, LegacyBarrier, LegacyOpen, OwnIntents, DigestOf
<1>3. CASE HostCrash
  <2>1. /\ UNCHANGED <<record, manifest, issued, pause>>
        /\ \A q \in Process : pc'[q] = "idle" /\ want'[q] = NoDigest
    BY <1>3 DEF HostCrash, storeVars, stateVars
  <2> QED
    BY <2>1 DEF LegacyInv, LegacyBarrier, LegacyOpen, OwnIntents, CommandSteps
<1> QED
  BY <1>1, <1>2, <1>3

\* An intent that fits an open record of an older controller was published: the
\* two it could otherwise be name no checkpoint.
LEMMA FitsOnlyPublished ==
  ASSUME LegacyInv, [Next]_vars, record.phase = "prepared", record'.phase = "aborted",
         ~record.bound
  PROVE  file = record.gen /\ DigestOf(record, file) \in issued
<1>1. LegacyOpen /\ record.id # 0
  BY DEF LegacyInv, LegacyBarrier, LegacyOpen
<1>2. PICK p \in Process : Abort(p)
  <2>1. \A p \in Process : ~WorkerStep(p) /\ ~Claim(p)
    BY <1>1, NoWorker
  <2>2. record' # record
    OBVIOUS
  <2> QED
    BY <2>1, <2>2
       DEF Next, vars, CommandStep, ConsumeManifest, ClaimRepair, Prove, ProveAgain, ClaimIntent,
           Stage, ReleaseIntent, Publish, GiveBack, Leave, Acquire, LoseApp, Drain, Crash,
           ExpireApp, ExpireLease, HostCrash
<1>3. pc[p] = "abort" /\ record = seen[p]
  BY <1>2 DEF Abort, MayAbort
<1>4. file = record.gen /\ want[p] = DigestOf(record, file) /\ want[p] \in OwnIntents
  BY <1>1, <1>3 DEF LegacyInv, LegacyBarrier
<1>5. want[p].id = record.id /\ NoDigest.id = 0 /\ OldDigest.id = 0
  BY <1>4 DEF DigestOf, NoDigest, OldDigest
<1> QED
  BY <1>1, <1>4, <1>5 DEF OwnIntents

\* A record that does not say which file it was made on is given up only on an
\* intent published for it and for the file as it is: for any number of
\* controllers and commands, started, killed and suspended in any order.
THEOREM LegacyAuthorized == Spec => LegacyAbortAuthorized /\ []LegacyBarrier
<1>1. Init => LegacyBarrier
  <2> SUFFICES ASSUME Init PROVE LegacyBarrier
    OBVIOUS
  <2>1. LegacyOpen => record.id # 0 /\ pause = "compaction_failed"
    BY DEF Init, LegacyOpen, NoCheckpoint, LegacyCheckpoint
  <2> QED
    BY <2>1 DEF Init, LegacyBarrier, CommandSteps, OwnIntents
<1>2. TypeOK /\ TypeOK' /\ CheckpointBarrier /\ LegacyBarrier /\ [Next]_vars => LegacyBarrier'
  BY WorkerKeepsLegacy, CommandKeepsLegacy, WorldKeepsLegacy DEF LegacyInv, Next
<1>3. TypeOK /\ CheckpointBarrier /\ LegacyBarrier /\ [Next]_vars
        => [record.phase = "prepared" /\ record'.phase = "aborted" /\ ~record.bound =>
              file = record.gen /\ DigestOf(record, file) \in issued]_vars
  BY FitsOnlyPublished DEF LegacyInv
<1> QED
  BY <1>1, <1>2, <1>3, TypeCorrect, RestoredDurable, PTL DEF Spec, LegacyAbortAuthorized

-----------------------------------------------------------------------------
(* A checkpoint that was given up never comes *)

AbortInv == TypeOK /\ CheckpointBarrier /\ AbortBarrier

\* A step of process p leaves the others where they are.
LEMMA OthersStay ==
  ASSUME TypeOK, NEW p \in Process, NEW q \in Process, q # p,
         \/ WorkerStep(p) \/ CommandStep(p)
         \/ Acquire(p) \/ Claim(p) \/ LoseApp(p) \/ Drain(p) \/ Crash(p)
  PROVE  pc'[q] = pc[q] /\ ce'[q] = ce[q] /\ seen'[q] = seen[q] /\ reason'[q] = reason[q]
<1> USE DEF TypeOK, Goto, Throw, Stop, procVars
<1>1. CASE \/ Open(p) \/ Prepare(p) \/ Reconcile(p) \/ Advance(p) \/ Decide(p) \/ Capture(p)
  BY <1>1 DEF Open, Prepare, Reconcile, Require, Advance, Decide, Capture
<1>2. CASE \/ Record(p) \/ ArmGate(p) \/ AppendEntry(p) \/ SyncEntry(p) \/ Compacted(p) \/ Verify(p)
  BY <1>2 DEF Record, ArmGate, AppendEntry, AppendEnd, SyncEntry, Compacted, Verify
<1>3. CASE BeginTurn(p) \/ Turn(p) \/ Mark(p) \/ Complete(p) \/ Pause(p) \/ GateLost(p)
  BY <1>3 DEF BeginTurn, Turn, Mark, AppendEnd, Complete, Pause, GateLost
<1>4. CASE CommandStep(p)
  BY <1>4 DEF CommandStep, ConsumeManifest, ClaimRepair, Prove, ProveAgain, Abort, ClaimIntent,
         Stage, ReleaseIntent, Publish, GiveBack, Leave, RepairGrant
<1>5. CASE Acquire(p) \/ Claim(p) \/ LoseApp(p) \/ Drain(p) \/ Crash(p)
  BY <1>5 DEF Acquire, Claim, LoseApp, Drain, Crash
<1> QED
  BY <1>1, <1>2, <1>3, <1>4, <1>5 DEF WorkerStep

\* The epoch of p, and of the lease, after a step of p that is no grant.
LEMMA NoGrantEpochs ==
  ASSUME TypeOK, NEW p \in Process,
         \/ WorkerStep(p) \/ CommandStep(p)
         \/ Acquire(p) \/ LoseApp(p) \/ Drain(p) \/ Crash(p),
         ~(ClaimRepair(p) /\ RepairGrant(p)), ~(ClaimIntent(p) /\ RepairGrant(p))
  PROVE  leaseEpoch' = leaseEpoch /\ (ce'[p] = ce[p] \/ (ce'[p] = 0 /\ pc'[p] = "idle"))
<1> USE DEF TypeOK, Stop, procVars, storeVars, leaseVars
<1>1. CASE \/ Open(p) \/ Prepare(p) \/ Reconcile(p) \/ Advance(p) \/ Decide(p) \/ Capture(p)
  BY <1>1 DEF Open, Bind, Prepare, Reconcile, Advance, CheckpointTransition, Decide, Capture
<1>2. CASE \/ Record(p) \/ ArmGate(p) \/ AppendEntry(p) \/ SyncEntry(p) \/ Compacted(p) \/ Verify(p)
  BY <1>2 DEF Record, ArmGate, AppendEntry, AppendEnd, SyncEntry, Compacted, Verify
<1>3. CASE BeginTurn(p) \/ Turn(p) \/ Mark(p) \/ Complete(p) \/ Pause(p) \/ GateLost(p)
  BY <1>3 DEF BeginTurn, BeginTurnMark, Turn, Mark, AppendEnd, Complete, CompleteEvent, Pause, SetPause, GateLost
<1>4. CASE CommandStep(p)
  BY <1>4 DEF CommandStep, ConsumeManifest, ClaimRepair, Prove, ProveAgain, Abort, ClaimIntent,
         Stage, ReleaseIntent, Publish, GiveBack, Leave, FreeLease, AppRelease
<1>5. CASE Acquire(p) \/ LoseApp(p) \/ Drain(p) \/ Crash(p)
  BY <1>5 DEF Acquire, AppAcquire, LoseApp, Drain, AppRelease, Crash
<1> QED
  BY <1>1, <1>2, <1>3, <1>4, <1>5 DEF WorkerStep

\* A grant takes the next epoch, for an event of the chat.
LEMMA GrantEpochs ==
  ASSUME TypeOK, NEW p \in Process,
         Claim(p) \/ (ClaimRepair(p) /\ RepairGrant(p)) \/ (ClaimIntent(p) /\ RepairGrant(p))
  PROVE  /\ leaseEpoch' = leaseEpoch + 1 /\ ce'[p] = leaseEpoch + 1
         /\ leaseEpoch \in Nat
         /\ UNCHANGED <<pause, file, record>>
         /\ \/ pause = "none" /\ pc'[p] = "open" /\ pc[p] = "idle"
            \/ pause = "compaction_failed" /\ pc'[p] \in {"prove", "digest"}
               /\ pc[p] \in {"claim", "intend"}
<1> USE DEF TypeOK, StoreTypeOK, Goto, storeVars, leaseVars, stateVars, diskVars
<1>1. CASE Claim(p)
  BY <1>1 DEF Claim, ClaimGrant, MayClaim
<1>2. CASE ClaimRepair(p) /\ RepairGrant(p)
  <2>1. /\ leaseEpoch' = leaseEpoch + 1 /\ ce'[p] = leaseEpoch + 1 /\ leaseEpoch \in Nat
        /\ leaseEpoch' # leaseEpoch
    BY <1>2 DEF RepairGrant
  <2>2. pause = "compaction_failed" /\ pc' = [pc EXCEPT ![p] = "prove"] /\ pc[p] = "claim"
    <3>1. ~UNCHANGED leaseVars
      BY <2>1
    <3> QED
      BY <1>2, <3>1 DEF ClaimRepair, RepairEvidence
  <2>3. UNCHANGED <<pause, file, record>>
    BY <1>2 DEF ClaimRepair
  <2> QED
    BY <2>1, <2>2, <2>3
<1>3. CASE ClaimIntent(p) /\ RepairGrant(p)
  <2>1. /\ leaseEpoch' = leaseEpoch + 1 /\ ce'[p] = leaseEpoch + 1 /\ leaseEpoch \in Nat
        /\ leaseEpoch' # leaseEpoch
    BY <1>3 DEF RepairGrant
  <2>2. pause = "compaction_failed" /\ pc' = [pc EXCEPT ![p] = "digest"] /\ pc[p] = "intend"
    <3>1. ~UNCHANGED leaseVars
      BY <2>1
    <3> QED
      BY <1>3, <3>1 DEF ClaimIntent, RepairEvidence
  <2>3. UNCHANGED <<pause, file, record>>
    BY <1>3 DEF ClaimIntent
  <2> QED
    BY <2>1, <2>2, <2>3
<1> QED
  BY <1>1, <1>2, <1>3

\* The fenced holder of the lease is the newest, and nobody else is.
LEMMA WorkIsNewest ==
  ASSUME AbortInv, NEW p \in Process, Work(ep[p], ce[p], ev[p]),
         pc[p] \notin {"idle", "consume", "claim", "intend", "leave"}
  PROVE  Newest(p) /\ \A q \in Process : Newest(q) => q = p
BY DEF AbortInv, AbortBarrier, OwnEpochs, Work, Newest

\* The steps at which a process may have no chat epoch.
Unleased == {"idle", "consume", "claim", "intend", "leave"}

\* Only a grant leads to a step that needs an epoch.
LEMMA NoGrantSteps ==
  ASSUME TypeOK, NEW p \in Process,
         \/ WorkerStep(p) \/ CommandStep(p)
         \/ Acquire(p) \/ LoseApp(p) \/ Drain(p) \/ Crash(p),
         ~(ClaimRepair(p) /\ RepairGrant(p)), ~(ClaimIntent(p) /\ RepairGrant(p)),
         pc'[p] \notin Unleased
  PROVE  pc[p] \notin Unleased
<1> USE DEF TypeOK, Stop, Goto, procVars, Unleased
<1>1. CASE WorkerStep(p)
  BY <1>1 DEF WorkerStep, Open, Prepare, Reconcile, Advance, Decide, Capture, Record, ArmGate,
         AppendEntry, SyncEntry, Compacted, Verify, BeginTurn, Turn, Mark, Complete, Pause, GateLost,
         Gated
<1>2. CASE CommandStep(p)
  BY <1>2 DEF CommandStep, ConsumeManifest, ClaimRepair, Prove, ProveAgain, Abort, ClaimIntent,
         Stage, ReleaseIntent, Publish, GiveBack, Leave
<1>3. CASE Acquire(p) \/ LoseApp(p) \/ Drain(p) \/ Crash(p)
  BY <1>3 DEF Acquire, LoseApp, Drain, Crash
<1> QED
  BY <1>1, <1>2, <1>3

\* A process has an epoch of its own, and none is newer than the lease's.
LEMMA EpochsKeep ==
  ASSUME AbortInv, TypeOK', [Next]_vars
  PROVE  OwnEpochs'
<1>0. /\ ce \in [Process -> Nat] /\ leaseEpoch \in Nat
      /\ ce' \in [Process -> Nat] /\ leaseEpoch' \in Nat
  BY DEF AbortInv, TypeOK, StoreTypeOK
<1>1. ASSUME NEW p \in Process,
             Claim(p) \/ (ClaimRepair(p) /\ RepairGrant(p)) \/ (ClaimIntent(p) /\ RepairGrant(p))
      PROVE  OwnEpochs'
  <2>1. leaseEpoch' = leaseEpoch + 1 /\ ce'[p] = leaseEpoch + 1
    BY <1>1, GrantEpochs DEF AbortInv
  <2>2. \A q \in Process : q # p => ce'[q] = ce[q] /\ pc'[q] = pc[q]
    BY <1>1, OthersStay DEF AbortInv, CommandStep
  <2>3. \A q \in Process : q # p => ce'[q] <= leaseEpoch
    BY <2>2 DEF AbortInv, AbortBarrier, OwnEpochs
  <2> QED
    BY <1>0, <2>1, <2>2, <2>3 DEF AbortInv, AbortBarrier, OwnEpochs
<1>2. ASSUME NEW p \in Process,
             \/ WorkerStep(p) \/ CommandStep(p)
             \/ Acquire(p) \/ LoseApp(p) \/ Drain(p) \/ Crash(p),
             ~(ClaimRepair(p) /\ RepairGrant(p)), ~(ClaimIntent(p) /\ RepairGrant(p))
      PROVE  OwnEpochs'
  <2>1. leaseEpoch' = leaseEpoch /\ (ce'[p] = ce[p] \/ (ce'[p] = 0 /\ pc'[p] = "idle"))
    BY <1>2, NoGrantEpochs DEF AbortInv
  <2>2. \A q \in Process : q # p => ce'[q] = ce[q] /\ pc'[q] = pc[q]
    BY <1>2, OthersStay DEF AbortInv
  <2>3. pc'[p] \notin Unleased => pc[p] \notin Unleased
    BY <1>2, NoGrantSteps DEF AbortInv
  <2> QED
    BY <1>0, <2>1, <2>2, <2>3 DEF AbortInv, AbortBarrier, OwnEpochs, Unleased
<1>3. CASE ExpireApp \/ ExpireLease \/ UNCHANGED vars
  <2>1. UNCHANGED <<leaseEpoch, ce, pc>>
    BY <1>3 DEF ExpireApp, AppExpires, ExpireLease, LeaseExpires, vars, storeVars, leaseVars, procVars
  <2> QED
    BY <2>1 DEF AbortInv, AbortBarrier, OwnEpochs
<1>4. CASE HostCrash
  <2>1. leaseEpoch' = leaseEpoch /\ \A q \in Process : ce'[q] = 0 /\ pc'[q] = "idle"
    BY <1>4 DEF HostCrash, storeVars, leaseVars
  <2> QED
    BY <1>0, <2>1 DEF OwnEpochs
<1> QED
  BY <1>1, <1>2, <1>3, <1>4 DEF Next

\* Who is the newest after a step of p that is no grant was it before.
LEMMA NewestStays ==
  ASSUME AbortInv, NEW p \in Process, NEW q \in Process, Newest(q)',
         \/ WorkerStep(p) \/ CommandStep(p)
         \/ Acquire(p) \/ LoseApp(p) \/ Drain(p) \/ Crash(p),
         ~(ClaimRepair(p) /\ RepairGrant(p)), ~(ClaimIntent(p) /\ RepairGrant(p))
  PROVE  Newest(q) /\ (q # p => pc'[q] = pc[q] /\ seen'[q] = seen[q] /\ reason'[q] = reason[q])
BY NoGrantEpochs, OthersStay DEF AbortInv, Newest

\* After a grant to p only p is the newest.
LEMMA NewestGranted ==
  ASSUME AbortInv, NEW p \in Process, NEW q \in Process, Newest(q)',
         Claim(p) \/ (ClaimRepair(p) /\ RepairGrant(p)) \/ (ClaimIntent(p) /\ RepairGrant(p))
  PROVE  q = p
<1>1. leaseEpoch' = leaseEpoch + 1 /\ leaseEpoch \in Nat
  BY GrantEpochs DEF AbortInv
<1>2. q # p => ce'[q] = ce[q]
  BY OthersStay DEF AbortInv, CommandStep
<1>3. ce[q] \in Nat /\ ce[q] <= leaseEpoch
  BY DEF AbortInv, TypeOK, AbortBarrier, OwnEpochs
<1> QED
  BY <1>1, <1>2, <1>3 DEF Newest

\* What p's step does to the pause: only the worker's catch sets it, only an
\* abort clears it, and both under p's own leases.
LEMMA PauseShape ==
  ASSUME TypeOK, NEW p \in Process,
         \/ WorkerStep(p) \/ CommandStep(p) \/ Claim(p)
         \/ Acquire(p) \/ LoseApp(p) \/ Drain(p) \/ Crash(p),
         pause' # pause
  PROVE  \/ /\ Pause(p) /\ pause' = reason[p] /\ pc[p] = "catch" /\ pc'[p] = "idle"
            /\ Work(ep[p], ce[p], ev[p])
         \/ /\ Abort(p) /\ MayAbort(p) /\ pc[p] = "abort" /\ pc'[p] = "leave"
            /\ record' = [record EXCEPT !.phase = "aborted"]
<1> USE DEF TypeOK, Stop, Goto, storeVars, stateVars
<1>1. CASE \/ Open(p) \/ Prepare(p) \/ Reconcile(p) \/ Advance(p) \/ Decide(p) \/ Capture(p)
  BY <1>1 DEF Open, Bind, Prepare, Reconcile, Advance, CheckpointTransition, Decide, Capture
<1>2. CASE \/ Record(p) \/ ArmGate(p) \/ AppendEntry(p) \/ SyncEntry(p) \/ Compacted(p) \/ Verify(p)
  BY <1>2 DEF Record, ArmGate, AppendEntry, AppendEnd, SyncEntry, Compacted, Verify
<1>3. CASE BeginTurn(p) \/ Turn(p) \/ Mark(p) \/ Complete(p) \/ GateLost(p)
  BY <1>3 DEF BeginTurn, BeginTurnMark, Turn, Mark, Complete, CompleteEvent, GateLost
<1>4. CASE Pause(p)
  BY <1>4 DEF Pause, SetPause
<1>5. CASE Abort(p)
  BY <1>5 DEF Abort
<1>6. CASE CommandStep(p) /\ ~Abort(p)
  BY <1>6 DEF CommandStep, ConsumeManifest, ClaimRepair, Prove, ProveAgain, ClaimIntent,
         Stage, ReleaseIntent, Publish, GiveBack, Leave, AppRelease
<1>7. CASE Claim(p) \/ Acquire(p) \/ LoseApp(p) \/ Drain(p) \/ Crash(p)
  BY <1>7 DEF Claim, ClaimGrant, Acquire, AppAcquire, LoseApp, Drain, AppRelease, Crash
<1> QED
  BY <1>1, <1>2, <1>3, <1>4, <1>5, <1>6, <1>7 DEF WorkerStep

\* Where a step of p that is no grant may come from.
LEMMA StepsComeFrom ==
  ASSUME TypeOK, NEW p \in Process,
         \/ WorkerStep(p) \/ CommandStep(p)
         \/ Acquire(p) \/ LoseApp(p) \/ Drain(p) \/ Crash(p),
         ~(ClaimRepair(p) /\ RepairGrant(p))
  PROVE  /\ pc'[p] \in WorkerSteps => pc[p] \in WorkerSteps
         /\ pc'[p] \in {"prove", "proveAgain", "abort"} => pc[p] \in {"prove", "proveAgain", "abort"}
<1> USE DEF TypeOK, Stop, Goto, Throw, procVars, WorkerSteps
<1>1. CASE WorkerStep(p)
  <2>1. pc[p] \in WorkerSteps
    BY <1>1 DEF WorkerStep, Open, Prepare, Reconcile, Advance, Decide, Capture, Record, ArmGate,
         AppendEntry, SyncEntry, Compacted, Verify, BeginTurn, Turn, Mark, Complete, Pause, GateLost,
         Gated
  <2>2. pc'[p] \in WorkerSteps \cup {"idle"}
    BY <1>1 DEF WorkerStep, Open, Prepare, Reconcile, Require, Advance, Decide, Capture, Record,
         ArmGate, AppendEntry, SyncEntry, Compacted, Verify, BeginTurn, Turn, Mark, Complete, Pause,
         GateLost
  <2> QED
    BY <2>1, <2>2
<1>2. CASE CommandStep(p)
  BY ZenonT(30), <1>2 DEF CommandStep, ConsumeManifest, ClaimRepair, Prove, ProveAgain, Abort, ClaimIntent,
         Stage, ReleaseIntent, Publish, GiveBack, Leave
<1>3. CASE Acquire(p) \/ LoseApp(p) \/ Drain(p) \/ Crash(p)
  BY <1>3 DEF Acquire, LoseApp, Drain, Crash
<1> QED
  BY <1>1, <1>2, <1>3

\* The steps of a process with the newest epoch tell the pause.
LEMMA NewestPausesKeep ==
  ASSUME AbortInv, TypeOK', [Next]_vars
  PROVE  NewestPauses'
<1>1. ASSUME NEW p \in Process,
             Claim(p) \/ (ClaimRepair(p) /\ RepairGrant(p)) \/ (ClaimIntent(p) /\ RepairGrant(p))
      PROVE  NewestPauses'
  <2>1. /\ pause' = pause
        /\ \/ pause = "none" /\ pc'[p] = "open"
           \/ pause = "compaction_failed" /\ pc'[p] \in {"prove", "digest"}
    BY <1>1, GrantEpochs DEF AbortInv
  <2>2. \A q \in Process : Newest(q)' => q = p
    BY <1>1, NewestGranted
  <2> QED
    BY <2>1, <2>2 DEF NewestPauses, WorkerSteps
<1>2. ASSUME NEW p \in Process,
             \/ WorkerStep(p) \/ CommandStep(p)
             \/ Acquire(p) \/ LoseApp(p) \/ Drain(p) \/ Crash(p),
             ~(ClaimRepair(p) /\ RepairGrant(p)), ~(ClaimIntent(p) /\ RepairGrant(p))
      PROVE  NewestPauses'
  <2>1. ASSUME NEW q \in Process, Newest(q)'
        PROVE  /\ pc'[q] \in WorkerSteps => pause' = "none"
               /\ pc'[q] \in {"prove", "proveAgain", "abort"} => pause' = "compaction_failed"
    <3>1. Newest(q) /\ (q # p => pc'[q] = pc[q])
      BY <1>2, <2>1, NewestStays
    <3>2. /\ pc[q] \in WorkerSteps => pause = "none"
          /\ pc[q] \in {"prove", "proveAgain", "abort"} => pause = "compaction_failed"
      BY <3>1 DEF AbortInv, AbortBarrier, NewestPauses
    <3>3. CASE pause' = pause
      <4>1. CASE q = p
        BY <1>2, <3>2, <3>3, <4>1, StepsComeFrom DEF AbortInv
      <4> QED
        BY <3>1, <3>2, <3>3, <4>1
    <3>4. CASE pause' # pause
      <4>1. pc'[p] \in {"idle", "leave"} /\ pc[p] \in {"catch", "abort"}
            /\ Work(ep[p], ce[p], ev[p])
        BY <1>2, <3>4, PauseShape DEF AbortInv, MayAbort
      <4>2. q = p
        BY <3>1, <4>1, WorkIsNewest
      <4> QED
        BY <4>1, <4>2 DEF WorkerSteps
    <3> QED
      BY <3>3, <3>4
  <2> QED
    BY <2>1 DEF NewestPauses
<1>3. CASE ExpireApp \/ ExpireLease \/ UNCHANGED vars
  <2>1. UNCHANGED <<leaseEpoch, ce, pc, pause>>
    BY <1>3 DEF ExpireApp, AppExpires, ExpireLease, LeaseExpires, vars, storeVars, leaseVars,
                stateVars, procVars
  <2> QED
    BY <2>1 DEF AbortInv, AbortBarrier, NewestPauses, Newest
<1>4. CASE HostCrash
  BY <1>4 DEF HostCrash, NewestPauses, Newest
<1> QED
  BY <1>1, <1>2, <1>3, <1>4 DEF Next

\* What p's step does to the record.
LEMMA RecordShape ==
  ASSUME AbortInv, NEW p \in Process,
         \/ WorkerStep(p) \/ CommandStep(p) \/ Claim(p)
         \/ Acquire(p) \/ LoseApp(p) \/ Drain(p) \/ Crash(p),
         record' # record
  PROVE  \/ /\ Record(p) /\ record' = seen[p] /\ pc[p] = "record" /\ pc'[p] = "armed"
            /\ seen' = seen /\ record'.phase = "prepared" /\ record.phase # "prepared"
            /\ Work(ep[p], ce[p], ev[p])
         \/ record'.id = record.id /\ record'.phase \in {"compacted", "restored"}
         \/ /\ record'.id = record.id /\ record'.phase = "aborted" /\ pc'[p] = "leave"
            /\ Abort(p) /\ MayAbort(p) /\ pc[p] = "abort"
<1>0. /\ record \in CheckpointRecord /\ pc \in [Process -> Step]
      /\ NextPhase(record.phase) \in {"compacted", "restored"}
  BY DEF AbortInv, TypeOK, NextPhase
<1> USE DEF Goto, procVars
<1>1. CASE Advance(p) \/ Compacted(p) \/ Verify(p)
  <2>1. record' = [record EXCEPT !.phase = NextPhase(record.phase)]
    BY <1>1 DEF Advance, Compacted, Verify, CheckpointTransition
  <2> QED
    BY <1>0, <2>1 DEF CheckpointRecord
<1>2. CASE Record(p)
  <2>1. seen[p].phase = "prepared"
    BY <1>2 DEF Record, Holds, AbortInv, CheckpointBarrier, HeldApart
  <2> QED
    BY <1>0, <1>2, <2>1 DEF Record, CheckpointPrepare
<1>3. CASE Abort(p)
  BY <1>0, <1>3 DEF Abort, CheckpointRecord
<1>4. CASE WorkerStep(p) /\ ~(Advance(p) \/ Compacted(p) \/ Verify(p) \/ Record(p))
  BY <1>4 DEF WorkerStep, Open, Prepare, Reconcile, Decide, Capture, ArmGate,
         AppendEntry, SyncEntry, BeginTurn, Turn, Mark, Complete, Pause, GateLost
<1>5. CASE CommandStep(p) /\ ~Abort(p)
  BY <1>5 DEF CommandStep, ConsumeManifest, ClaimRepair, Prove, ProveAgain, ClaimIntent,
         Stage, ReleaseIntent, Publish, GiveBack, Leave
<1>6. CASE Claim(p) \/ Acquire(p) \/ LoseApp(p) \/ Drain(p) \/ Crash(p)
  BY <1>6 DEF Claim, Acquire, LoseApp, Drain, Crash
<1> QED
  BY <1>1, <1>2, <1>3, <1>4, <1>5, <1>6

\* Who is about to append was it before, but for the step that recorded it.
LEMMA PendingFrom ==
  ASSUME AbortInv, NEW p \in Process, NEW q \in Process,
         \/ WorkerStep(p) \/ CommandStep(p) \/ Claim(p)
         \/ Acquire(p) \/ LoseApp(p) \/ Drain(p) \/ Crash(p),
         pc'[q] \in {"armed", "append"}
  PROVE  \/ q = p /\ Record(p)
         \/ pc[q] \in {"armed", "append"} /\ seen'[q] = seen[q]
<1>1. CASE q # p
  BY <1>1, OthersStay DEF AbortInv
<1>2. CASE q = p
  <2> USE <1>2 DEF AbortInv, TypeOK, Goto, Throw, Stop, procVars
  <2>1. CASE WorkerStep(p) /\ ~Record(p)
    BY <2>1 DEF WorkerStep, Open, Prepare, Reconcile, Require, Advance, Decide, Capture, ArmGate,
           AppendEntry, SyncEntry, Compacted, Verify, BeginTurn, Turn, Mark, Complete, Pause, GateLost
  <2>2. CASE CommandStep(p)
    BY <2>2 DEF CommandStep, ConsumeManifest, ClaimRepair, Prove, ProveAgain, Abort, ClaimIntent,
           Stage, ReleaseIntent, Publish, GiveBack, Leave
  <2>3. CASE Claim(p) \/ Acquire(p) \/ LoseApp(p) \/ Drain(p) \/ Crash(p)
    BY <2>3 DEF Claim, Acquire, LoseApp, Drain, Crash
  <2> QED
    BY <2>1, <2>2, <2>3
<1> QED
  BY <1>1, <1>2

\* Behind a worker that has not appended its entry yet, the newest worker finds
\* the record open and the entry missing, and pauses for that.
LEMMA SuccessorIsSafe ==
  ASSUME AbortInv, NEW q \in Process, Pending(q), NEW p \in Process, p # q,
         Newest(p), WorkerStep(p), record' = record
  PROVE  \/ pc'[p] \in CommandSteps \cup {"open", "prepare", "complete"}
         \/ pc'[p] = "reconcile" /\ seen'[p].id = record.id
         \/ pc'[p] = "catch" /\ reason'[p] # "compaction_failed"
<1>0. /\ pc \in [Process -> Step] /\ seen \in [Process -> CheckpointRecord]
      /\ reason \in [Process -> Pauses \cup {"none"}]
  BY DEF AbortInv, TypeOK
<1>1. record.phase = "prepared" /\ ~InFile(record.id)
  BY DEF Pending, Holds, AbortInv, CheckpointBarrier, HeldApart
<1>2. \/ pc[p] \in CommandSteps \cup {"open", "prepare", "complete"}
      \/ pc[p] = "reconcile" /\ seen[p].id = record.id
      \/ pc[p] = "catch" /\ reason[p] # "compaction_failed"
  BY DEF AbortInv, AbortBarrier, PendingIsSafe
<1>3. CASE Open(p)
  BY <1>0, <1>3 DEF Open, Goto, Throw
<1>4. CASE Prepare(p)
  BY <1>0, <1>1, <1>4 DEF Prepare, Goto
<1>5. CASE Reconcile(p)
  <2>1. seen[p].id = record.id
    BY <1>2, <1>5 DEF Reconcile, CommandSteps
  <2>3. ~Claimed(seen[p].id)
    BY <1>1, <2>1, ClaimedInFile
  <2> QED
    BY <1>0, <1>5, <2>3 DEF Reconcile, Require, Throw
<1>6. CASE Complete(p) \/ Pause(p) \/ GateLost(p)
  BY <1>0, <1>6 DEF Complete, Pause, GateLost, Stop, CommandSteps
<1>7. CASE \/ Advance(p) \/ Decide(p) \/ Capture(p) \/ Record(p) \/ ArmGate(p) \/ AppendEntry(p)
           \/ SyncEntry(p) \/ Compacted(p) \/ Verify(p) \/ BeginTurn(p) \/ Turn(p) \/ Mark(p)
  BY <1>2, <1>7 DEF Advance, Decide, Capture, Record, ArmGate, AppendEntry, SyncEntry, Compacted,
         Verify, BeginTurn, Turn, Mark, CommandSteps
<1> QED
  BY <1>3, <1>4, <1>5, <1>6, <1>7 DEF WorkerStep

\* A command stays among its steps.
LEMMA CommandsStay ==
  ASSUME TypeOK, NEW p \in Process,
         CommandStep(p) \/ Acquire(p) \/ Drain(p) \/ Crash(p)
  PROVE  pc'[p] \in CommandSteps \/ pc'[p] = pc[p]
BY DEF TypeOK, CommandStep, ConsumeManifest, ClaimRepair, Prove, ProveAgain, Abort, ClaimIntent,
       Stage, ReleaseIntent, Publish, GiveBack, Leave, Acquire, Drain, Crash, Goto, Stop, CommandSteps

\* A worker about to append keeps the repair command out.
LEMMA PendingIsSafeKeep ==
  ASSUME AbortInv, TypeOK', [Next]_vars
  PROVE  PendingIsSafe'
<1> DEFINE Ok(r) == \/ pc[r] \in CommandSteps \cup {"open", "prepare", "complete"}
                    \/ pc[r] = "reconcile" /\ seen[r].id = record.id
                    \/ pc[r] = "catch" /\ reason[r] # "compaction_failed"
<1>1. ASSUME NEW p \in Process,
             Claim(p) \/ (ClaimRepair(p) /\ RepairGrant(p)) \/ (ClaimIntent(p) /\ RepairGrant(p))
      PROVE  PendingIsSafe'
  <2>1. /\ UNCHANGED <<pause, record>>
        /\ \/ pause = "none" /\ pc'[p] = "open"
           \/ pause = "compaction_failed" /\ pc'[p] \in {"prove", "digest"}
    BY <1>1, GrantEpochs DEF AbortInv
  <2>2. \A q \in Process : Newest(q)' => q = p
    BY <1>1, NewestGranted
  <2>3. \A q \in Process : Pending(q)' => Pending(q)
    <3>1. ~Record(p)
      BY <2>1, <1>1 DEF Record, Claim, ClaimRepair, ClaimIntent
    <3> QED
      BY <1>1, <2>1, <3>1, PendingFrom DEF Pending, CommandStep
  <2>4. \A q \in Process : Pending(q)' => pause # "compaction_failed"
    BY <2>3 DEF AbortInv, AbortBarrier, PendingIsSafe
  <2> QED
    BY <2>1, <2>2, <2>4 DEF PendingIsSafe
<1>2. ASSUME NEW p \in Process,
             \/ WorkerStep(p) \/ CommandStep(p)
             \/ Acquire(p) \/ LoseApp(p) \/ Drain(p) \/ Crash(p),
             ~(ClaimRepair(p) /\ RepairGrant(p)), ~(ClaimIntent(p) /\ RepairGrant(p))
      PROVE  PendingIsSafe'
  <2> SUFFICES ASSUME NEW q \in Process, Pending(q)'
               PROVE  /\ pause' # "compaction_failed"
                      /\ \A r \in Process : Newest(r)' /\ r # q => Ok(r)'
    BY DEF PendingIsSafe
  <2>1. CASE record' # record
    <3>1. /\ Record(p) /\ record' = seen[p] /\ pc[p] = "record" /\ seen' = seen
          /\ Work(ep[p], ce[p], ev[p])
      BY <1>2, <2>1, RecordShape DEF Pending
    <3>2. q = p
      <4>1. q # p => Holds(q) /\ seen[q].id = seen[p].id
        BY <1>2, <3>1, PendingFrom DEF Pending, Holds
      <4>2. Holds(p)
        BY <3>1 DEF Holds
      <4> QED
        BY <4>1, <4>2 DEF AbortInv, CheckpointBarrier, HeldApart
    <3>3. Newest(p) /\ \A r \in Process : Newest(r) => r = p
      BY <3>1, WorkIsNewest
    <3>4. pause = "none" /\ pause' = pause
      BY <3>1, <3>3 DEF AbortInv, AbortBarrier, NewestPauses, WorkerSteps,
                        Record, storeVars, stateVars
    <3>5. \A r \in Process : Newest(r)' => r = q
      BY <1>2, <3>2, <3>3, NewestStays
    <3> QED
      BY <3>4, <3>5
  <2>2. CASE record' = record
    <3>1. ~Record(p)
      BY <2>2 DEF Record, CheckpointPrepare, Holds, AbortInv, CheckpointBarrier, HeldApart
    <3>2. Pending(q) /\ seen'[q] = seen[q]
      BY <1>2, <2>2, <3>1, PendingFrom DEF Pending
    <3>3. pause # "compaction_failed" /\ \A r \in Process : Newest(r) /\ r # q => Ok(r)
      BY <3>2 DEF AbortInv, AbortBarrier, PendingIsSafe
    <3>4. pause' # "compaction_failed"
      <4>1. CASE pause' = pause
        BY <3>3, <4>1
      <4>2. CASE pause' # pause
        <5>1. ~MayAbort(p)
          BY <3>3 DEF MayAbort, RepairEvidence
        <5>2. /\ pause' = reason[p] /\ pc[p] = "catch" /\ pc'[p] = "idle"
              /\ Work(ep[p], ce[p], ev[p])
          BY <1>2, <4>2, <5>1, PauseShape DEF AbortInv
        <5>3. p # q
          BY <5>2 DEF Pending
        <5>4. Newest(p)
          BY <5>2, WorkIsNewest
        <5> QED
          BY <3>3, <5>2, <5>3, <5>4 DEF CommandSteps
      <4> QED
        BY <4>1, <4>2
    <3>5. ASSUME NEW r \in Process, Newest(r)', r # q
          PROVE  Ok(r)'
      <4>1. Newest(r) /\ (r # p => pc'[r] = pc[r] /\ seen'[r] = seen[r] /\ reason'[r] = reason[r])
        BY <1>2, <3>5, NewestStays
      <4>2. Ok(r)
        BY <3>3, <3>5, <4>1
      <4>3. CASE r # p
        BY <2>2, <4>1, <4>2, <4>3
      <4>4. CASE r = p /\ WorkerStep(p)
        BY <2>2, <3>2, <3>5, <4>1, <4>4, SuccessorIsSafe
      <4>5. CASE r = p /\ LoseApp(p)
        BY <2>2, <4>2, <4>5 DEF LoseApp, procVars
      <4>6. CASE r = p /\ (CommandStep(p) \/ Acquire(p) \/ Drain(p) \/ Crash(p))
        <5>1. CASE pc'[p] \in CommandSteps
          BY <4>6, <5>1
        <5>2. CASE pc'[p] = pc[p] /\ pc'[p] \notin CommandSteps
          BY <4>6, <5>2 DEF AbortInv, TypeOK, CommandStep, ConsumeManifest, ClaimRepair, Prove,
             ProveAgain, Abort, ClaimIntent, Stage, ReleaseIntent, Publish, GiveBack, Leave, Acquire,
             Drain, Crash, Goto, Stop, CommandSteps
        <5> QED
          BY <4>6, <5>1, <5>2, CommandsStay DEF AbortInv
      <4> QED
        BY <1>2, <4>3, <4>4, <4>5, <4>6
    <3> QED
      BY <3>4, <3>5
  <2> QED
    BY <2>1, <2>2
<1>3. CASE ExpireApp \/ ExpireLease \/ UNCHANGED vars
  <2>1. UNCHANGED <<leaseEpoch, ce, pc, pause, record, seen, reason>>
    BY <1>3 DEF ExpireApp, AppExpires, ExpireLease, LeaseExpires, vars, storeVars, leaseVars,
                stateVars, procVars
  <2> QED
    BY <2>1 DEF AbortInv, AbortBarrier, PendingIsSafe, Pending, Newest
<1>4. CASE HostCrash
  BY <1>4 DEF HostCrash, PendingIsSafe, Pending
<1> QED
  BY <1>1, <1>2, <1>3, <1>4 DEF Next

\* Entries come only from a worker at its append.
LEMMA EntryFrom ==
  ASSUME AbortInv, [Next]_vars, NEW c,
         \E i \in 1..Len(file') : file'[i] = <<"compaction", c>>
  PROVE  \/ InFile(c)
         \/ \E p \in Process : AppendEntry(p) /\ pc[p] = "append" /\ seen[p].id = c
<1>0. file \in Seq(Entry) /\ synced \in 0..Len(file) /\ Len(file) \in Nat
  BY DEF AbortInv, TypeOK
<1>1. CASE file' = file
  BY <1>1 DEF InFile
<1>2. ASSUME NEW x \in Entry, file' = Append(file, x)
      PROVE  InFile(c) \/ x = <<"compaction", c>>
  <2>a. /\ Len(file') = Len(file) + 1 /\ file'[Len(file) + 1] = x
        /\ \A i \in 1..Len(file) : file'[i] = file[i]
    BY <1>0, <1>2, AppendProperties
  <2>1. PICK i \in 1..Len(file') : file'[i] = <<"compaction", c>>
    OBVIOUS
  <2>2. CASE i \in 1..Len(file)
    BY <2>a, <2>1, <2>2 DEF InFile
  <2>3. CASE i = Len(file) + 1
    BY <2>a, <2>1, <2>3
  <2> QED
    BY <1>0, <2>a, <2>1, <2>2, <2>3
<1>3. ASSUME NEW p \in Process, AppendEntry(p)
      PROVE  InFile(c) \/ (pc[p] = "append" /\ seen[p].id = c)
  <2>1. CASE file' = Append(file, <<"compaction", seen[p].id>>)
    <3>1. <<"compaction", seen[p].id>> \in Entry
      BY DEF AbortInv, TypeOK, CheckpointRecord, Entry
    <3> QED
      BY <1>2, <1>3, <2>1, <3>1 DEF AppendEntry
  <2>2. CASE file' = file
    BY <2>2 DEF InFile
  <2> QED
    BY <1>3, <2>1, <2>2 DEF AppendEntry, AppendEnd
<1>4. ASSUME NEW p \in Process, Turn(p) \/ Mark(p)
      PROVE  InFile(c)
  <2>1. <<"turn", ev[p]>> \in Entry /\ <<"marker", ev[p]>> \in Entry
    BY DEF AbortInv, TypeOK, Entry
  <2> QED
    BY <1>2, <1>4, <2>1 DEF Turn, Mark, AppendEnd
<1>5. CASE HostCrash
  <2>1. PICK n \in synced..Len(file) : file' = SubSeq(file, 1, n)
    BY <1>5 DEF HostCrash
  <2>2. Len(file') = n /\ n \in Nat /\ n <= Len(file) /\ \A i \in 1..n : file'[i] = file[i]
    BY <1>0, <2>1
  <2> QED
    BY <1>0, <2>2 DEF InFile
<1>6. ASSUME NEW p \in Process,
             \/ WorkerStep(p) /\ ~(AppendEntry(p) \/ Turn(p) \/ Mark(p))
             \/ CommandStep(p) \/ Claim(p) \/ Acquire(p) \/ LoseApp(p) \/ Drain(p) \/ Crash(p)
      PROVE  file' = file
  BY <1>6 DEF WorkerStep, Open, Prepare, Reconcile, Advance, Decide, Capture, Record, ArmGate,
         SyncEntry, Compacted, Verify, BeginTurn, Complete, Pause, GateLost,
         CommandStep, ConsumeManifest, ClaimRepair, Prove, ProveAgain, Abort, ClaimIntent, Stage,
         ReleaseIntent, Publish, GiveBack, Leave, Claim, Acquire, LoseApp, Drain, Crash, diskVars
<1>7. CASE ExpireApp \/ ExpireLease \/ UNCHANGED vars
  BY <1>1, <1>7 DEF ExpireApp, ExpireLease, vars, diskVars
<1> QED
  BY <1>1, <1>3, <1>4, <1>5, <1>6, <1>7 DEF Next

\* What p is about to record, abort, or has aborted, is kept apart.
LEMMA AbortIsSafeKeep ==
  ASSUME AbortInv, TypeOK', [Next]_vars
  PROVE  AbortIsSafe'
<1>0. /\ pc \in [Process -> Step] /\ seen \in [Process -> CheckpointRecord]
      /\ record \in CheckpointRecord /\ drawn \in Nat
  BY CheckpointAssumption DEF AbortInv, TypeOK
<1>a. \A q \in Process : Pending(q) => pause # "compaction_failed"
  BY DEF AbortInv, AbortBarrier, PendingIsSafe
<1>b. \A q \in Process : pc[q] = "abort" /\ Newest(q) => pause = "compaction_failed"
  BY DEF AbortInv, AbortBarrier, NewestPauses
<1>1. ASSUME NEW p \in Process,
             \/ WorkerStep(p) \/ CommandStep(p) \/ Claim(p)
             \/ Acquire(p) \/ LoseApp(p) \/ Drain(p) \/ Crash(p)
      PROVE  AbortIsSafe'
  <2>1. ASSUME NEW q \in Process, pc'[q] = "record"
        PROVE  seen'[q].id # record'.id
    <3>1. CASE q = p /\ Capture(p)
      <4>1. /\ seen'[q].id = drawn + 1 /\ record' = record
        BY <1>0, <2>1, <3>1 DEF Capture, Throw
      <4> QED
        BY <1>0, <4>1 DEF AbortInv, CheckpointBarrier, DrawnBefore
    <3>2. CASE q = p /\ ~Capture(p)
      <4>1. pc[q] = "record" /\ seen'[q] = seen[q] /\ record' = record
        <5>1. CASE WorkerStep(p)
          BY <1>0, <2>1, <3>2, <5>1 DEF WorkerStep, Open, Prepare, Reconcile, Require, Advance,
             Decide, Record, ArmGate, AppendEntry, SyncEntry, Compacted, Verify, BeginTurn, Turn,
             Mark, Complete, Pause, GateLost, Goto, Throw, Stop
        <5>2. CASE CommandStep(p)
          BY <1>0, <2>1, <3>2, <5>2 DEF CommandStep, ConsumeManifest, ClaimRepair, Prove,
             ProveAgain, Abort, ClaimIntent, Stage, ReleaseIntent, Publish, GiveBack, Leave,
             Goto, Stop
        <5>3. CASE Claim(p) \/ Acquire(p) \/ LoseApp(p) \/ Drain(p) \/ Crash(p)
          BY <1>0, <2>1, <3>2, <5>3 DEF Claim, Acquire, LoseApp, Drain, Crash, Goto, Stop, procVars
        <5> QED
          BY <1>1, <5>1, <5>2, <5>3
      <4> QED
        BY <4>1 DEF AbortInv, AbortBarrier, AbortIsSafe
    <3>3. CASE q # p
      <4>1. pc[q] = "record" /\ seen'[q] = seen[q]
        BY <1>1, <2>1, <3>3, OthersStay DEF AbortInv
      <4>2. seen[q].id # record.id
        BY <4>1 DEF AbortInv, AbortBarrier, AbortIsSafe
      <4>3. record' = record \/ record'.id = record.id \/ (record' = seen[p] /\ Holds(p))
        BY <1>1, RecordShape DEF Holds
      <4>4. Holds(q)
        BY <4>1 DEF Holds
      <4> QED
        BY <3>3, <4>1, <4>2, <4>3, <4>4 DEF AbortInv, CheckpointBarrier, HeldApart
    <3> QED
      BY <3>1, <3>2, <3>3
  <2>2. ASSUME NEW q \in Process, pc'[q] = "abort", Newest(q)', seen'[q] = record',
               record'.phase = "prepared"
        PROVE  ~InFile(record.id)'
    <3>1. ~Claim(p) /\ ~(ClaimRepair(p) /\ RepairGrant(p)) /\ ~(ClaimIntent(p) /\ RepairGrant(p))
      <4>1. Claim(p) \/ (ClaimRepair(p) /\ RepairGrant(p)) \/ (ClaimIntent(p) /\ RepairGrant(p))
              => q = p /\ pc'[p] \in {"open", "prove", "digest"}
        BY <2>2, NewestGranted, GrantEpochs DEF AbortInv
      <4> QED
        BY <2>2, <4>1
    <3>2. Newest(q) /\ (q # p => pc'[q] = pc[q] /\ seen'[q] = seen[q])
      BY <1>1, <2>2, <3>1, NewestStays
    <3>3. CASE ProveAgain(p) /\ q = p
      <4>1. IsOrphan(p) /\ UNCHANGED <<file, record, seen>>
        BY <1>0, <2>2, <3>3 DEF ProveAgain, Goto, diskVars, procVars
      <4>2. Claims(record.id) = {}
        BY <2>2, <3>3, <4>1 DEF IsOrphan
      <4> QED
        BY <4>1, <4>2 DEF Claims, InFile
    <3>4. CASE ~(ProveAgain(p) /\ q = p)
      <4>1. pc[q] = "abort" /\ seen'[q] = seen[q]
        <5>1. CASE q = p /\ WorkerStep(p)
          BY <1>0, <2>2, <5>1, StepsComeFrom
             DEF WorkerStep, Open, Prepare, Reconcile, Require, Advance, Decide, Capture, Record,
                 ArmGate, AppendEntry, SyncEntry, Compacted, Verify, BeginTurn, Turn, Mark, Complete,
                 Pause, GateLost, Goto, Throw, Stop
        <5>2. CASE q = p /\ CommandStep(p) /\ ~ProveAgain(p)
          BY <1>0, <2>2, <5>2
             DEF CommandStep, ConsumeManifest, ClaimRepair, Prove, Abort, ClaimIntent,
                 Stage, ReleaseIntent, Publish, GiveBack, Leave, Goto, Stop
        <5>3. CASE q = p /\ (Acquire(p) \/ LoseApp(p) \/ Drain(p) \/ Crash(p))
          BY <1>0, <2>2, <5>3 DEF Acquire, LoseApp, Drain, Crash, Stop, procVars
        <5> QED
          BY <1>1, <2>2, <3>1, <3>2, <3>4, <5>1, <5>2, <5>3
      <4>2. pause = "compaction_failed"
        BY <1>b, <3>2, <4>1
      <4>3. CASE record' = record
        <5>1. ~InFile(record.id)
          BY <2>2, <3>2, <4>1, <4>3 DEF AbortInv, AbortBarrier, AbortIsSafe
        <5>2. ASSUME NEW r \in Process, pc[r] = "append", seen[r].id = record.id
              PROVE  FALSE
          BY <1>a, <2>2, <4>2, <4>3, <5>2 DEF Pending
        <5>3. ~\E i \in 1..Len(file') : file'[i] = <<"compaction", record.id>>
          BY <5>1, <5>2, EntryFrom
        <5> QED
          BY <4>3, <5>3 DEF InFile
      <4>4. CASE record' # record
        <5>1. Record(p) /\ pc[p] = "record" /\ Work(ep[p], ce[p], ev[p])
          BY <1>1, <2>2, <4>4, RecordShape
        <5>2. q = p
          BY <3>2, <5>1, WorkIsNewest
        <5> QED
          BY <4>1, <5>1, <5>2
      <4> QED
        BY <4>3, <4>4
    <3> QED
      BY <3>3, <3>4
  <2>3. ASSUME record'.phase = "aborted"
        PROVE  /\ ~InFile(record.id)'
               /\ \A q \in Process : pc'[q] \in {"armed", "append"} => seen'[q].id # record'.id
    <3>1. CASE record' = record
      <4>1. /\ ~InFile(record.id)
            /\ \A q \in Process : pc[q] \in {"armed", "append"} => seen[q].id # record.id
        BY <2>3, <3>1 DEF AbortInv, AbortBarrier, AbortIsSafe
      <4>2. ~\E i \in 1..Len(file') : file'[i] = <<"compaction", record.id>>
        BY <4>1, EntryFrom
      <4>3. ~Record(p)
        BY <2>3, <3>1 DEF Record, CheckpointPrepare, Holds, AbortInv, CheckpointBarrier, HeldApart
      <4>4. ASSUME NEW q \in Process, pc'[q] \in {"armed", "append"}
            PROVE  pc[q] \in {"armed", "append"} /\ seen'[q] = seen[q]
        BY <1>1, <4>3, <4>4, PendingFrom
      <4> QED
        BY <3>1, <4>1, <4>2, <4>4 DEF InFile
    <3>2. CASE record' # record
      <4>1. /\ record'.id = record.id /\ Abort(p) /\ MayAbort(p) /\ pc[p] = "abort"
            /\ pc'[p] = "leave"
        BY <1>1, <2>3, <3>2, RecordShape
      <4>2. Newest(p) /\ record = seen[p] /\ record.phase = "prepared" /\ pause = "compaction_failed"
        BY <4>1, WorkIsNewest DEF MayAbort, RepairEvidence
      <4>3. ~InFile(record.id)
        BY <4>1, <4>2 DEF AbortInv, AbortBarrier, AbortIsSafe
      <4>4. \A q \in Process : pc[q] \in {"armed", "append"} => seen[q].id # record.id
        BY <1>a, <4>2 DEF Pending
      <4>5. ~\E i \in 1..Len(file') : file'[i] = <<"compaction", record.id>>
        BY <4>3, <4>4, EntryFrom
      <4>6. ~Record(p)
        BY <4>1 DEF Record
      <4>7. ASSUME NEW q \in Process, pc'[q] \in {"armed", "append"}
            PROVE  pc[q] \in {"armed", "append"} /\ seen'[q] = seen[q]
        BY <1>1, <4>6, <4>7, PendingFrom
      <4> QED
        BY <4>1, <4>4, <4>5, <4>7 DEF InFile
    <3> QED
      BY <3>1, <3>2
  <2> QED
    BY <2>1, <2>2, <2>3 DEF AbortIsSafe
<1>2. CASE ExpireApp \/ ExpireLease \/ UNCHANGED vars
  <2>1. UNCHANGED <<leaseEpoch, ce, pc, record, seen, file>>
    BY <1>2 DEF ExpireApp, AppExpires, ExpireLease, LeaseExpires, vars, storeVars, leaseVars,
                stateVars, procVars, diskVars
  <2> QED
    BY <2>1 DEF AbortInv, AbortBarrier, AbortIsSafe, Newest, InFile
<1>3. CASE HostCrash
  <2>1. record' = record /\ \A q \in Process : pc'[q] = "idle"
    BY <1>3 DEF HostCrash
  <2>2. (\E i \in 1..Len(file') : file'[i] = <<"compaction", record.id>>) => InFile(record.id)
    <3>1. \A p \in Process : ~AppendEntry(p)
      <4>1. ASSUME NEW p \in Process, AppendEntry(p)
            PROVE  FALSE
        <5>1. pc'[p] = "idle"
          BY <2>1
        <5> QED
          BY <1>0, <4>1, <5>1 DEF AppendEntry, Goto, Throw
      <4> QED
        BY <4>1
    <3> QED
      BY <3>1, EntryFrom
  <2> QED
    BY <2>1, <2>2 DEF AbortInv, AbortBarrier, AbortIsSafe, InFile
<1> QED
  BY <1>1, <1>2, <1>3 DEF Next

\* A checkpoint the operator gave up is not in the session file, and no worker,
\* however long it was suspended, still brings it there: for any number of
\* controllers, commands and faults.
THEOREM AbortedNeverComes == Spec => [](AbortedHasNoEntry /\ AbortBarrier)
<1>1. Init => AbortBarrier
  <2> SUFFICES ASSUME Init PROVE AbortBarrier
    OBVIOUS
  <2>1. \A p \in Process : pc[p] = "idle" /\ ce[p] = 0
    BY DEF Init
  <2>2. leaseEpoch = 0 /\ record.phase # "aborted"
    BY DEF Init, NoCheckpoint, LegacyCheckpoint
  <2> QED
    BY <2>1, <2>2 DEF AbortBarrier, OwnEpochs, NewestPauses, PendingIsSafe, AbortIsSafe, Pending, Newest
<1>2. TypeOK /\ TypeOK' /\ CheckpointBarrier /\ AbortBarrier /\ [Next]_vars => AbortBarrier'
  BY EpochsKeep, NewestPausesKeep, PendingIsSafeKeep, AbortIsSafeKeep DEF AbortInv, AbortBarrier
<1>3. AbortBarrier => AbortedHasNoEntry
  BY DEF AbortBarrier, AbortIsSafe, AbortedHasNoEntry, InFile, Claims
<1> QED
  BY <1>1, <1>2, <1>3, TypeCorrect, RestoredDurable, PTL DEF Spec
=============================================================================
