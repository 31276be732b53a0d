----------------------------- MODULE Checkpoint -----------------------------
(***************************************************************************)
(* Compaction of one chat: the checkpoint record in Redis, the compaction  *)
(* entry in the session file, the worker that makes both, the worker that  *)
(* finds them half made, and the operator commands that give up a          *)
(* checkpoint whose entry was never written.                               *)
(*                                                                         *)
(* A process is a controller or one of the two operator commands; all      *)
(* three contend for the application lease.  As in ChatWorker, a step a    *)
(* fenced script decides is one action, and an effect no fence covers (the *)
(* append of the compaction entry, the prompt) is an action apart from the *)
(* gate before it.                                                         *)
(*                                                                         *)
(* The session file is a tree: an entry is appended below the last entry   *)
(* the appending SessionManager knows.  A worker loads one manager when it *)
(* opens the session and prompts on that one, whatever others append       *)
(* later; reconciliation opens another, whose branch ends in the entry     *)
(* that is last in the file by then.                                       *)
(***************************************************************************)
EXTENDS ChatStore, Sequences

CONSTANTS Process,        \* processes that may run, one after another or at once
          MaxCheckpoints, \* checkpoints that may be made
          MaxFaults,      \* crashes, drains and stalls past a lease
          MaxRepairs,     \* operator commands that may be run
          Legacy          \* whether an older controller may have left its record

ASSUME CheckpointAssumption ==
  /\ MaxCheckpoints \in Nat \ {0}
  /\ MaxFaults \in Nat /\ MaxRepairs \in Nat
  /\ Legacy \in BOOLEAN

VARIABLES
  record,    \* key checkpoint
  intent,    \* field repairIntent of hash lease
  file,      \* entries of the session file after its binding
  branch,    \* branch[i]: the positions of the entries on the path entry i ends
  synced,    \* how many of them are known to be on disk
  manifest,  \* operator intent at the configured path
  role,      \* what process p believes to be while it holds the application lease
  ep, pc, ev, ce, \* its application epoch, step, event and chat epoch
  seen,      \* record p read or is about to write
  loaded,    \* branch of the session manager p's worker runs on, {} before it is opened
  want,      \* operator intent p consumed or is about to publish
  reason,    \* pause reason after a failure
  drawn, faults, repairs, \* checkpoints made, faults and commands so far
  current,   \* history: the last checkpoint restored
  told,      \* history: told[e] is the context of e's turn, -1 before it
  due,       \* history: due[e] is the value of current at e's turn, -1 before it
  issued     \* history: the intents published

repairVars == <<intent, manifest, want, issued>>
diskVars == <<file, branch, synced>>
procVars == <<role, ep, ev, ce, seen, loaded>>
boundVars == <<drawn, faults, repairs>>
historyVars == <<current, told, due>>
vars == <<storeVars, record, repairVars, diskVars, procVars, pc, reason, boundVars, historyVars>>

Phases == {"none", "prepared", "compacted", "restored", "aborted"}
Roles == {"off", "controller", "repair", "intent"}
Step == {"idle", "open", "prepare", "reconcile", "advance", "decide", "capture", "record",
         "armed", "append", "appended", "compacted", "verify", "begin", "turn", "mark",
         "complete", "catch", "consume", "claim", "prove", "proveAgain", "abort",
         "giveBack", "intend", "digest", "release", "publish", "leave"}

\* The steps of runChatWorker that start with an ownership gate.
Gated == {"open", "prepare", "reconcile", "advance", "decide", "capture", "record", "armed",
          "appended", "compacted", "verify", "begin", "mark", "complete", "catch"}

NoCheckpoint == [id |-> 0, phase |-> "none", event |-> 0, gen |-> <<>>, bound |-> FALSE]

\* What an older controller left: the file after one event, and a record without
\* its binding.
FirstTurn == <<<<"turn", 1>>, <<"marker", 1>>>>
LegacyCheckpoint ==
  [id |-> 1, phase |-> "prepared", event |-> 2, gen |-> FirstTurn, bound |-> FALSE]

\* A file generation is the content at that time: every append makes a new one.
Entry == ({"compaction"} \X (0..MaxCheckpoints)) \cup ({"turn", "marker"} \X (0..MaxSeq))
CheckpointRecord == [id : 0..MaxCheckpoints, phase : Phases, event : 0..MaxSeq,
                     gen : Seq(Entry), bound : BOOLEAN]
Digest == [id : Nat, event : Nat, gen : Seq(Entry)]
NoDigest == [id |-> 0, event |-> 0, gen |-> <<>>]
DigestOf(r, g) == [id |-> r.id, event |-> r.event, gen |-> g]
\* An intent published for a record that is long gone.
OldDigest == [NoDigest EXCEPT !.event = 1]

\* An entry's branch ends with it, and a manager knows entries of the file.
TreeTypeOK ==
  /\ branch \in Seq(SUBSET Nat) /\ Len(branch) = Len(file)
  /\ \A i \in 1..Len(file) : branch[i] \subseteq 1..i
  /\ loaded \in [Process -> SUBSET (1..Len(file))]

TypeOK ==
  /\ StoreTypeOK /\ TreeTypeOK
  /\ record \in CheckpointRecord
  /\ intent \in Digest /\ manifest \in Digest
  /\ want \in [Process -> Digest]
  /\ issued \in SUBSET Digest
  /\ file \in Seq(Entry) /\ synced \in 0..Len(file)
  /\ role \in [Process -> Roles] /\ pc \in [Process -> Step]
  /\ ep \in [Process -> Nat] /\ ce \in [Process -> Nat]
  /\ ev \in [Process -> 0..MaxSeq]
  /\ seen \in [Process -> CheckpointRecord]
  /\ reason \in [Process -> Pauses \cup {"none"}]
  /\ drawn \in 0..MaxCheckpoints /\ faults \in 0..MaxFaults /\ repairs \in 0..MaxRepairs
  /\ current \in 0..MaxCheckpoints
  /\ told \in [Event -> -1..MaxCheckpoints] /\ due \in [Event -> -1..MaxCheckpoints]

\* A chat nobody worked yet; or one an older controller left paused after its
\* first event, with an unbound record, with or without the entry, and perhaps
\* an old intent about.
Init ==
  /\ appEpoch = 0 /\ appLive = FALSE
  /\ leaseEpoch = 0 /\ leaseApp = 0 /\ leaseEvent = 0 /\ leaseLive = FALSE
  /\ gap = "none" /\ turnEvent = 0
  /\ tools = [a \in Send |-> "none"]
  /\ intent = NoDigest /\ issued = {}
  /\ want = [p \in Process |-> NoDigest]
  /\ \/ /\ cursor = 0 /\ record = NoCheckpoint /\ file = <<>>
        /\ pause = "none" /\ session = 0
        /\ drawn = 0 /\ manifest = NoDigest
     \/ /\ Legacy /\ 1 < MaxSeq
        /\ cursor = 1 /\ record = LegacyCheckpoint
        /\ file \in {FirstTurn, Append(FirstTurn, <<"compaction", 1>>)}
        /\ pause = "compaction_failed" /\ session = 1
        /\ drawn = 1 /\ manifest \in {NoDigest, OldDigest}
  /\ admitted = Event \ 1..cursor
  /\ synced = Len(file)
  /\ branch = [i \in 1..Len(file) |-> 1..i]
  /\ role = [p \in Process |-> "off"]
  /\ ep = [p \in Process |-> 0]
  /\ pc = [p \in Process |-> "idle"]
  /\ ev = [p \in Process |-> 0]
  /\ ce = [p \in Process |-> 0]
  /\ seen = [p \in Process |-> NoCheckpoint]
  /\ loaded = [p \in Process |-> {}]
  /\ reason = [p \in Process |-> "none"]
  /\ faults = 0 /\ repairs = 0
  /\ current = 0 /\ told = [e \in Event |-> IF e > cursor THEN -1 ELSE 0] /\ due = told

-----------------------------------------------------------------------------
(* Helpers *)

\* context.current(): the process still believes, and the store agrees.
Owns(p) == role[p] = "controller" /\ Work(ep[p], ce[p], ev[p])

Goto(p, s) == pc' = [pc EXCEPT ![p] = s] /\ UNCHANGED reason

\* A controller error, carrying the reason the worker will pause with.
Throw(p, why) ==
  /\ pc' = [pc EXCEPT ![p] = "catch"]
  /\ reason' = [reason EXCEPT ![p] = why]

Require(p, ok, next, why) == IF ok THEN Goto(p, next) ELSE Throw(p, why)

\* Process p ends, or its worker returns to the loop of role r.
Stop(p, r) ==
  /\ role' = [role EXCEPT ![p] = r]
  /\ pc' = [pc EXCEPT ![p] = "idle"]
  /\ ev' = [ev EXCEPT ![p] = 0]
  /\ ce' = [ce EXCEPT ![p] = 0]
  /\ seen' = [seen EXCEPT ![p] = NoCheckpoint]
  /\ loaded' = [loaded EXCEPT ![p] = {}]
  /\ reason' = [reason EXCEPT ![p] = "none"]
  /\ want' = [want EXCEPT ![p] = NoDigest]
  /\ UNCHANGED ep

\* Compaction entries that name checkpoint c.
Claims(c) == {i \in 1..Len(file) : file[i] = <<"compaction", c>>}

\* A completion marker for event e.
Marked(e) == \E i \in 1..Len(file) : file[i] = <<"marker", e>>

\* The active branch of a manager that is opened now: up from the last entry.
ActiveBranch == IF file = <<>> THEN {} ELSE branch[Len(file)]

\* The compaction entries of branch b; what the agent sees follows the last of them.
CutsOf(b) == {i \in b : file[i][1] = "compaction"}
Context(b) ==
  IF CutsOf(b) = {} THEN 0 ELSE file[CHOOSE i \in CutsOf(b) : \A j \in CutsOf(b) : j <= i][2]

\* The branch p's worker runs on has no turn and no compaction.
Fresh(p) == loaded[p] = {}

\* Mutant: entries of abandoned siblings count.
ClaimedAnywhere(c) == Cardinality(Claims(c)) = 1

\* The reopened file has exactly one entry of checkpoint c on its active branch.
Claimed(c) == Cardinality(Claims(c) \cap ActiveBranch) = 1

NextPhase(ph) == IF ph = "prepared" THEN "compacted" ELSE "restored"

Fault == faults < MaxFaults /\ faults' = faults + 1

-----------------------------------------------------------------------------
(* The script's checkpoint operations *)

\* checkpoint-prepare: never over a record that is still open.
CheckpointPrepare(p, r) ==
  /\ Work(ep[p], ce[p], ev[p])
  /\ session # 0
  /\ record.phase \in {"none", "restored", "aborted"}
  /\ record' = r

\* checkpoint-transition, from the very record the caller read.  Its refusal of
\* another record is dead code here: nobody else writes it under the caller's leases.
CheckpointTransition(p, r) ==
  /\ Work(ep[p], ce[p], ev[p])
  /\ record = r
  /\ r.phase \in {"prepared", "compacted"}
  /\ record' = [r EXCEPT !.phase = NextPhase(r.phase)]
  /\ current' = IF r.phase = "compacted" THEN r.id ELSE current

\* Mutant: the chat's own state is not looked at.
RepairEvidenceOfRecord(intended) == record.bound \/ intended

\* repairEvidence: the chat was paused by the failure of this very checkpoint,
\* before its turn, and an unbound record comes with an operator's intent.
RepairEvidence(intended) ==
  /\ pause = "compaction_failed"
  /\ record.phase = "prepared"
  /\ turnEvent = 0 /\ Recorded = {}
  /\ session # 0
  /\ cursor + 1 \in admitted
  /\ record.bound => record.event = cursor + 1
  /\ record.bound \/ intended

\* repair-claim and repair-intent: a chat lease of the command's own.
RepairGrant(p) ==
  /\ AppAlive(ep[p])
  /\ ~(leaseApp = ep[p] /\ leaseLive)
  /\ leaseEpoch' = leaseEpoch + 1 /\ leaseApp' = ep[p]
  /\ leaseEvent' = cursor + 1 /\ leaseLive' = TRUE
  /\ ev' = [ev EXCEPT ![p] = cursor + 1]
  /\ ce' = [ce EXCEPT ![p] = leaseEpoch + 1]
  /\ seen' = [seen EXCEPT ![p] = record]

\* checkpoint-abort may proceed for the record and intent p holds.
MayAbort(p) ==
  /\ Work(ep[p], ce[p], ev[p])
  /\ RepairEvidence(want[p] # NoDigest)
  /\ record = seen[p]
  /\ record.bound \/ (want[p] # NoDigest /\ intent = want[p])

\* The lease is freed without a completion.
FreeLease ==
  /\ leaseEvent' = 0 /\ leaseLive' = FALSE
  /\ intent' = NoDigest
  /\ UNCHANGED <<leaseEpoch, leaseApp>>

-----------------------------------------------------------------------------
(* Processes *)

\* coordinator.start, or a command's acquireApp.
Acquire(p) ==
  /\ role[p] = "off" /\ pc[p] = "idle"
  /\ AppAcquire
  /\ ep' = [ep EXCEPT ![p] = appEpoch + 1]
  /\ \/ /\ role' = [role EXCEPT ![p] = "controller"]
        /\ UNCHANGED <<pc, repairs>>
     \/ /\ repairs < MaxRepairs /\ repairs' = repairs + 1
        /\ \/ /\ role' = [role EXCEPT ![p] = "repair"]
              /\ pc' = [pc EXCEPT ![p] = "consume"]
           \/ /\ role' = [role EXCEPT ![p] = "intent"]
              /\ pc' = [pc EXCEPT ![p] = "intend"]
  /\ UNCHANGED <<record, repairVars, diskVars, ev, ce, seen, loaded, reason, drawn, faults, historyVars>>

\* The coordinator's claim of the next event; a stale repairIntent stays behind.
Claim(p) ==
  /\ role[p] = "controller" /\ pc[p] = "idle"
  /\ ClaimGrant(ep[p])
  /\ Goto(p, "open")
  /\ ev' = [ev EXCEPT ![p] = cursor + 1]
  /\ ce' = [ce EXCEPT ![p] = leaseEpoch + 1]
  /\ UNCHANGED <<record, repairVars, diskVars, role, ep, seen, loaded, boundVars, historyVars>>

\* lose(): the application lease is found gone.
LoseApp(p) ==
  /\ role[p] = "controller" /\ ~AppAlive(ep[p])
  /\ role' = [role EXCEPT ![p] = "off"]
  /\ UNCHANGED <<storeVars, record, repairVars, diskVars, ep, ev, ce, seen, loaded, pc, reason, boundVars, historyVars>>

\* The controller is stopped between two events.
Drain(p) ==
  /\ role[p] = "controller" /\ pc[p] = "idle" /\ Fault
  /\ AppRelease(ep[p])
  /\ Stop(p, "off")
  /\ UNCHANGED <<record, intent, manifest, issued, diskVars, drawn, repairs, historyVars>>

-----------------------------------------------------------------------------
(* runChatWorker, as far as compaction goes *)

\* Gates, the marker and the turn mark are looked at; the session is opened and bound.
Open(p) ==
  /\ pc[p] = "open" /\ Owns(p)
  /\ \/ Marked(ev[p]) /\ Goto(p, "complete") /\ UNCHANGED storeVars
     \/ ~Marked(ev[p]) /\ turnEvent # 0 /\ Throw(p, "mutation_uncertain") /\ UNCHANGED storeVars
     \/ ~Marked(ev[p]) /\ turnEvent = 0 /\ Goto(p, "prepare") /\ Bind(ep[p], ce[p], ev[p], 1)
     \/ Throw(p, "session_failed") /\ UNCHANGED storeVars
  /\ loaded' = [loaded EXCEPT ![p] = IF pc'[p] = "prepare" THEN ActiveBranch ELSE {}]
  /\ UNCHANGED <<record, repairVars, diskVars, role, ep, ev, ce, seen, boundVars, historyVars>>

\* prepare reads the latest record; an aborted one has no entry to restore.
Prepare(p) ==
  /\ pc[p] = "prepare" /\ Owns(p)
  /\ seen' = [seen EXCEPT ![p] = record]
  /\ Goto(p, IF record.phase \in {"none", "aborted"} THEN "decide" ELSE "reconcile")
  /\ UNCHANGED <<storeVars, record, repairVars, diskVars, role, ep, ev, ce, loaded, boundVars, historyVars>>

\* Mutant: the file is reopened without being synced.
ReconcileUnsynced(p) ==
  /\ pc[p] = "reconcile" /\ Owns(p)
  /\ Require(p, Claimed(seen[p].id),
             IF seen[p].phase = "restored" THEN "decide" ELSE "advance", "restore_failed")
  /\ UNCHANGED <<storeVars, record, repairVars, diskVars, procVars, boundVars, historyVars>>

\* reconcileCheckpoint: the file is synced and reopened, and has exactly one entry
\* of this checkpoint.  The manager p runs on stays as it was loaded.  The sync, or
\* the scan of the evidence that ends it, may fail.
Reconcile(p) ==
  /\ pc[p] = "reconcile" /\ Owns(p)
  /\ \/ Throw(p, "preparation_failed") /\ UNCHANGED synced
     \/ /\ synced' = Len(file)
        /\ \/ Require(p, Claimed(seen[p].id),
                      IF seen[p].phase = "restored" THEN "decide" ELSE "advance", "restore_failed")
           \/ Throw(p, "session_failed")
  /\ UNCHANGED <<storeVars, record, repairVars, file, branch, procVars, boundVars, historyVars>>

\* Mutant: one transition is thought to be enough.
AdvanceOnce(p) ==
  /\ pc[p] = "advance" /\ Owns(p)
  /\ CheckpointTransition(p, seen[p])
  /\ seen' = [seen EXCEPT ![p] = record']
  /\ Goto(p, "decide")
  /\ UNCHANGED <<storeVars, repairVars, diskVars, role, ep, ev, ce, loaded, boundVars, told, due>>

\* Recovery carries the record from the phase it read to restored.
Advance(p) ==
  /\ pc[p] = "advance" /\ Owns(p)
  /\ CheckpointTransition(p, seen[p])
  /\ seen' = [seen EXCEPT ![p] = record']
  /\ Goto(p, IF record'.phase = "restored" THEN "decide" ELSE "advance")
  /\ UNCHANGED <<storeVars, repairVars, diskVars, role, ep, ev, ce, loaded, boundVars, told, due>>

\* The usage policy: go on, compact, or not know, which only a fresh session may.
Decide(p) ==
  /\ pc[p] = "decide" /\ Owns(p)
  /\ \/ Goto(p, "begin")
     \/ Goto(p, "capture")
     \/ ~(seen[p].phase # "restored" /\ Fresh(p)) /\ Throw(p, "usage_unknown")
  /\ UNCHANGED <<storeVars, record, repairVars, diskVars, procVars, boundVars, historyVars>>

\* run, before anything durable: the model's checkpoint of a history that is not
\* empty, then the generation of the file.  Capacity, the model or a template may
\* fail it.
Capture(p) ==
  /\ pc[p] = "capture" /\ Owns(p)
  /\ \/ /\ ~Fresh(p)
        /\ drawn < MaxCheckpoints /\ drawn' = drawn + 1
        /\ seen' = [seen EXCEPT ![p] = [id |-> drawn + 1, phase |-> "prepared",
                                        event |-> ev[p], gen |-> file, bound |-> TRUE]]
        /\ Goto(p, "record")
     \/ /\ Throw(p, "compaction_failed")
        /\ UNCHANGED <<seen, drawn>>
  /\ UNCHANGED <<storeVars, record, repairVars, diskVars, role, ep, ev, ce, loaded, faults, repairs, historyVars>>

\* The durable prepare.
Record(p) ==
  /\ pc[p] = "record" /\ role[p] = "controller"
  /\ CheckpointPrepare(p, seen[p])
  /\ Goto(p, "armed")
  /\ UNCHANGED <<storeVars, repairVars, diskVars, procVars, boundVars, historyVars>>

\* The last gate before session.compact, which no fence covers.
ArmGate(p) ==
  /\ pc[p] = "armed" /\ Owns(p)
  /\ Goto(p, "append")
  /\ UNCHANGED <<storeVars, record, repairVars, diskVars, procVars, boundVars, historyVars>>

\* p's manager appends entry x below the last entry of its own branch.
AppendEnd(p, x) ==
  /\ file' = Append(file, x)
  /\ loaded' = [loaded EXCEPT ![p] = @ \cup {Len(file) + 1}]
  /\ branch' = Append(branch, loaded'[p])
  /\ UNCHANGED <<role, ep, ev, ce, seen>>

\* session.compact appends the entry, or fails without.
AppendEntry(p) ==
  /\ pc[p] = "append"
  /\ \/ AppendEnd(p, <<"compaction", seen[p].id>>) /\ Goto(p, "appended")
     \/ Throw(p, "compaction_failed") /\ UNCHANGED <<file, branch, procVars>>
  /\ UNCHANGED <<storeVars, record, repairVars, synced, boundVars, historyVars>>

\* The entry is validated and synced; either may fail with the entry in the file.
SyncEntry(p) ==
  /\ pc[p] = "appended" /\ Owns(p)
  /\ \/ synced' = Len(file) /\ Goto(p, "compacted")
     \/ Throw(p, "compaction_failed") /\ UNCHANGED synced
  /\ UNCHANGED <<storeVars, record, repairVars, file, branch, procVars, boundVars, historyVars>>

\* compacted(): the first transition.
Compacted(p) ==
  /\ pc[p] = "compacted" /\ Owns(p)
  /\ CheckpointTransition(p, seen[p])
  /\ seen' = [seen EXCEPT ![p] = record']
  /\ Goto(p, "verify")
  /\ UNCHANGED <<storeVars, repairVars, diskVars, role, ep, ev, ce, loaded, boundVars, told, due>>

\* The entry is read back; restored(): the second transition.  The read-back, or
\* the scan of the evidence after the transition, may fail.
Verify(p) ==
  /\ pc[p] = "verify" /\ Owns(p)
  /\ \/ /\ Claimed(seen[p].id)
        /\ CheckpointTransition(p, seen[p])
        /\ Goto(p, "begin") \/ Throw(p, "session_failed")
     \/ Throw(p, "compaction_failed") /\ UNCHANGED <<record, current>>
  /\ UNCHANGED <<storeVars, repairVars, diskVars, procVars, boundVars, told, due>>

BeginTurn(p) ==
  /\ pc[p] = "begin" /\ role[p] = "controller"
  /\ BeginTurnMark(ep[p], ce[p], ev[p])
  /\ Goto(p, "turn")
  /\ UNCHANGED <<record, repairVars, diskVars, procVars, boundVars, historyVars>>

\* The agent's turn, on the context of the manager p loaded when it opened the session.
Turn(p) ==
  /\ pc[p] = "turn"
  /\ AppendEnd(p, <<"turn", ev[p]>>)
  /\ told' = [told EXCEPT ![ev[p]] = Context(loaded[p])]
  /\ due' = [due EXCEPT ![ev[p]] = current]
  /\ Goto(p, "mark") \/ Throw(p, "mutation_uncertain")
  /\ UNCHANGED <<storeVars, record, repairVars, synced, boundVars, current>>

\* appendCompletion, reduced to a marker appended and synced.
Mark(p) ==
  /\ pc[p] = "mark" /\ Owns(p)
  /\ AppendEnd(p, <<"marker", ev[p]>>)
  /\ synced' = Len(file')
  /\ Goto(p, "complete")
  /\ UNCHANGED <<storeVars, record, repairVars, boundVars, historyVars>>

Complete(p) ==
  /\ pc[p] = "complete" /\ role[p] = "controller" /\ Marked(ev[p])
  /\ CompleteEvent(ep[p], ce[p], ev[p], session, {})
  /\ Stop(p, "controller")
  /\ UNCHANGED <<record, intent, manifest, issued, diskVars, boundVars, historyVars>>

\* The worker's catch: still the owner, so the chat is paused for its operator.
Pause(p) ==
  /\ pc[p] = "catch" /\ role[p] = "controller"
  /\ SetPause(ep[p], ce[p], ev[p], reason[p])
  /\ Stop(p, "controller")
  /\ UNCHANGED <<record, intent, manifest, issued, diskVars, boundVars, historyVars>>

\* A gate is refused: the worker ends and takes its process with it.
GateLost(p) ==
  /\ pc[p] \in Gated /\ ~Owns(p)
  /\ Stop(p, "off")
  /\ UNCHANGED <<storeVars, record, intent, manifest, issued, diskVars, boundVars, historyVars>>

-----------------------------------------------------------------------------
(* recoverCompactionFailures: the repair command *)

\* The manifest, where one is configured, is read and unlinked before anything else.
ConsumeManifest(p) ==
  /\ pc[p] = "consume"
  /\ \/ /\ manifest # NoDigest
        /\ want' = [want EXCEPT ![p] = manifest] /\ manifest' = NoDigest
        /\ Goto(p, "claim")
     \/ manifest = NoDigest /\ Goto(p, "leave") /\ UNCHANGED <<want, manifest>>
     \/ Goto(p, "claim") /\ UNCHANGED <<want, manifest>>
  /\ UNCHANGED <<storeVars, record, intent, issued, diskVars, procVars, boundVars, historyVars>>

\* claimCompactionRepair: a fence of its own, which keeps the digest it came with.
ClaimRepair(p) ==
  /\ pc[p] = "claim"
  /\ \/ /\ RepairEvidence(want[p] # NoDigest)
        /\ RepairGrant(p)
        /\ want' = IF record.bound THEN [want EXCEPT ![p] = NoDigest] ELSE want
        /\ intent' = want'[p]
        /\ Goto(p, "prove")
     \/ /\ ~(AppAlive(ep[p]) /\ RepairEvidence(want[p] # NoDigest))
        /\ Goto(p, "leave")
        /\ UNCHANGED <<leaseVars, ev, ce, seen, want, intent>>
  /\ UNCHANGED <<appEpoch, appLive, stateVars, admitted, tools, record, manifest, issued,
                 diskVars, role, ep, loaded, boundVars, historyVars>>

\* Mutant: the entries of the file are not looked at.
IsOrphanUnread(p) == ~Marked(ev[p])

\* provePreparedCompactionOrphan: the file is the generation the checkpoint was
\* prepared on, so it holds neither its entry nor anything of the event.
IsOrphan(p) ==
  /\ file = seen[p].gen
  /\ Claims(seen[p].id) = {} /\ ~Marked(ev[p])

Prove(p) ==
  /\ pc[p] = "prove"
  /\ Goto(p, IF IsOrphan(p) THEN "proveAgain" ELSE "giveBack")
  /\ UNCHANGED <<storeVars, record, repairVars, diskVars, procVars, boundVars, historyVars>>

\* Mutant: an unbound record is aborted on any intent.
ProveAgainAnyIntent(p) ==
  /\ pc[p] = "proveAgain"
  /\ Goto(p, IF IsOrphan(p) THEN "abort" ELSE "giveBack")
  /\ UNCHANGED <<storeVars, record, repairVars, diskVars, procVars, boundVars, historyVars>>

\* The second proof; an unbound record also has to be the one the operator saw.
ProveAgain(p) ==
  /\ pc[p] = "proveAgain"
  /\ Goto(p, IF IsOrphan(p) /\ (seen[p].bound \/ want[p] = DigestOf(seen[p], file))
             THEN "abort" ELSE "giveBack")
  /\ UNCHANGED <<storeVars, record, repairVars, diskVars, procVars, boundVars, historyVars>>

\* abortCompactionRepair: the record, the pause and the fence in one step.
Abort(p) ==
  /\ pc[p] = "abort"
  /\ \/ /\ MayAbort(p)
        /\ record' = [record EXCEPT !.phase = "aborted"]
        /\ pause' = "none"
        /\ FreeLease
        /\ Goto(p, "leave")
     \/ /\ ~MayAbort(p)
        /\ Goto(p, "giveBack")
        /\ UNCHANGED <<record, pause, leaseVars, intent>>
  /\ UNCHANGED <<appEpoch, appLive, cursor, gap, turnEvent, session, admitted, tools,
                 manifest, want, issued, diskVars, procVars, boundVars, historyVars>>

\* releaseCompactionRepair, whether or not it still holds the fence.
GiveBack(p) ==
  /\ pc[p] = "giveBack"
  /\ IF Work(ep[p], ce[p], ev[p]) THEN FreeLease ELSE UNCHANGED <<leaseVars, intent>>
  /\ Goto(p, "leave")
  /\ UNCHANGED <<appEpoch, appLive, stateVars, admitted, tools, record, manifest, want, issued,
                 diskVars, procVars, boundVars, historyVars>>

\* releaseApp and the end of the command.
Leave(p) ==
  /\ pc[p] = "leave"
  /\ IF AppAlive(ep[p]) THEN AppRelease(ep[p]) ELSE UNCHANGED storeVars
  /\ Stop(p, "off")
  /\ UNCHANGED <<record, intent, manifest, issued, diskVars, boundVars, historyVars>>

-----------------------------------------------------------------------------
(* createCompactionRecoveryManifest: the intent command *)

\* createCompactionRepairIntent: only an unbound record needs an intent.
ClaimIntent(p) ==
  /\ pc[p] = "intend"
  /\ \/ /\ RepairEvidence(TRUE) /\ ~record.bound
        /\ RepairGrant(p)
        /\ intent' = NoDigest
        /\ Goto(p, "digest")
     \/ /\ ~(AppAlive(ep[p]) /\ RepairEvidence(TRUE) /\ ~record.bound)
        /\ Goto(p, "leave")
        /\ UNCHANGED <<leaseVars, ev, ce, seen, intent>>
  /\ UNCHANGED <<appEpoch, appLive, stateVars, admitted, tools, record, manifest, want, issued,
                 diskVars, role, ep, loaded, boundVars, historyVars>>

\* Two equal proofs, the digest, and a staged file nobody looks for.
Stage(p) ==
  /\ pc[p] = "digest"
  /\ LET ok == IsOrphan(p) /\ manifest = NoDigest IN
       /\ want' = IF ok THEN [want EXCEPT ![p] = DigestOf(seen[p], file)] ELSE want
       /\ Goto(p, IF ok THEN "release" ELSE "giveBack")
  /\ UNCHANGED <<storeVars, record, intent, manifest, issued, diskVars, procVars, boundVars, historyVars>>

\* The fence is given back before the manifest appears.
ReleaseIntent(p) ==
  /\ pc[p] = "release"
  /\ IF Work(ep[p], ce[p], ev[p])
       THEN FreeLease /\ Goto(p, "publish")
       ELSE Goto(p, "leave") /\ UNCHANGED <<leaseVars, intent>>
  /\ UNCHANGED <<appEpoch, appLive, stateVars, admitted, tools, record, manifest, want, issued,
                 diskVars, procVars, boundVars, historyVars>>

\* publishRecoveryManifest: a hard link never replaces a manifest.
Publish(p) ==
  /\ pc[p] = "publish"
  /\ manifest' = IF manifest = NoDigest THEN want[p] ELSE manifest
  /\ issued' = IF manifest = NoDigest THEN issued \cup {want[p]} ELSE issued
  /\ Goto(p, "leave")
  /\ UNCHANGED <<storeVars, record, intent, want, diskVars, procVars, boundVars, historyVars>>

-----------------------------------------------------------------------------
(* Time and faults *)

AppTended == \E p \in Process : role[p] # "off" /\ ep[p] = appEpoch
LeaseTended == \E p \in Process : pc[p] # "idle" /\ role[p] # "off" /\ ce[p] = leaseEpoch

\* A lease nobody renews expires; one somebody renews only if that one stalls.
ExpireApp ==
  /\ AppExpires
  /\ IF AppTended THEN Fault ELSE UNCHANGED faults
  /\ UNCHANGED <<record, repairVars, diskVars, procVars, pc, reason, drawn, repairs, historyVars>>

ExpireLease ==
  /\ LeaseExpires
  /\ IF LeaseTended THEN Fault ELSE UNCHANGED faults
  /\ UNCHANGED <<record, repairVars, diskVars, procVars, pc, reason, drawn, repairs, historyVars>>

\* Process p is killed; what it appended stays with the operating system.
Crash(p) ==
  /\ role[p] # "off" \/ pc[p] # "idle"
  /\ Fault
  /\ Stop(p, "off")
  /\ UNCHANGED <<storeVars, record, intent, manifest, issued, diskVars, drawn, repairs, historyVars>>

\* The machine fails: appends not yet on disk may be gone.
HostCrash ==
  /\ Fault
  /\ \E n \in synced..Len(file) :
       file' = SubSeq(file, 1, n) /\ branch' = SubSeq(branch, 1, n) /\ synced' = n
  /\ role' = [p \in Process |-> "off"]
  /\ pc' = [p \in Process |-> "idle"]
  /\ ev' = [p \in Process |-> 0]
  /\ ce' = [p \in Process |-> 0]
  /\ seen' = [p \in Process |-> NoCheckpoint]
  /\ loaded' = [p \in Process |-> {}]
  /\ reason' = [p \in Process |-> "none"]
  /\ want' = [p \in Process |-> NoDigest]
  /\ UNCHANGED <<storeVars, ep, record, intent, manifest, issued, drawn, repairs, historyVars>>

-----------------------------------------------------------------------------

WorkerStep(p) ==
  \/ Open(p) \/ Prepare(p) \/ Reconcile(p) \/ Advance(p) \/ Decide(p)
  \/ Capture(p) \/ Record(p) \/ ArmGate(p) \/ AppendEntry(p) \/ SyncEntry(p)
  \/ Compacted(p) \/ Verify(p) \/ BeginTurn(p) \/ Turn(p) \/ Mark(p) \/ Complete(p)
  \/ Pause(p) \/ GateLost(p)

CommandStep(p) ==
  \/ ConsumeManifest(p) \/ ClaimRepair(p) \/ Prove(p) \/ ProveAgain(p) \/ Abort(p)
  \/ ClaimIntent(p) \/ Stage(p) \/ ReleaseIntent(p) \/ Publish(p)
  \/ GiveBack(p) \/ Leave(p)

Next ==
  \/ \E p \in Process : Acquire(p) \/ Claim(p) \/ LoseApp(p) \/ WorkerStep(p) \/ CommandStep(p)
  \/ ExpireApp \/ ExpireLease
  \/ \E p \in Process : Drain(p) \/ Crash(p)
  \/ HostCrash

Spec == Init /\ [][Next]_vars

(***************************************************************************)
(* Fairness, as in ChatWorker: loops, workers, commands and restarts go on *)
(* and a lease nobody renews expires, but what the model is asked for, the *)
(* checkpoint or the turn, may never come.  Somebody starts a controller   *)
(* again; nobody has to run a command.                                     *)
(***************************************************************************)
StartController(p) == Acquire(p) /\ role'[p] = "controller"
AtModel(p) == pc[p] \in {"capture", "turn"}

Fairness ==
  /\ \A p \in Process : WF_vars(Claim(p)) /\ WF_vars(LoseApp(p))
                        /\ WF_vars((WorkerStep(p) \/ CommandStep(p)) /\ ~AtModel(p))
  /\ WF_vars(\E p \in Process : StartController(p))
  /\ WF_vars(~AppTended /\ ExpireApp) /\ WF_vars(~LeaseTended /\ ExpireLease)

FairSpec == Spec /\ Fairness

-----------------------------------------------------------------------------
(* Properties *)

\* A checkpoint the store calls compacted or restored has exactly one entry in
\* the part of the session file that survives a power failure, whichever worker
\* wrote either: transitions follow the sync, in compact and in reconciliation.
RestoredIsDurable ==
  record.phase \in {"compacted", "restored"} =>
    Cardinality(Claims(record.id) \cap 1..synced) = 1

\* A checkpoint an operator gave up is not in the session file and never comes:
\* no writer that was suspended past its leases still has its append before it.
AbortedHasNoEntry ==
  record.phase = "aborted" =>
    /\ Claims(record.id) = {}
    /\ \A p \in Process : pc[p] \in {"armed", "append"} => seen[p].id # record.id

\* A record that does not say which file it was made on is given up only with a
\* manifest the intent command published for that very record and file.
LegacyAbortAuthorized ==
  [][record.phase = "prepared" /\ record'.phase = "aborted" /\ ~record.bound =>
       file = record.gen /\ DigestOf(record, file) \in issued]_vars

\* A checkpoint that was begun does not stay half made in silence: it is
\* restored, given up, or its chat is paused.
OpenCheckpointSettles ==
  record.phase \in {"prepared", "compacted"} ~>
    (record.phase \in {"restored", "aborted"} \/ pause # "none")

\* A compaction that is in the session file ends up restored: an exact matching
\* compaction must be reconciled by normal startup.
MatchingEntryIsReconciled ==
  (record.phase = "prepared" /\ Claims(record.id) # {}) ~> record.phase # "prepared"

\* What reconciliation establishes before a turn: a restored record comes with
\* its one entry on the active branch, which is the history the turn is given.
TurnSeesRestored ==
  \A p \in Process : pc[p] = "turn" /\ Owns(p) /\ record.phase = "restored" =>
    Cardinality(Claims(record.id) \cap loaded[p]) = 1

Ledger == INSTANCE ContextLedger WITH context <- current

\* The agent's context moves from one restored checkpoint to the next; a turn that
\* ran on an older one, because the entry came after its worker had loaded the
\* session, is the last the chat sees.
ImplementsLedger == Ledger!Spec
=============================================================================
