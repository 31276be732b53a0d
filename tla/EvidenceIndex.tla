---------------------------- MODULE EvidenceIndex ----------------------------
(***************************************************************************)
(* How intake and workers of a controller process share the completion     *)
(* evidence: the serialized Redis writer (redis/client.ts), the file-only  *)
(* interval of the completion index (pi/completion-index.ts), accept and   *)
(* complete of the repository, and appendCompletion of the session host.   *)
(*                                                                         *)
(* Each chat has one event, named by its chat; the bridge may deliver it   *)
(* any number of times to any process.  A fenced script needs the writer   *)
(* and is one step; accept and complete keep the writer while they wait    *)
(* for the index, so they take several.                                    *)
(***************************************************************************)
EXTENDS FiniteSets

CONSTANTS Chat, Process, None,
          Deployments \* each says which processes may run and the chats they serve

\* How writer and index name the accept of their process.
Accepting == "accept"

ASSUME IndexAssumption ==
  /\ None \notin Chat \cup Process \cup {Accepting}
  /\ Accepting \notin Chat
  /\ Deployments \subseteq [Process -> SUBSET Chat]

VARIABLES
  serves,              \* the chats p is configured to admit, {} if p never runs
  app, lease, queued, done, turn, paused,  \* Redis
  marker,                                  \* session files
  coord,               \* coord[p]: the coordinator of p, which starts only once
  healthy,             \* healthy[p]: no store command of p has failed yet
  writer, index,       \* who of p is inside the writer and the file interval
  pending, poisoned,   \* p's reserved and its invalidated session files
  apc, about, snap, todo, found,  \* p's accept
  wpc,                 \* wpc[p][c]: p's worker of c
  acked, refused       \* history: events answered accepted or duplicate; conflict

redis == <<serves, app, lease, queued, done, turn, paused>>
indexVars == <<pending, poisoned>>
acceptVars == <<apc, about, snap, todo, found>>
history == <<acked, refused>>
vars == <<redis, marker, coord, healthy, writer, index, indexVars, acceptVars, wpc, history>>

WorkerSteps == {"idle", "lookup", "looking", "turn", "reserve", "reserving", "append", "sync",
                "publish", "publishing", "complete", "completing", "rereading", "commit", "catch"}

\* Writer and file interval are held exactly at the steps inside them.
Holders ==
  \A p \in Process :
    /\ writer[p] = Accepting <=> apc[p] \in {"lookup", "reading"}
    /\ index[p] = Accepting <=> apc[p] = "reading"
    /\ \A c \in Chat :
         /\ writer[p] = c <=> wpc[p][c] \in {"completing", "rereading", "commit"}
         /\ index[p] = c <=> wpc[p][c] \in {"looking", "reserving", "publishing", "rereading"}

TypeOK ==
  /\ serves \in Deployments
  /\ app \in Process \cup {None}
  /\ lease \in [Chat -> Process \cup {None}]
  /\ queued \in SUBSET Chat /\ done \in SUBSET Chat
  /\ turn \in SUBSET Chat /\ paused \in SUBSET Chat
  /\ marker \in [Chat -> {"none", "written", "durable"}]
  /\ coord \in [Process -> {"new", "live", "ended"}] /\ healthy \in [Process -> BOOLEAN]
  /\ writer \in [Process -> Chat \cup {Accepting, None}]
  /\ index \in [Process -> Chat \cup {Accepting, None}]
  /\ pending \in [Process -> SUBSET Chat] /\ poisoned \in [Process -> SUBSET Chat]
  /\ apc \in [Process -> {"idle", "wait", "lookup", "reading"}]
  /\ about \in [Process -> Chat \cup {None}]
  /\ snap \in [Process -> SUBSET Chat] /\ todo \in [Process -> SUBSET Chat]
  /\ found \in [Process -> BOOLEAN]
  /\ wpc \in [Process -> [Chat -> WorkerSteps]]
  /\ acked \in SUBSET Chat /\ refused \in SUBSET Chat
  /\ Holders

Init ==
  /\ serves \in Deployments
  /\ app = None /\ lease = [c \in Chat |-> None]
  /\ queued = {} /\ done = {} /\ turn = {} /\ paused = {}
  /\ marker = [c \in Chat |-> "none"]
  /\ coord = [p \in Process |-> "new"] /\ healthy = [p \in Process |-> TRUE]
  /\ writer = [p \in Process |-> None] /\ index = [p \in Process |-> None]
  /\ pending = [p \in Process |-> {}] /\ poisoned = [p \in Process |-> {}]
  /\ apc = [p \in Process |-> "idle"] /\ about = [p \in Process |-> None]
  /\ snap = [p \in Process |-> {}] /\ todo = [p \in Process |-> {}]
  /\ found = [p \in Process |-> FALSE]
  /\ wpc = [p \in Process |-> [c \in Chat |-> "idle"]]
  /\ acked = {} /\ refused = {}

-----------------------------------------------------------------------------
(* Helpers *)

\* connections.serial admits one more operation of p.
Store(p) == healthy[p] /\ writer[p] = None

\* The fence of a worker's scripts.
Work(p, c) == app = p /\ lease[c] = p /\ c \in queued

WGoto(p, c, s) == wpc' = [wpc EXCEPT ![p][c] = s]

\* rebuild throws: some session file is reserved or was invalidated.
Refuses(p) == pending[p] \cup poisoned[p] # {}

\* Mutant: evidence is returned without fsync.
NotFsynced(S) == marker

\* readEvidence: the files of the chats in S are on disk before a proof is returned.
Fsynced(S) == [c \in Chat |-> IF c \in S /\ marker[c] # "none" THEN "durable" ELSE marker[c]]

\* Mutant: the file stays reserved.
PoisonKeepsPending(p, c) ==
  /\ poisoned' = [poisoned EXCEPT ![p] = @ \cup {c}]
  /\ UNCHANGED pending

\* poison: the file is refused for the rest of the process.
Poison(p, c) ==
  /\ poisoned' = [poisoned EXCEPT ![p] = @ \cup {c}]
  /\ pending' = [pending EXCEPT ![p] = @ \ {c}]

\* Writer and file interval are granted in any order; the code's two promise chains
\* grant them in the order they were asked for, which is one of these.
TakeWriter(p, who) == Store(p) /\ writer' = [writer EXCEPT ![p] = who]
TakeIndex(p, who) == index[p] = None /\ index' = [index EXCEPT ![p] = who]
LeaveWriter(p) == writer' = [writer EXCEPT ![p] = None]
LeaveIndex(p) == index' = [index EXCEPT ![p] = None]

-----------------------------------------------------------------------------
(* accept: one delivery of the bridge *)

\* The webhook server lets the request through while the store is ready.
Offer(p, c) ==
  /\ apc[p] = "idle" /\ healthy[p] /\ c \in serves[p]
  /\ apc' = [apc EXCEPT ![p] = "wait"]
  /\ about' = [about EXCEPT ![p] = c]
  /\ UNCHANGED <<redis, marker, coord, healthy, writer, index, indexVars, snap, todo, found, wpc, history>>

Answer(p) ==
  /\ apc' = [apc EXCEPT ![p] = "idle"]
  /\ about' = [about EXCEPT ![p] = None]
  /\ snap' = [snap EXCEPT ![p] = {}]
  /\ todo' = [todo EXCEPT ![p] = {}]
  /\ found' = [found EXCEPT ![p] = FALSE]

\* snapshot: both revisions count completions, so they name the set done.
Snapshot(p) ==
  /\ snap' = [snap EXCEPT ![p] = done]
  /\ todo' = [todo EXCEPT ![p] = Chat]
  /\ found' = [found EXCEPT ![p] = FALSE]

AcceptBegins(p) ==
  /\ apc[p] = "wait"
  /\ TakeWriter(p, Accepting)
  /\ apc' = [apc EXCEPT ![p] = "lookup"]
  /\ Snapshot(p)
  /\ UNCHANGED <<redis, marker, coord, healthy, index, indexVars, about, wpc, history>>

\* The store broke while the request waited: 503.
AcceptRefused(p) ==
  /\ apc[p] = "wait" /\ ~healthy[p]
  /\ Answer(p)
  /\ UNCHANGED <<redis, marker, coord, healthy, writer, index, indexVars, wpc, history>>

AcceptAsksIndex(p) ==
  /\ apc[p] = "lookup" /\ todo[p] # {}
  /\ TakeIndex(p, Accepting)
  /\ apc' = [apc EXCEPT ![p] = "reading"]
  /\ UNCHANGED <<redis, marker, coord, healthy, writer, indexVars, about, snap, todo, found, wpc, history>>

\* findEvent for one candidate chat reads the files of all chats.
AcceptReads(p) ==
  /\ apc[p] = "reading" /\ ~Refuses(p)
  /\ \E c \in todo[p] :
       /\ todo' = [todo EXCEPT ![p] = @ \ {c}]
       /\ found' = [found EXCEPT ![p] = @ \/ (c = about[p] /\ marker[c] # "none")]
  /\ marker' = Fsynced(Chat)
  /\ apc' = [apc EXCEPT ![p] = "lookup"]
  /\ LeaveIndex(p)
  /\ UNCHANGED <<redis, coord, healthy, writer, indexVars, about, snap, wpc, history>>

\* Mutant: the failed interval is not left.
AcceptFailsInside(p) ==
  /\ apc[p] = "reading" /\ Refuses(p)
  /\ healthy' = [healthy EXCEPT ![p] = FALSE]
  /\ LeaveIndex(p) /\ Answer(p)
  /\ UNCHANGED <<redis, marker, coord, writer, indexVars, wpc, history>>

\* findEvent throws inside durable, whose catch marks the connection unhealthy.
AcceptFails(p) ==
  /\ apc[p] = "reading" /\ Refuses(p)
  /\ healthy' = [healthy EXCEPT ![p] = FALSE]
  /\ LeaveIndex(p) /\ LeaveWriter(p)
  /\ Answer(p)
  /\ UNCHANGED <<redis, marker, coord, indexVars, wpc, history>>

AcceptRetries(p) ==
  /\ apc[p] = "lookup" /\ todo[p] = {} /\ snap[p] # done
  /\ Snapshot(p)
  /\ UNCHANGED <<redis, marker, coord, healthy, writer, index, indexVars, apc, about, wpc, history>>

\* The answer of the accept script once the revisions still hold.
Decide(p) ==
  LET c == about[p] IN
  /\ queued' = IF c \in queued \/ found[p] \/ c \in done THEN queued ELSE queued \cup {c}
  /\ IF c \notin queued /\ ~found[p] /\ c \in done
       THEN refused' = refused \cup {c} /\ UNCHANGED acked
       ELSE acked' = acked \cup {c} /\ UNCHANGED refused

\* Mutant: the revisions are not compared.
AcceptAnywaySettles(p) ==
  /\ apc[p] = "lookup" /\ todo[p] = {}
  /\ Decide(p) /\ Answer(p) /\ LeaveWriter(p)
  /\ UNCHANGED <<serves, app, lease, done, turn, paused, marker, coord, healthy, index, indexVars, wpc>>

AcceptSettles(p) ==
  /\ apc[p] = "lookup" /\ todo[p] = {} /\ snap[p] = done
  /\ Decide(p) /\ Answer(p) /\ LeaveWriter(p)
  /\ UNCHANGED <<serves, app, lease, done, turn, paused, marker, coord, healthy, index, indexVars, wpc>>

-----------------------------------------------------------------------------
(* The worker of chat c in process p *)

Acquire(p) ==
  /\ serves[p] # {} /\ app = None /\ coord[p] = "new" /\ Store(p)
  /\ app' = p /\ coord' = [coord EXCEPT ![p] = "live"]
  /\ UNCHANGED <<serves, lease, queued, done, turn, paused, marker, healthy, writer, index, indexVars, acceptVars, wpc, history>>

Claim(p, c) ==
  /\ coord[p] = "live" /\ app = p /\ Store(p)
  /\ wpc[p][c] = "idle" /\ c \in (serves[p] \cap queued) \ paused /\ lease[c] # p
  /\ lease' = [lease EXCEPT ![c] = p]
  /\ WGoto(p, c, "lookup")
  /\ UNCHANGED <<serves, app, queued, done, turn, paused, marker, coord, healthy, writer, index, indexVars, acceptVars, history>>

WorkerAsksIndex(p, c) ==
  /\ \/ wpc[p][c] = "lookup" /\ WGoto(p, c, "looking")
     \/ wpc[p][c] = "reserve" /\ WGoto(p, c, "reserving")
     \/ wpc[p][c] = "publish" /\ WGoto(p, c, "publishing")
     \/ wpc[p][c] = "completing" /\ WGoto(p, c, "rereading")
  /\ TakeIndex(p, c)
  /\ UNCHANGED <<redis, marker, coord, healthy, writer, indexVars, acceptVars, history>>

\* host.findEvent before the turn, then turnState.
WorkerLooks(p, c) ==
  /\ wpc[p][c] = "looking"
  /\ marker' = IF Refuses(p) THEN marker ELSE Fsynced(Chat)
  /\ WGoto(p, c, IF Refuses(p) \/ (marker[c] = "none" /\ c \in turn) THEN "catch"
                 ELSE IF marker[c] # "none" THEN "complete" ELSE "turn")
  /\ LeaveIndex(p)
  /\ UNCHANGED <<redis, coord, healthy, writer, indexVars, acceptVars, history>>

\* beginTurn, the turn itself and the gates around it.
Turn(p, c) ==
  /\ wpc[p][c] = "turn" /\ Store(p) /\ Work(p, c)
  /\ turn' = turn \cup {c}
  /\ WGoto(p, c, "reserve")
  /\ UNCHANGED <<serves, app, lease, queued, done, paused, marker, coord, healthy, writer, index, indexVars, acceptVars, history>>

\* Mutant: the gate after the reservation is awaited inside the file interval.
ReserveThenGate(p, c) ==
  /\ wpc[p][c] = "reserving" /\ Store(p)
  /\ pending' = [pending EXCEPT ![p] = @ \cup {c}]
  /\ WGoto(p, c, "append")
  /\ LeaveIndex(p)
  /\ UNCHANGED <<redis, marker, coord, healthy, writer, poisoned, acceptVars, history>>

\* appendCompletion, first file interval.
Reserve(p, c) ==
  /\ wpc[p][c] = "reserving"
  /\ \/ /\ c \notin poisoned[p] /\ marker[c] = "none"
        /\ pending' = [pending EXCEPT ![p] = @ \cup {c}]
        /\ WGoto(p, c, "append") /\ UNCHANGED marker
     \/ /\ c \notin poisoned[p] /\ marker[c] # "none"
        /\ marker' = Fsynced({c})
        /\ WGoto(p, c, "complete") /\ UNCHANGED pending
     \/ /\ c \in poisoned[p]
        /\ WGoto(p, c, "catch") /\ UNCHANGED <<pending, marker>>
  /\ LeaveIndex(p)
  /\ UNCHANGED <<redis, coord, healthy, writer, poisoned, acceptVars, history>>

Append(p, c) ==
  /\ wpc[p][c] = "append" /\ Store(p) /\ Work(p, c)
  /\ marker' = [marker EXCEPT ![c] = IF @ = "none" THEN "written" ELSE @]
  /\ WGoto(p, c, "sync")
  /\ UNCHANGED <<redis, coord, healthy, writer, index, indexVars, acceptVars, history>>

\* Gate, fsync, gate.
SyncMarker(p, c) ==
  /\ wpc[p][c] = "sync" /\ Store(p) /\ Work(p, c)
  /\ marker' = Fsynced({c})
  /\ WGoto(p, c, "publish")
  /\ UNCHANGED <<redis, coord, healthy, writer, index, indexVars, acceptVars, history>>

\* appendCompletion, second file interval.
Publish(p, c) ==
  /\ wpc[p][c] = "publishing"
  /\ marker' = Fsynced({c})
  /\ pending' = [pending EXCEPT ![p] = @ \ {c}]
  /\ WGoto(p, c, "complete")
  /\ LeaveIndex(p)
  /\ UNCHANGED <<redis, coord, healthy, writer, poisoned, acceptVars, history>>

CompleteBegins(p, c) ==
  /\ wpc[p][c] = "complete"
  /\ TakeWriter(p, c)
  /\ WGoto(p, c, "completing")
  /\ UNCHANGED <<redis, marker, coord, healthy, index, indexVars, acceptVars, history>>

\* complete re-reads the proof; a refusal, too, breaks the connection.
CompleteReads(p, c) ==
  /\ wpc[p][c] = "rereading"
  /\ IF Refuses(p)
       THEN /\ healthy' = [healthy EXCEPT ![p] = FALSE]
            /\ LeaveWriter(p)
            /\ WGoto(p, c, "catch") /\ UNCHANGED marker
       ELSE /\ marker' = Fsynced(Chat)
            /\ WGoto(p, c, "commit") /\ UNCHANGED <<healthy, writer>>
  /\ LeaveIndex(p)
  /\ UNCHANGED <<redis, coord, indexVars, acceptVars, history>>

Commit(p, c) ==
  /\ wpc[p][c] = "commit"
  /\ IF Work(p, c) /\ marker[c] # "none"
       THEN /\ done' = done \cup {c} /\ queued' = queued \ {c} /\ turn' = turn \ {c}
            /\ lease' = [lease EXCEPT ![c] = None]
            /\ WGoto(p, c, "idle")
       ELSE WGoto(p, c, "catch") /\ UNCHANGED <<done, queued, turn, lease>>
  /\ LeaveWriter(p)
  /\ UNCHANGED <<serves, app, paused, marker, coord, healthy, index, indexVars, acceptVars, history>>

\* catch, as the owner: the chat is paused and its lease left to expire.
Pause(p, c) ==
  /\ wpc[p][c] = "catch" /\ coord[p] = "live" /\ Store(p) /\ Work(p, c)
  /\ paused' = paused \cup {c}
  /\ WGoto(p, c, "idle")
  /\ UNCHANGED <<serves, app, lease, queued, done, turn, marker, coord, healthy, writer, index, indexVars, acceptVars, history>>

\* A gate is refused.  appendCompletion invalidates what it had reserved.
GateLost(p, c) ==
  /\ wpc[p][c] \in {"lookup", "turn", "reserve", "append", "sync", "publish", "complete", "catch"}
  /\ writer[p] = None /\ (~healthy[p] \/ ~Work(p, c))
  /\ IF c \in pending[p] THEN Poison(p, c) ELSE UNCHANGED indexVars
  /\ coord' = [coord EXCEPT ![p] = "ended"]
  /\ WGoto(p, c, "idle")
  /\ UNCHANGED <<redis, marker, healthy, writer, index, acceptVars, history>>

-----------------------------------------------------------------------------
(* Time and faults *)

AppExpires ==
  /\ app # None /\ app' = None
  /\ UNCHANGED <<serves, lease, queued, done, turn, paused, marker, coord, healthy, writer, index, indexVars, acceptVars, wpc, history>>

LeaseExpires(c) ==
  /\ lease[c] # None /\ lease' = [lease EXCEPT ![c] = None]
  /\ UNCHANGED <<serves, app, queued, done, turn, paused, marker, coord, healthy, writer, index, indexVars, acceptVars, wpc, history>>

\* A new process takes the place of each one in P; its lease, if any, lapsed.
Fresh(P) ==
  /\ app' = IF app \in P THEN None ELSE app
  /\ lease' = [c \in Chat |-> IF lease[c] \in P THEN None ELSE lease[c]]
  /\ coord' = [p \in Process |-> IF p \in P THEN "new" ELSE coord[p]]
  /\ healthy' = [p \in Process |-> p \in P \/ healthy[p]]
  /\ writer' = [p \in Process |-> IF p \in P THEN None ELSE writer[p]]
  /\ index' = [p \in Process |-> IF p \in P THEN None ELSE index[p]]
  /\ pending' = [p \in Process |-> IF p \in P THEN {} ELSE pending[p]]
  /\ poisoned' = [p \in Process |-> IF p \in P THEN {} ELSE poisoned[p]]
  /\ apc' = [p \in Process |-> IF p \in P THEN "idle" ELSE apc[p]]
  /\ about' = [p \in Process |-> IF p \in P THEN None ELSE about[p]]
  /\ snap' = [p \in Process |-> IF p \in P THEN {} ELSE snap[p]]
  /\ todo' = [p \in Process |-> IF p \in P THEN {} ELSE todo[p]]
  /\ found' = [p \in Process |-> p \notin P /\ found[p]]
  /\ wpc' = [p \in Process |-> IF p \in P THEN [c \in Chat |-> "idle"] ELSE wpc[p]]
  /\ UNCHANGED <<serves, queued, done, turn, paused, history>>

Restart(p) == Fresh({p}) /\ UNCHANGED marker

\* The machine fails: what was written and not synced may be gone.
HostCrash ==
  /\ Fresh(Process)
  /\ \E lost \in SUBSET {c \in Chat : marker[c] = "written"} :
       marker' = [c \in Chat |-> IF c \in lost THEN "none" ELSE Fsynced(Chat)[c]]

-----------------------------------------------------------------------------

AcceptStep(p) ==
  \/ AcceptBegins(p) \/ AcceptRefused(p) \/ AcceptAsksIndex(p)
  \/ AcceptReads(p) \/ AcceptFails(p) \/ AcceptRetries(p) \/ AcceptSettles(p)

WorkerStep(p, c) ==
  \/ WorkerAsksIndex(p, c) \/ WorkerLooks(p, c) \/ Turn(p, c) \/ Reserve(p, c)
  \/ Append(p, c) \/ SyncMarker(p, c) \/ Publish(p, c)
  \/ CompleteBegins(p, c) \/ CompleteReads(p, c) \/ Commit(p, c)
  \/ Pause(p, c) \/ GateLost(p, c)

Next ==
  \/ \E p \in Process :
       \/ Acquire(p) \/ AcceptStep(p) \/ Restart(p)
       \/ \E c \in Chat : Offer(p, c) \/ Claim(p, c) \/ WorkerStep(p, c)
  \/ AppExpires \/ (\E c \in Chat : LeaseExpires(c)) \/ HostCrash

Spec == Init /\ [][Next]_vars

\* Promises of one process always run on: nothing of them waits for the world.
Fairness ==
  \A p \in Process :
    WF_vars(AcceptStep(p)) /\ \A c \in Chat : WF_vars(WorkerStep(p, c))

FairSpec == Spec /\ Fairness

-----------------------------------------------------------------------------
(* Properties *)

\* What the bridge was told is safe stays safe, machine failures included: an
\* event answered accepted or duplicate is queued or its marker is on disk.
AckedIsKept == \A c \in acked : c \in queued \/ marker[c] = "durable"

\* A redelivery of an event is never taken for a forgery of it: the revisions
\* turn the race of its lookup with another process's completion into a retry.
RedeliveryNeverConflicts == refused = {}

\* A file is either reserved for an append under way in this process, or it is
\* refused for good; never both, and a reservation has its worker.
ReservationsHaveWorkers ==
  \A p \in Process :
    /\ pending[p] \cap poisoned[p] = {}
    /\ \A c \in pending[p] : wpc[p][c] \in {"append", "sync", "publish", "publishing"}

\* Every delivery is answered: the writer and the file interval never wait for
\* each other, though accept holds the one while it asks for the other.
EveryAcceptIsAnswered == \A p \in Process : (apc[p] # "idle") ~> (apc[p] = "idle")
=============================================================================
