---------------------------- MODULE EvidenceProofs ----------------------------
(* Theorems about EvidenceIndex, for every value of its constants. *)
EXTENDS EvidenceIndex, TLAPS

-----------------------------------------------------------------------------
(* The inductive invariants *)

\* Why: past the append the worker's marker is in its file, past the fsync it is
\* on disk, and a chat whose event is done has its marker on disk.
Proved == {"publish", "publishing", "complete", "completing", "rereading", "commit"}

MarkerAtStep ==
  \A p \in Process, c \in Chat :
    /\ wpc[p][c] = "sync" => marker[c] # "none"
    /\ wpc[p][c] \in Proved => marker[c] = "durable"

DoneIsDurable == \A c \in done : marker[c] = "durable"

\* Why: what accept found is on disk, and a chat that was done when the lookup
\* began is found once its file was read.
LookupsHold ==
  \A p \in Process :
    /\ found[p] => apc[p] \in {"lookup", "reading"} /\ marker[about[p]] = "durable"
    /\ snap[p] \subseteq done
    /\ apc[p] \in {"lookup", "reading"} /\ about[p] \in snap[p] \ todo[p] => found[p]

\* Why: a request names its chat until it is answered.
Asked == \A p \in Process : apc[p] # "idle" => about[p] \in Chat

Evidence == MarkerAtStep /\ DoneIsDurable /\ LookupsHold

-----------------------------------------------------------------------------
(* Type correctness *)

\* A worker goes to one of its steps, all others stay where they are.
LEMMA Goes ==
  ASSUME NEW p \in Process, NEW c \in Chat, NEW s \in WorkerSteps, WGoto(p, c, s),
         wpc \in [Process -> [Chat -> WorkerSteps]]
  PROVE  /\ wpc' \in [Process -> [Chat -> WorkerSteps]]
         /\ wpc'[p][c] = s
         /\ \A q \in Process, d \in Chat : q # p \/ d # c => wpc'[q][d] = wpc[q][d]
BY DEF WGoto

\* The names of holders are told apart.
LEMMA Names == None # Accepting /\ \A c \in Chat : c # None /\ c # Accepting
BY IndexAssumption

\* A lookup proves what it read and takes nothing from any file.
LEMMA FsyncKeeps ==
  ASSUME NEW S, marker \in [Chat -> {"none", "written", "durable"}]
  PROVE  /\ Fsynced(S) \in [Chat -> {"none", "written", "durable"}]
         /\ \A c \in Chat :
              /\ marker[c] = "none" <=> Fsynced(S)[c] = "none"
              /\ marker[c] = "durable" => Fsynced(S)[c] = "durable"
              /\ c \in S /\ marker[c] # "none" => Fsynced(S)[c] = "durable"
BY DEF Fsynced

\* The steps of accept keep the types.
LEMMA AcceptTyped ==
  ASSUME TypeOK, Asked, NEW p \in Process, AcceptStep(p) \/ \E c \in Chat : Offer(p, c)
  PROVE  TypeOK'
<1> USE Names DEF TypeOK, Holders, redis, indexVars, acceptVars, history
<1>1. ASSUME NEW c \in Chat, Offer(p, c) PROVE TypeOK'
  BY <1>1 DEF Offer
<1>2. CASE AcceptBegins(p)
  <2>1. Holders'
    <3>1. /\ apc[p] = "wait" /\ writer[p] = None
          /\ writer' = [writer EXCEPT ![p] = Accepting]
          /\ apc' = [apc EXCEPT ![p] = "lookup"] /\ UNCHANGED <<index, wpc>>
      BY <1>2 DEF AcceptBegins, TakeWriter, Store
    <3> QED
      BY <3>1
  <2>2. /\ writer' \in [Process -> Chat \cup {Accepting, None}]
        /\ apc' \in [Process -> {"idle", "wait", "lookup", "reading"}]
    BY <1>2 DEF AcceptBegins, TakeWriter
  <2>3. /\ snap' \in [Process -> SUBSET Chat] /\ todo' \in [Process -> SUBSET Chat]
        /\ found' \in [Process -> BOOLEAN]
    BY <1>2 DEF AcceptBegins, Snapshot
  <2> HIDE DEF Holders
  <2> QED
    BY <1>2, <2>1, <2>2, <2>3 DEF AcceptBegins
<1>3. CASE AcceptRefused(p)
  BY <1>3 DEF AcceptRefused, Answer
<1>4. CASE AcceptAsksIndex(p)
  BY <1>4 DEF AcceptAsksIndex, TakeIndex
<1>5. CASE AcceptReads(p)
  <2>1. Fsynced(Chat) \in [Chat -> {"none", "written", "durable"}]
    BY FsyncKeeps
  <2> QED
    BY <1>5, <2>1 DEF AcceptReads, LeaveIndex
<1>6. CASE AcceptFails(p)
  BY <1>6 DEF AcceptFails, LeaveIndex, LeaveWriter, Answer
<1>7. CASE AcceptRetries(p)
  BY <1>7 DEF AcceptRetries, Snapshot
<1>8. CASE AcceptSettles(p)
  <2>1. Holders'
    BY <1>8 DEF AcceptSettles, Answer, LeaveWriter
  <2>2. /\ writer' \in [Process -> Chat \cup {Accepting, None}]
        /\ apc' \in [Process -> {"idle", "wait", "lookup", "reading"}]
        /\ about' \in [Process -> Chat \cup {None}]
    BY <1>8 DEF AcceptSettles, Answer, LeaveWriter
  <2>3. /\ snap' \in [Process -> SUBSET Chat] /\ todo' \in [Process -> SUBSET Chat]
        /\ found' \in [Process -> BOOLEAN]
    BY <1>8 DEF AcceptSettles, Answer
  <2>4. about[p] \in Chat
    BY <1>8 DEF AcceptSettles, Asked
  <2>5. queued' \in SUBSET Chat /\ acked' \in SUBSET Chat /\ refused' \in SUBSET Chat
    BY <1>8, <2>4 DEF AcceptSettles, Decide
  <2> HIDE DEF Holders
  <2> QED
    BY <1>8, <2>1, <2>2, <2>3, <2>5 DEF AcceptSettles
<1> QED
  BY <1>1, <1>2, <1>3, <1>4, <1>5, <1>6, <1>7, <1>8 DEF AcceptStep

\* A worker that moves takes what its new step needs, if it was free, and leaves
\* what it needs no more.
InWriter == {"completing", "rereading", "commit"}
InIndex == {"looking", "reserving", "publishing", "rereading"}
Hands == [Process -> Chat \cup {Accepting, None}]

Passes(h, p, c, within) ==
  /\ h' \in Hands
  /\ \A q \in Process : q # p => h'[q] = h[q]
  /\ within => h[p] \in {c, None} /\ h'[p] = c
  /\ ~within => h'[p] = IF h[p] = c THEN None ELSE h[p]

\* A step of a worker passes at most its own chat in or out of its hands.
LEMMA WorkerMoves ==
  ASSUME TypeOK, NEW p \in Process, NEW c \in Chat, NEW s \in WorkerSteps,
         WGoto(p, c, s), UNCHANGED apc,
         Passes(writer, p, c, s \in InWriter), Passes(index, p, c, s \in InIndex)
  PROVE  /\ wpc' \in [Process -> [Chat -> WorkerSteps]]
         /\ writer' \in Hands /\ index' \in Hands /\ Holders'
<1>1. /\ wpc' \in [Process -> [Chat -> WorkerSteps]]
      /\ wpc'[p][c] = s
      /\ \A q \in Process, d \in Chat : q # p \/ d # c => wpc'[q][d] = wpc[q][d]
  BY Goes DEF TypeOK
<1>2. writer' \in Hands /\ index' \in Hands
  BY DEF Passes
<1>3. ASSUME NEW q \in Process
      PROVE  /\ writer'[q] = Accepting <=> apc'[q] \in {"lookup", "reading"}
             /\ index'[q] = Accepting <=> apc'[q] = "reading"
  BY <1>3, Names DEF TypeOK, Holders, Passes
<1>4. ASSUME NEW q \in Process, NEW d \in Chat
      PROVE  writer'[q] = d <=> wpc'[q][d] \in InWriter
  <2>1. /\ writer[q] = d <=> wpc[q][d] \in InWriter
        /\ writer[p] = c <=> wpc[p][c] \in InWriter
    BY <1>4 DEF TypeOK, Holders, InWriter
  <2>2. CASE q # p
    BY <1>1, <2>1, <2>2 DEF Passes
  <2>3. CASE q = p /\ d # c
    BY <1>1, <2>1, <2>3, Names DEF Passes
  <2>4. CASE q = p /\ d = c
    BY <1>1, <2>1, <2>4, Names DEF Passes
  <2> QED
    BY <2>2, <2>3, <2>4
<1>5. ASSUME NEW q \in Process, NEW d \in Chat
      PROVE  index'[q] = d <=> wpc'[q][d] \in InIndex
  BY <1>1, <1>5, Names DEF TypeOK, Holders, Passes, InIndex
<1> QED
  BY <1>1, <1>2, <1>3, <1>4, <1>5 DEF Holders, InWriter, InIndex

\* Only accept itself and the end of its process touch its request.
LEMMA WorkersLeaveAccept ==
  ASSUME NEW p \in Process, NEW c \in Chat, WorkerStep(p, c) \/ Claim(p, c)
  PROVE  UNCHANGED <<acceptVars, history>>
BY DEF WorkerStep, Claim, WorkerAsksIndex, WorkerLooks, Turn, Reserve, Append, SyncMarker,
       Publish, CompleteBegins, CompleteReads, Commit, Pause, GateLost

\* The steps of a worker keep the types.
LEMMA WorkerTyped ==
  ASSUME TypeOK, NEW p \in Process, NEW c \in Chat, WorkerStep(p, c) \/ Claim(p, c)
  PROVE  TypeOK'
<1>0. /\ writer \in Hands /\ index \in Hands
      /\ marker \in [Chat -> {"none", "written", "durable"}]
      /\ wpc[p][c] \in InWriter <=> writer[p] = c
      /\ wpc[p][c] \in InIndex <=> index[p] = c
  BY DEF TypeOK, Hands, Holders, InWriter, InIndex
<1>a. \A S : Fsynced(S) \in [Chat -> {"none", "written", "durable"}]
  BY <1>0, FsyncKeeps
<1> DEFINE Rest == /\ serves \in Deployments
                   /\ app \in Process \cup {None}
                   /\ lease \in [Chat -> Process \cup {None}]
                   /\ queued \in SUBSET Chat /\ done \in SUBSET Chat
                   /\ turn \in SUBSET Chat /\ paused \in SUBSET Chat
                   /\ marker \in [Chat -> {"none", "written", "durable"}]
                   /\ coord \in [Process -> {"new", "live", "ended"}]
                   /\ healthy \in [Process -> BOOLEAN]
                   /\ pending \in [Process -> SUBSET Chat]
                   /\ poisoned \in [Process -> SUBSET Chat]
           Accepts == /\ apc \in [Process -> {"idle", "wait", "lookup", "reading"}]
                      /\ about \in [Process -> Chat \cup {None}]
                      /\ snap \in [Process -> SUBSET Chat]
                      /\ todo \in [Process -> SUBSET Chat]
                      /\ found \in [Process -> BOOLEAN]
                      /\ acked \in SUBSET Chat /\ refused \in SUBSET Chat
<1>b. Rest /\ Accepts
  BY DEF TypeOK
<1>c. UNCHANGED <<acceptVars, history>>
  BY WorkersLeaveAccept
<1>d. Accepts' /\ UNCHANGED apc
  BY <1>b, <1>c DEF acceptVars, history
<1>e. ASSUME NEW s \in WorkerSteps, WGoto(p, c, s), Rest',
             Passes(writer, p, c, s \in InWriter), Passes(index, p, c, s \in InIndex)
      PROVE  TypeOK'
  <2>1. /\ wpc' \in [Process -> [Chat -> WorkerSteps]]
        /\ writer' \in Hands /\ index' \in Hands /\ Holders'
    BY <1>d, <1>e, WorkerMoves
  <2> QED
    BY <1>d, <1>e, <2>1 DEF TypeOK, Hands
<1>1. CASE Claim(p, c)
  <2>1. PICK s \in {"lookup"} :
          /\ WGoto(p, c, s)
          /\ Passes(writer, p, c, s \in InWriter) /\ Passes(index, p, c, s \in InIndex)
    BY <1>0, <1>1, Names DEF Claim, redis, Passes, Hands, InWriter, InIndex
  <2>2. Rest'
    BY <1>a, <1>b, <1>1 DEF Claim, redis, indexVars
  <2> QED
    BY <1>e, <2>1, <2>2 DEF WorkerSteps
<1>2. CASE WorkerAsksIndex(p, c)
  <2>1. PICK s \in {"looking", "reserving", "publishing", "rereading"} :
          /\ WGoto(p, c, s)
          /\ Passes(writer, p, c, s \in InWriter) /\ Passes(index, p, c, s \in InIndex)
    BY <1>0, <1>2, Names DEF WorkerAsksIndex, TakeIndex, redis, Passes, Hands, InWriter, InIndex
  <2>2. Rest'
    BY <1>a, <1>b, <1>2 DEF WorkerAsksIndex, TakeIndex, redis, indexVars
  <2> QED
    BY <1>e, <2>1, <2>2 DEF WorkerSteps
<1>3. CASE WorkerLooks(p, c)
  <2>1. PICK s \in {"catch", "complete", "turn"} :
          /\ WGoto(p, c, s)
          /\ Passes(writer, p, c, s \in InWriter) /\ Passes(index, p, c, s \in InIndex)
    BY <1>0, <1>3, Names DEF WorkerLooks, LeaveIndex, redis, Passes, Hands, InWriter, InIndex
  <2>2. Rest'
    BY <1>a, <1>b, <1>3 DEF WorkerLooks, LeaveIndex, redis, indexVars
  <2> QED
    BY <1>e, <2>1, <2>2 DEF WorkerSteps
<1>4. CASE Turn(p, c)
  <2>1. PICK s \in {"reserve"} :
          /\ WGoto(p, c, s)
          /\ Passes(writer, p, c, s \in InWriter) /\ Passes(index, p, c, s \in InIndex)
    BY <1>0, <1>4, Names DEF Turn, redis, Passes, Hands, InWriter, InIndex
  <2>2. Rest'
    BY <1>a, <1>b, <1>4 DEF Turn, redis, indexVars
  <2> QED
    BY <1>e, <2>1, <2>2 DEF WorkerSteps
<1>5. CASE Reserve(p, c)
  <2>1. PICK s \in {"append", "complete", "catch"} :
          /\ WGoto(p, c, s)
          /\ Passes(writer, p, c, s \in InWriter) /\ Passes(index, p, c, s \in InIndex)
    BY <1>0, <1>5, Names DEF Reserve, LeaveIndex, redis, Passes, Hands, InWriter, InIndex
  <2>2. Rest'
    BY <1>a, <1>b, <1>5 DEF Reserve, LeaveIndex, redis, indexVars
  <2> QED
    BY <1>e, <2>1, <2>2 DEF WorkerSteps
<1>6. CASE Append(p, c)
  <2>1. PICK s \in {"sync"} :
          /\ WGoto(p, c, s)
          /\ Passes(writer, p, c, s \in InWriter) /\ Passes(index, p, c, s \in InIndex)
    BY <1>0, <1>6, Names DEF Append, redis, Passes, Hands, InWriter, InIndex
  <2>2. Rest'
    BY <1>a, <1>b, <1>6 DEF Append, redis, indexVars
  <2> QED
    BY <1>e, <2>1, <2>2 DEF WorkerSteps
<1>7. CASE SyncMarker(p, c)
  <2>1. PICK s \in {"publish"} :
          /\ WGoto(p, c, s)
          /\ Passes(writer, p, c, s \in InWriter) /\ Passes(index, p, c, s \in InIndex)
    BY <1>0, <1>7, Names DEF SyncMarker, redis, Passes, Hands, InWriter, InIndex
  <2>2. Rest'
    BY <1>a, <1>b, <1>7 DEF SyncMarker, redis, indexVars
  <2> QED
    BY <1>e, <2>1, <2>2 DEF WorkerSteps
<1>8. CASE Publish(p, c)
  <2>1. PICK s \in {"complete"} :
          /\ WGoto(p, c, s)
          /\ Passes(writer, p, c, s \in InWriter) /\ Passes(index, p, c, s \in InIndex)
    BY <1>0, <1>8, Names DEF Publish, LeaveIndex, redis, Passes, Hands, InWriter, InIndex
  <2>2. Rest'
    BY <1>a, <1>b, <1>8 DEF Publish, LeaveIndex, redis, indexVars
  <2> QED
    BY <1>e, <2>1, <2>2 DEF WorkerSteps
<1>9. CASE CompleteBegins(p, c)
  <2>1. PICK s \in {"completing"} :
          /\ WGoto(p, c, s)
          /\ Passes(writer, p, c, s \in InWriter) /\ Passes(index, p, c, s \in InIndex)
    <3>1. WGoto(p, c, "completing") /\ writer[p] = None /\ UNCHANGED index
          /\ writer' = [writer EXCEPT ![p] = c] /\ wpc[p][c] = "complete"
      BY <1>9 DEF CompleteBegins, TakeWriter, Store
    <3>2. Passes(writer, p, c, "completing" \in InWriter)
      BY <1>0, <3>1 DEF Passes, Hands, InWriter
    <3>3. Passes(index, p, c, "completing" \in InIndex)
      BY <1>0, <3>1 DEF Passes, InIndex
    <3> QED
      BY <3>1, <3>2, <3>3
  <2>2. Rest'
    BY <1>a, <1>b, <1>9 DEF CompleteBegins, TakeWriter, redis, indexVars
  <2> QED
    BY <1>e, <2>1, <2>2 DEF WorkerSteps
<1>10. CASE CompleteReads(p, c)
  <2>1. PICK s \in {"catch", "commit"} :
          /\ WGoto(p, c, s)
          /\ Passes(writer, p, c, s \in InWriter) /\ Passes(index, p, c, s \in InIndex)
    BY <1>0, <1>10, Names DEF CompleteReads, LeaveIndex, LeaveWriter, redis, Passes, Hands, InWriter, InIndex
  <2>2. Rest'
    <3>1. marker' = marker \/ marker' = Fsynced(Chat)
      BY <1>10 DEF CompleteReads
    <3>a. healthy' = healthy \/ healthy' = [healthy EXCEPT ![p] = FALSE]
      BY <1>10 DEF CompleteReads
    <3>b. healthy' \in [Process -> BOOLEAN]
      BY <1>b, <3>a
    <3>c. marker' \in [Chat -> {"none", "written", "durable"}]
      BY <1>a, <1>b, <3>1
    <3> QED
      BY <1>b, <1>10, <3>b, <3>c DEF CompleteReads, redis, indexVars
  <2> QED
    BY <1>e, <2>1, <2>2 DEF WorkerSteps
<1>11. CASE Commit(p, c)
  <2>1. PICK s \in {"idle", "catch"} :
          /\ WGoto(p, c, s)
          /\ Passes(writer, p, c, s \in InWriter) /\ Passes(index, p, c, s \in InIndex)
    BY <1>0, <1>11, Names DEF Commit, LeaveWriter, redis, Passes, Hands, InWriter, InIndex
  <2>2. Rest'
    BY <1>a, <1>b, <1>11 DEF Commit, LeaveWriter, redis, indexVars
  <2> QED
    BY <1>e, <2>1, <2>2 DEF WorkerSteps
<1>12. CASE Pause(p, c)
  <2>1. PICK s \in {"idle"} :
          /\ WGoto(p, c, s)
          /\ Passes(writer, p, c, s \in InWriter) /\ Passes(index, p, c, s \in InIndex)
    BY <1>0, <1>12, Names DEF Pause, redis, Passes, Hands, InWriter, InIndex
  <2>2. Rest'
    BY <1>a, <1>b, <1>12 DEF Pause, redis, indexVars
  <2> QED
    BY <1>e, <2>1, <2>2 DEF WorkerSteps
<1>13. CASE GateLost(p, c)
  <2>1. PICK s \in {"idle"} :
          /\ WGoto(p, c, s)
          /\ Passes(writer, p, c, s \in InWriter) /\ Passes(index, p, c, s \in InIndex)
    BY <1>0, <1>13, Names DEF GateLost, Poison, redis, Passes, Hands, InWriter, InIndex
  <2>2. Rest'
    BY <1>a, <1>b, <1>13 DEF GateLost, Poison, redis, indexVars
  <2> QED
    BY <1>e, <2>1, <2>2 DEF WorkerSteps
<1> QED
  BY <1>1, <1>2, <1>3, <1>4, <1>5, <1>6, <1>7, <1>8, <1>9, <1>10, <1>11, <1>12, <1>13
     DEF WorkerStep

\* Replacing processes keeps the types.
LEMMA FreshTyped ==
  ASSUME TypeOK, NEW P \in SUBSET Process, Fresh(P),
         marker' \in [Chat -> {"none", "written", "durable"}]
  PROVE  TypeOK'
BY Names DEF TypeOK, Holders, Fresh, WorkerSteps, history

\* A request names its chat until it is answered.
LEMMA AskedStep ==
  ASSUME TypeOK, Asked, [Next]_vars
  PROVE  Asked'
<1> USE DEF TypeOK, Asked
<1>1. ASSUME NEW p \in Process, NEW c \in Chat, Offer(p, c) PROVE Asked'
  BY <1>1 DEF Offer
<1>2. ASSUME NEW p \in Process, AcceptStep(p) PROVE Asked'
  <2>1. \/ UNCHANGED <<apc, about>>
        \/ UNCHANGED about /\ apc[p] # "idle" /\ \A q \in Process : q # p => apc'[q] = apc[q]
        \/ /\ apc' = [apc EXCEPT ![p] = "idle"]
           /\ \A q \in Process : q # p => about'[q] = about[q]
    BY <1>2 DEF AcceptStep, AcceptBegins, AcceptRefused, AcceptAsksIndex, AcceptReads,
                AcceptFails, AcceptRetries, AcceptSettles, Answer, Snapshot
  <2> QED
    BY <2>1
<1>3. ASSUME NEW P \in SUBSET Process, Fresh(P) PROVE Asked'
  BY <1>3 DEF Fresh
<1>4. CASE UNCHANGED <<apc, about>>
  BY <1>4
<1>5. ASSUME NEW p \in Process, NEW c \in Chat, WorkerStep(p, c) \/ Claim(p, c) PROVE Asked'
  BY <1>4, <1>5, WorkersLeaveAccept DEF acceptVars
<1>6. ASSUME NEW p \in Process, Acquire(p) PROVE Asked'
  BY <1>4, <1>6 DEF Acquire, acceptVars
<1>7. CASE AppExpires \/ (\E c \in Chat : LeaseExpires(c)) \/ UNCHANGED vars
  BY <1>4, <1>7 DEF AppExpires, LeaseExpires, vars, acceptVars
<1> QED
  BY <1>1, <1>2, <1>3, <1>5, <1>6, <1>7 DEF Next, Restart, HostCrash

\* Every variable keeps the type TypeOK gives it, and writer and file interval
\* are held exactly at the steps inside them.
THEOREM TypeCorrect == Spec => [](TypeOK /\ Asked)
<1>1. Init => TypeOK /\ Asked
  BY Names DEF Init, TypeOK, Holders, Asked, WorkerSteps
<1>2. TypeOK /\ Asked /\ [Next]_vars => TypeOK' /\ Asked'
  <2> SUFFICES ASSUME TypeOK, Asked, [Next]_vars PROVE TypeOK'
    BY AskedStep
  <2>1. ASSUME NEW p \in Process, Acquire(p) PROVE TypeOK'
    BY <2>1 DEF Acquire, TypeOK, Holders, indexVars, acceptVars, history
  <2>2. ASSUME NEW p \in Process, Restart(p) PROVE TypeOK'
    BY <2>2, FreshTyped DEF Restart, TypeOK
  <2>3. CASE HostCrash
    <3>1. marker' \in [Chat -> {"none", "written", "durable"}]
      BY <2>3, FsyncKeeps DEF HostCrash, TypeOK
    <3> QED
      BY <2>3, <3>1, FreshTyped DEF HostCrash
  <2>4. CASE AppExpires
    BY <2>4 DEF AppExpires, TypeOK, Holders, indexVars, acceptVars, history
  <2>a. ASSUME NEW c \in Chat, LeaseExpires(c) PROVE TypeOK'
    BY <2>a DEF LeaseExpires, TypeOK, Holders, indexVars, acceptVars, history
  <2>5. CASE UNCHANGED vars
    BY <2>5 DEF vars, TypeOK, Holders, redis, indexVars, acceptVars, history
  <2> QED
    BY <2>1, <2>2, <2>3, <2>4, <2>a, <2>5, AcceptTyped, WorkerTyped DEF Next
<1> QED
  BY <1>1, <1>2, PTL DEF Spec

-----------------------------------------------------------------------------
(* Evidence *)

\* No step but the failure of the machine takes a marker from a file, and that
\* one takes none that is on disk.
LEMMA MarkersStay ==
  ASSUME TypeOK, [Next]_vars
  PROVE  /\ \A c \in Chat : marker[c] = "durable" => marker'[c] = "durable"
         /\ HostCrash \/ \A c \in Chat : marker[c] # "none" => marker'[c] # "none"
<1>0. marker \in [Chat -> {"none", "written", "durable"}]
  BY DEF TypeOK
<1>1. CASE UNCHANGED marker
  BY <1>1
<1>2. ASSUME NEW S, marker' = Fsynced(S)
      PROVE  \A c \in Chat : /\ marker[c] = "durable" => marker'[c] = "durable"
                             /\ marker[c] # "none" => marker'[c] # "none"
  BY <1>0, <1>2 DEF Fsynced
<1>3. CASE HostCrash
  <2>1. PICK lost \in SUBSET {c \in Chat : marker[c] = "written"} :
          marker' = [c \in Chat |-> IF c \in lost THEN "none" ELSE Fsynced(Chat)[c]]
    BY <1>3 DEF HostCrash
  <2> QED
    BY <1>0, <1>3, <2>1 DEF Fsynced
<1>4. ASSUME NEW p \in Process, NEW c \in Chat, WorkerStep(p, c)
      PROVE  \/ UNCHANGED marker \/ (\E S : marker' = Fsynced(S))
             \/ marker' = [marker EXCEPT ![c] = IF @ = "none" THEN "written" ELSE @]
  BY <1>4 DEF WorkerStep, WorkerAsksIndex, WorkerLooks, Turn, Reserve, Append, SyncMarker,
              Publish, CompleteBegins, CompleteReads, Commit, Pause, GateLost, redis
<1>5. ASSUME NEW p \in Process, AcceptStep(p)
      PROVE  UNCHANGED marker \/ marker' = Fsynced(Chat)
  BY <1>5 DEF AcceptStep, AcceptBegins, AcceptRefused, AcceptAsksIndex, AcceptReads,
              AcceptFails, AcceptRetries, AcceptSettles
<1>6. ASSUME NEW p \in Process, NEW c \in Chat,
             \/ Acquire(p) \/ Restart(p) \/ Offer(p, c) \/ Claim(p, c)
             \/ AppExpires \/ LeaseExpires(c) \/ UNCHANGED vars
      PROVE  UNCHANGED marker
  BY <1>6 DEF Acquire, Restart, Offer, Claim, AppExpires, LeaseExpires, vars
<1>7. ASSUME NEW p \in Process, NEW c \in Chat, WorkerStep(p, c)
      PROVE  \A d \in Chat : /\ marker[d] = "durable" => marker'[d] = "durable"
                             /\ marker[d] # "none" => marker'[d] # "none"
  BY <1>0, <1>1, <1>2, <1>4, <1>7
<1>8. ASSUME NEW p \in Process, Acquire(p) \/ Restart(p) PROVE UNCHANGED marker
  BY <1>8 DEF Acquire, Restart
<1>9. CASE AppExpires \/ (\E c \in Chat : LeaseExpires(c)) \/ UNCHANGED vars
  BY <1>1, <1>9 DEF AppExpires, LeaseExpires, vars
<1> QED
  BY <1>1, <1>2, <1>3, <1>5, <1>6, <1>7, <1>8, <1>9 DEF Next

\* What a step of a worker may do to its own step and to the marker it proved.
LEMMA MarkerStepOf ==
  ASSUME TypeOK, MarkerAtStep, NEW p \in Process, NEW c \in Chat, WorkerStep(p, c) \/ Claim(p, c)
  PROVE  /\ wpc'[p][c] = "sync" => marker'[c] # "none"
         /\ wpc'[p][c] \in Proved => marker'[c] = "durable"
<1>0. /\ marker \in [Chat -> {"none", "written", "durable"}]
      /\ wpc \in [Process -> [Chat -> WorkerSteps]]
      /\ wpc[p][c] = "sync" => marker[c] # "none"
      /\ wpc[p][c] \in Proved => marker[c] = "durable"
  BY DEF TypeOK, MarkerAtStep
<1>a. /\ marker[c] # "none" => Fsynced({c})[c] = "durable" /\ Fsynced(Chat)[c] = "durable"
  BY <1>0 DEF Fsynced
<1>b. ASSUME NEW s \in WorkerSteps, WGoto(p, c, s) PROVE wpc'[p][c] = s
  BY <1>0, <1>b DEF WGoto
<1> USE DEF Proved, WorkerSteps
<1>1. CASE Claim(p, c) \/ Turn(p, c) \/ Pause(p, c) \/ GateLost(p, c)
  <2>1. wpc'[p][c] \in {"lookup", "reserve", "idle"}
    BY <1>1, <1>b DEF Claim, Turn, Pause, GateLost
  <2> QED
    BY <2>1
<1>2. CASE WorkerAsksIndex(p, c)
  <2>1. /\ UNCHANGED marker
        /\ \/ wpc'[p][c] \in {"looking", "reserving"}
           \/ wpc[p][c] = "publish" /\ wpc'[p][c] = "publishing"
           \/ wpc[p][c] = "completing" /\ wpc'[p][c] = "rereading"
    BY <1>2, <1>b DEF WorkerAsksIndex
  <2> QED
    BY <1>0, <2>1
<1>3. CASE WorkerLooks(p, c)
  <2>1. CASE Refuses(p)
    <3>1. WGoto(p, c, "catch")
      BY <1>3, <2>1 DEF WorkerLooks, WGoto
    <3> QED
      BY <1>b, <3>1
  <2>2. CASE ~Refuses(p) /\ marker[c] # "none"
    BY <1>3, <1>a, <1>b, <2>2 DEF WorkerLooks
  <2>3. CASE ~Refuses(p) /\ marker[c] = "none"
    <3>1. WGoto(p, c, "catch") \/ WGoto(p, c, "turn")
      BY <1>3, <2>3 DEF WorkerLooks
    <3> QED
      BY <1>b, <3>1
  <2> QED
    BY <2>1, <2>2, <2>3
<1>4. CASE Reserve(p, c)
  <2>1. \/ wpc'[p][c] \in {"append", "catch"}
        \/ marker[c] # "none" /\ marker' = Fsynced({c}) /\ wpc'[p][c] = "complete"
    BY <1>4, <1>b DEF Reserve
  <2> QED
    BY <1>a, <2>1
<1>5. CASE Append(p, c)
  <2>1. wpc'[p][c] = "sync" /\ marker'[c] # "none"
    BY <1>0, <1>5, <1>b DEF Append
  <2> QED
    BY <2>1
<1>6. CASE SyncMarker(p, c)
  <2>1. wpc'[p][c] = "publish" /\ marker' = Fsynced({c}) /\ marker[c] # "none"
    BY <1>0, <1>6, <1>b DEF SyncMarker
  <2> QED
    BY <1>a, <2>1
<1>7. CASE Publish(p, c)
  <2>1. wpc'[p][c] = "complete" /\ marker' = Fsynced({c}) /\ marker[c] = "durable"
    BY <1>0, <1>7, <1>b DEF Publish
  <2> QED
    BY <1>a, <2>1
<1>8. CASE CompleteBegins(p, c)
  <2>1. wpc'[p][c] = "completing" /\ wpc[p][c] = "complete" /\ UNCHANGED marker
    BY <1>8, <1>b DEF CompleteBegins
  <2> QED
    BY <1>0, <2>1
<1>9. CASE CompleteReads(p, c)
  <2>1. /\ wpc[p][c] = "rereading"
        /\ wpc'[p][c] = "catch" \/ (wpc'[p][c] = "commit" /\ marker' = Fsynced(Chat))
    <3>1. /\ wpc[p][c] = "rereading"
          /\ WGoto(p, c, "catch") \/ (WGoto(p, c, "commit") /\ marker' = Fsynced(Chat))
      BY <1>9 DEF CompleteReads
    <3> QED
      BY <1>b, <3>1
  <2> QED
    BY <1>0, <1>a, <2>1
<1>10. CASE Commit(p, c)
  <2>1. wpc'[p][c] \in {"idle", "catch"}
    BY <1>10, <1>b DEF Commit
  <2> QED
    BY <2>1
<1> QED
  BY <1>1, <1>2, <1>3, <1>4, <1>5, <1>6, <1>7, <1>8, <1>9, <1>10 DEF WorkerStep

\* The markers a worker relies on outlive every step of the others.
LEMMA MarkerAtStepKept ==
  ASSUME TypeOK, MarkerAtStep, [Next]_vars
  PROVE  MarkerAtStep'
<1>0. wpc \in [Process -> [Chat -> WorkerSteps]]
  BY DEF TypeOK
<1>1. ASSUME ~HostCrash, NEW p \in Process, NEW c \in Chat,
             \/ wpc'[p][c] = wpc[p][c]
             \/ wpc'[p][c] = "idle"
             \/ WorkerStep(p, c) \/ Claim(p, c)
      PROVE  /\ wpc'[p][c] = "sync" => marker'[c] # "none"
             /\ wpc'[p][c] \in Proved => marker'[c] = "durable"
  <2>1. CASE wpc'[p][c] = wpc[p][c]
    BY <1>1, <2>1, MarkersStay DEF MarkerAtStep
  <2>2. CASE wpc'[p][c] = "idle"
    BY <2>2 DEF Proved
  <2> QED
    BY <1>1, <2>1, <2>2, MarkerStepOf
<1>2. CASE UNCHANGED wpc /\ ~HostCrash
  BY <1>1, <1>2 DEF MarkerAtStep
<1>3. ASSUME NEW P \in SUBSET Process, Fresh(P)
      PROVE  \A p \in Process, c \in Chat : wpc'[p][c] = wpc[p][c] \/ wpc'[p][c] = "idle"
  BY <1>0, <1>3 DEF Fresh
<1>4. CASE HostCrash
  <2>1. \A p \in Process, c \in Chat : wpc'[p][c] = "idle"
    BY <1>4 DEF HostCrash, Fresh
  <2> QED
    BY <2>1 DEF MarkerAtStep, Proved
<1>5. ASSUME NEW p \in Process, NEW c \in Chat, WorkerStep(p, c) \/ Claim(p, c)
      PROVE  \A q \in Process, d \in Chat : q # p \/ d # c => wpc'[q][d] = wpc[q][d]
  <2>1. \E s : WGoto(p, c, s)
    BY <1>5 DEF WorkerStep, Claim, WorkerAsksIndex, WorkerLooks, Turn, Reserve, Append,
                SyncMarker, Publish, CompleteBegins, CompleteReads, Commit, Pause, GateLost
  <2> QED
    BY <1>0, <2>1 DEF WGoto
<1>6. ASSUME NEW p \in Process, NEW c \in Chat, WorkerStep(p, c) \/ Claim(p, c), ~HostCrash
      PROVE  MarkerAtStep'
  BY <1>1, <1>5, <1>6 DEF MarkerAtStep
<1>7. ASSUME NEW p \in Process, Restart(p), ~HostCrash
      PROVE  MarkerAtStep'
  BY <1>1, <1>3, <1>7 DEF Restart, MarkerAtStep
<1>8. ASSUME NEW p \in Process, NEW c \in Chat,
             Acquire(p) \/ AcceptStep(p) \/ Offer(p, c)
      PROVE  UNCHANGED wpc
  BY <1>8 DEF Acquire, Offer, AcceptStep, AcceptBegins, AcceptRefused, AcceptAsksIndex,
              AcceptReads, AcceptFails, AcceptRetries, AcceptSettles
<1>9. ASSUME NEW p \in Process, Acquire(p) \/ AcceptStep(p) PROVE UNCHANGED wpc
  BY <1>9 DEF Acquire, AcceptStep, AcceptBegins, AcceptRefused, AcceptAsksIndex,
              AcceptReads, AcceptFails, AcceptRetries, AcceptSettles
<1>10. CASE AppExpires \/ (\E c \in Chat : LeaseExpires(c)) \/ UNCHANGED vars
  <2>1. UNCHANGED wpc
    BY <1>10 DEF AppExpires, LeaseExpires, vars
  <2> QED
    BY <1>2, <1>4, <2>1
<1> QED
  BY <1>2, <1>4, <1>6, <1>7, <1>8, <1>9, <1>10 DEF Next

\* Only commit adds to the completed events, and only with a marker on disk.
LEMMA DoneGrows ==
  ASSUME TypeOK, MarkerAtStep, [Next]_vars
  PROVE  /\ done \subseteq done'
         /\ \A c \in done' \ done : c \in Chat /\ marker[c] = "durable"
         /\ \A c \in queued \ queued' : c \in Chat /\ marker[c] = "durable"
<1>1. CASE UNCHANGED <<done, queued>>
  BY <1>1
<1>2. ASSUME NEW p \in Process, NEW c \in Chat, Commit(p, c)
      PROVE  /\ marker[c] = "durable" /\ done \subseteq done' /\ done' \subseteq done \cup {c}
             /\ queued \ {c} \subseteq queued'
  BY <1>2 DEF Commit, MarkerAtStep, Proved
<1>3. ASSUME NEW p \in Process, NEW c \in Chat, WorkerStep(p, c) \/ Claim(p, c), ~Commit(p, c)
      PROVE  UNCHANGED <<done, queued>>
  BY <1>3 DEF WorkerStep, Claim, WorkerAsksIndex, WorkerLooks, Turn, Reserve, Append,
              SyncMarker, Publish, CompleteBegins, CompleteReads, Pause, GateLost, redis
<1>4. ASSUME NEW p \in Process, AcceptStep(p)
      PROVE  UNCHANGED done /\ queued \subseteq queued'
  BY <1>4 DEF AcceptStep, AcceptBegins, AcceptRefused, AcceptAsksIndex, AcceptReads,
              AcceptFails, AcceptRetries, AcceptSettles, Decide, redis
<1>5. ASSUME NEW p \in Process, NEW c \in Chat, Offer(p, c) PROVE UNCHANGED <<done, queued>>
  BY <1>5 DEF Offer, redis
<1>6. ASSUME NEW p \in Process, Acquire(p) \/ Restart(p) PROVE UNCHANGED <<done, queued>>
  BY <1>6 DEF Acquire, Restart, Fresh
<1>7. CASE AppExpires \/ (\E c \in Chat : LeaseExpires(c)) \/ HostCrash \/ UNCHANGED vars
  BY <1>7 DEF AppExpires, LeaseExpires, HostCrash, Fresh, vars, redis
<1>8. ASSUME NEW p \in Process, NEW c \in Chat, Commit(p, c)
      PROVE  /\ done \subseteq done'
             /\ \A d \in done' \ done : d \in Chat /\ marker[d] = "durable"
             /\ \A d \in queued \ queued' : d \in Chat /\ marker[d] = "durable"
  BY <1>2, <1>8
<1> QED
  BY <1>1, <1>3, <1>4, <1>5, <1>6, <1>7, <1>8 DEF Next

\* Every step keeps the closed chats behind a durable marker.
LEMMA DoneIsDurableKept ==
  ASSUME TypeOK, MarkerAtStep, DoneIsDurable, [Next]_vars
  PROVE  DoneIsDurable'
<1>1. done \subseteq Chat
  BY DEF TypeOK
<1> QED
  BY <1>1, DoneGrows, MarkersStay DEF DoneIsDurable

\* What one accept knows after its own step.
LEMMA LookupOf ==
  ASSUME TypeOK, Asked, DoneIsDurable, LookupsHold, NEW p \in Process, AcceptStep(p)
  PROVE  /\ found'[p] => apc'[p] \in {"lookup", "reading"} /\ marker'[about'[p]] = "durable"
         /\ snap'[p] \subseteq done'
         /\ apc'[p] \in {"lookup", "reading"} /\ about'[p] \in snap'[p] \ todo'[p] => found'[p]
<1>0. /\ marker \in [Chat -> {"none", "written", "durable"}]
      /\ apc \in [Process -> {"idle", "wait", "lookup", "reading"}]
      /\ about \in [Process -> Chat \cup {None}] /\ found \in [Process -> BOOLEAN]
      /\ snap \in [Process -> SUBSET Chat] /\ todo \in [Process -> SUBSET Chat]
      /\ found[p] => apc[p] \in {"lookup", "reading"} /\ marker[about[p]] = "durable"
      /\ snap[p] \subseteq done
      /\ apc[p] \in {"lookup", "reading"} /\ about[p] \in snap[p] \ todo[p] => found[p]
      /\ apc[p] # "idle" => about[p] \in Chat
  BY DEF TypeOK, LookupsHold, Asked
<1>1. CASE Answer(p)
  <2>1. /\ apc'[p] = "idle" /\ snap'[p] = {} /\ ~found'[p]
    BY <1>0, <1>1 DEF Answer
  <2> QED
    BY <2>1
<1>2. CASE AcceptBegins(p) \/ AcceptRetries(p)
  <2>1. apc[p] # "idle" /\ about[p] \in Chat /\ Snapshot(p) /\ UNCHANGED <<done, about>>
    BY <1>0, <1>2 DEF AcceptBegins, AcceptRetries, redis
  <2>2. snap'[p] = done /\ todo'[p] = Chat /\ ~found'[p] /\ about'[p] \in Chat
    BY <1>0, <2>1 DEF Snapshot
  <2> QED
    BY <2>1, <2>2
<1>3. CASE AcceptAsksIndex(p)
  <2>1. /\ apc[p] = "lookup" /\ apc'[p] = "reading"
        /\ UNCHANGED <<done, marker, about, snap, todo, found>>
    BY <1>0, <1>3 DEF AcceptAsksIndex, redis
  <2> QED
    BY <1>0, <2>1
<1>4. CASE AcceptReads(p)
  <2>1. PICK c \in todo[p] :
          /\ todo' = [todo EXCEPT ![p] = @ \ {c}]
          /\ found' = [found EXCEPT ![p] = @ \/ (c = about[p] /\ marker[c] # "none")]
    BY <1>4 DEF AcceptReads
  <2>2. /\ apc[p] = "reading" /\ apc'[p] = "lookup" /\ marker' = Fsynced(Chat)
        /\ UNCHANGED <<done, about, snap>> /\ about[p] \in Chat
    BY <1>0, <1>4 DEF AcceptReads, redis
  <2>3. /\ todo'[p] = todo[p] \ {c}
        /\ found'[p] <=> found[p] \/ (c = about[p] /\ marker[c] # "none")
    BY <1>0, <2>1
  <2>4. marker[about[p]] # "none" => marker'[about[p]] = "durable"
    BY <1>0, <2>2 DEF Fsynced
  <2>5. about[p] \in done => marker[about[p]] = "durable"
    BY DEF DoneIsDurable
  <2> QED
    BY <1>0, <2>2, <2>3, <2>4, <2>5
<1> QED
  BY <1>1, <1>2, <1>3, <1>4 DEF AcceptStep, AcceptRefused, AcceptFails, AcceptSettles

\* What accept knows survives every step of the others.
LEMMA LookupsHoldKept ==
  ASSUME TypeOK, Asked, MarkerAtStep, DoneIsDurable, LookupsHold, [Next]_vars
  PROVE  LookupsHold'
<1> DEFINE Knows(p) ==
      /\ found[p] => apc[p] \in {"lookup", "reading"} /\ marker[about[p]] = "durable"
      /\ snap[p] \subseteq done
      /\ apc[p] \in {"lookup", "reading"} /\ about[p] \in snap[p] \ todo[p] => found[p]
           Same(p) == /\ apc'[p] = apc[p] /\ about'[p] = about[p] /\ snap'[p] = snap[p]
                      /\ todo'[p] = todo[p] /\ found'[p] = found[p]
<1>0. /\ \A p \in Process : Knows(p)
      /\ \A p \in Process : apc[p] # "idle" => about[p] \in Chat
  BY DEF LookupsHold, Asked
<1>1. ASSUME NEW p \in Process, Same(p) PROVE Knows(p)'
  BY <1>0, <1>1, MarkersStay, DoneGrows
<1>2. ASSUME NEW p \in Process, AcceptStep(p) PROVE \A q \in Process : Knows(q)'
  <2>1. Knows(p)'
    BY <1>2, LookupOf
  <2>2. ASSUME NEW q \in Process, q # p PROVE Same(q)
    <3>1. CASE AcceptBegins(p) \/ AcceptRetries(p) \/ AcceptAsksIndex(p)
      BY <2>2, <3>1 DEF AcceptBegins, AcceptRetries, AcceptAsksIndex, Snapshot, TypeOK
    <3>2. CASE AcceptReads(p)
      BY <2>2, <3>2 DEF AcceptReads
    <3>3. CASE Answer(p)
      BY <2>2, <3>3 DEF Answer
    <3> QED
      BY <1>2, <3>1, <3>2, <3>3 DEF AcceptStep, AcceptRefused, AcceptFails, AcceptSettles
  <2> QED
    BY <1>1, <2>1, <2>2
<1>3. ASSUME NEW p \in Process, NEW c \in Chat, Offer(p, c)
      PROVE  \A q \in Process : Knows(q)'
  <2>1. ASSUME NEW q \in Process, q # p PROVE Same(q)
    BY <1>3, <2>1 DEF Offer
  <2>2. /\ apc[p] = "idle" /\ apc'[p] = "wait"
        /\ UNCHANGED <<done, snap, found>>
    BY <1>3 DEF Offer, redis, TypeOK
  <2> QED
    BY <1>0, <1>1, <2>1, <2>2
<1>4. ASSUME NEW P \in SUBSET Process, Fresh(P)
      PROVE  \A q \in Process : Knows(q)'
  <2>1. ASSUME NEW q \in Process, q \notin P PROVE Same(q)
    BY <1>4, <2>1 DEF Fresh, TypeOK
  <2>2. ASSUME NEW q \in Process, q \in P PROVE Knows(q)'
    <3>1. apc'[q] = "idle" /\ snap'[q] = {} /\ ~found'[q]
      BY <1>4, <2>2 DEF Fresh
    <3> QED
      BY <3>1
  <2> QED
    BY <1>1, <2>1, <2>2
<1>5. ASSUME UNCHANGED acceptVars PROVE \A q \in Process : Knows(q)'
  <2>1. \A q \in Process : Same(q)
    BY <1>5 DEF acceptVars
  <2> QED
    BY <1>1, <2>1
<1>6. ASSUME NEW p \in Process, NEW c \in Chat, WorkerStep(p, c) \/ Claim(p, c)
      PROVE  UNCHANGED acceptVars
  BY <1>6, WorkersLeaveAccept
<1>7. ASSUME NEW p \in Process, Acquire(p) PROVE UNCHANGED acceptVars
  BY <1>7 DEF Acquire
<1>8. AppExpires \/ (\E c \in Chat : LeaseExpires(c)) \/ UNCHANGED vars
        => UNCHANGED acceptVars
  BY DEF AppExpires, LeaseExpires, vars
<1>9. ASSUME NEW p \in Process, Restart(p) PROVE \A q \in Process : Knows(q)'
  BY <1>4, <1>9 DEF Restart
<1>10. HostCrash => \A q \in Process : Knows(q)'
  BY <1>4 DEF HostCrash
<1>11. \A q \in Process : Knows(q)'
  <2> HIDE DEF Knows
  <2> QED
    BY <1>2, <1>3, <1>5, <1>6, <1>7, <1>8, <1>9, <1>10 DEF Next
<1> QED
  BY <1>11 DEF LookupsHold

\* For any number of processes and chats the evidence is where it is relied on.
LEMMA EvidenceHolds == Spec => []Evidence
<1>1. Init => Evidence
  BY DEF Init, Evidence, MarkerAtStep, DoneIsDurable, LookupsHold, Proved
<1>2. TypeOK /\ Asked /\ Evidence /\ [Next]_vars => Evidence'
  BY MarkerAtStepKept, DoneIsDurableKept, LookupsHoldKept DEF Evidence
<1> QED
  BY <1>1, <1>2, TypeCorrect, PTL DEF Spec

-----------------------------------------------------------------------------
(* What the bridge was told *)

\* The answer: what accept settles is queued already, found, or queued now; and a
\* completed event was found, so it is never taken for a forgery.
LEMMA Answers ==
  ASSUME TypeOK, Asked, Evidence, NEW p \in Process, AcceptSettles(p)
  PROVE  /\ acked' = acked \cup {about[p]} /\ refused' = refused
         /\ about[p] \in queued' \/ marker[about[p]] = "durable"
<1>1. /\ apc[p] = "lookup" /\ todo[p] = {} /\ snap[p] = done /\ Decide(p)
  BY DEF AcceptSettles
<1>2. about[p] \in Chat
  BY <1>1 DEF Asked
<1>3. about[p] \in done => found[p]
  BY <1>1 DEF Evidence, LookupsHold
<1>4. found[p] => marker[about[p]] = "durable"
  BY <1>1 DEF Evidence, LookupsHold
<1> QED
  BY <1>1, <1>2, <1>3, <1>4 DEF Decide

\* Nothing but an answer adds to what the bridge was told.
LEMMA HistoryStep ==
  ASSUME [Next]_vars
  PROVE  (\E p \in Process : AcceptSettles(p)) \/ UNCHANGED history
<1>1. ASSUME NEW p \in Process, AcceptStep(p), ~AcceptSettles(p) PROVE UNCHANGED history
  BY <1>1 DEF AcceptStep, AcceptBegins, AcceptRefused, AcceptAsksIndex, AcceptReads,
              AcceptFails, AcceptRetries
<1>2. ASSUME NEW p \in Process, NEW c \in Chat, WorkerStep(p, c) \/ Claim(p, c)
      PROVE  UNCHANGED history
  BY <1>2, WorkersLeaveAccept
<1>3. ASSUME NEW p \in Process, NEW c \in Chat, Offer(p, c) PROVE UNCHANGED history
  BY <1>3 DEF Offer
<1>4. ASSUME NEW p \in Process, Acquire(p) \/ Restart(p) PROVE UNCHANGED history
  BY <1>4 DEF Acquire, Restart, Fresh
<1>5. CASE AppExpires \/ (\E c \in Chat : LeaseExpires(c)) \/ HostCrash \/ UNCHANGED vars
  BY <1>5 DEF AppExpires, LeaseExpires, HostCrash, Fresh, vars
<1> QED
  BY <1>1, <1>2, <1>3, <1>4, <1>5 DEF Next

\* What the bridge was told is safe stays safe, for any number of processes,
\* chats, redeliveries and machine failures.
THEOREM AckedKept == Spec => []AckedIsKept
<1>1. Init => AckedIsKept
  BY DEF Init, AckedIsKept
<1>2. TypeOK /\ Asked /\ Evidence /\ AckedIsKept /\ [Next]_vars => AckedIsKept'
  <2> SUFFICES ASSUME TypeOK, Asked, Evidence, AckedIsKept, [Next]_vars
               PROVE  AckedIsKept'
    OBVIOUS
  <2>0. MarkerAtStep /\ acked \subseteq Chat
    BY DEF Evidence, TypeOK
  <2>1. \A c \in acked : c \in queued' \/ marker'[c] = "durable"
    BY <2>0, DoneGrows, MarkersStay DEF AckedIsKept
  <2>2. ASSUME NEW p \in Process, AcceptSettles(p) PROVE AckedIsKept'
    <3>1. UNCHANGED marker
      BY <2>2 DEF AcceptSettles
    <3> QED
      BY <2>1, <2>2, <3>1, Answers DEF AckedIsKept
  <2>3. CASE UNCHANGED history
    BY <2>1, <2>3 DEF AckedIsKept, history
  <2> QED
    BY <2>2, <2>3, HistoryStep
<1> QED
  BY <1>1, <1>2, TypeCorrect, EvidenceHolds, PTL DEF Spec

\* A redelivery is never taken for a forgery.
THEOREM NoFalseConflict == Spec => []RedeliveryNeverConflicts
<1>1. Init => RedeliveryNeverConflicts
  BY DEF Init, RedeliveryNeverConflicts
<1>2. TypeOK /\ Asked /\ Evidence /\ RedeliveryNeverConflicts /\ [Next]_vars
        => RedeliveryNeverConflicts'
  BY Answers, HistoryStep DEF RedeliveryNeverConflicts, history
<1> QED
  BY <1>1, <1>2, TypeCorrect, EvidenceHolds, PTL DEF Spec

-----------------------------------------------------------------------------
(* Reservations *)

\* What a step of a worker may do to its own file.
LEMMA ReservationOf ==
  ASSUME TypeOK, ReservationsHaveWorkers, NEW p \in Process, NEW c \in Chat,
         WorkerStep(p, c) \/ Claim(p, c)
  PROVE  /\ \A q \in Process, d \in Chat : q # p \/ d # c =>
              /\ wpc'[q][d] = wpc[q][d]
              /\ d \in pending'[q] <=> d \in pending[q]
              /\ d \in poisoned'[q] <=> d \in poisoned[q]
         /\ c \in pending'[p] =>
              wpc'[p][c] \in {"append", "sync", "publish", "publishing"} /\ c \notin poisoned'[p]
<1>0. /\ wpc \in [Process -> [Chat -> WorkerSteps]]
      /\ pending \in [Process -> SUBSET Chat] /\ poisoned \in [Process -> SUBSET Chat]
      /\ c \in pending[p] => /\ wpc[p][c] \in {"append", "sync", "publish", "publishing"}
                             /\ c \notin poisoned[p]
  BY DEF TypeOK, ReservationsHaveWorkers
<1>a. ASSUME NEW s \in WorkerSteps, WGoto(p, c, s)
      PROVE  /\ wpc'[p][c] = s
             /\ \A q \in Process, d \in Chat : q # p \/ d # c => wpc'[q][d] = wpc[q][d]
  BY <1>0, <1>a, Goes
<1> USE DEF WorkerSteps
<1>1. CASE UNCHANGED indexVars
  <2>1. PICK s \in WorkerSteps : WGoto(p, c, s)
    BY DEF WorkerStep, Claim, WorkerAsksIndex, WorkerLooks, Turn, Reserve, Append,
           SyncMarker, Publish, CompleteBegins, CompleteReads, Commit, Pause, GateLost
  <2>2. c \in pending[p] => s \in {"sync", "publish", "publishing", "append"}
    BY <1>0, <1>1, <1>a, <2>1
       DEF WorkerStep, Claim, WorkerAsksIndex, WorkerLooks, Turn, Reserve, Append,
           SyncMarker, Publish, CompleteBegins, CompleteReads, Commit, Pause, GateLost, Poison, indexVars
  <2> QED
    BY <1>0, <1>1, <1>a, <2>1, <2>2 DEF indexVars
<1>2. CASE Reserve(p, c) /\ ~UNCHANGED indexVars
  <2>1. /\ c \notin poisoned[p] /\ WGoto(p, c, "append") /\ UNCHANGED poisoned
        /\ pending' = [pending EXCEPT ![p] = @ \cup {c}]
    BY <1>2 DEF Reserve, indexVars
  <2> QED
    BY <1>0, <1>a, <2>1
<1>3. CASE Publish(p, c)
  <2>1. /\ WGoto(p, c, "complete") /\ UNCHANGED poisoned
        /\ pending' = [pending EXCEPT ![p] = @ \ {c}]
    BY <1>3 DEF Publish
  <2> QED
    BY <1>0, <1>a, <2>1
<1>4. CASE GateLost(p, c) /\ ~UNCHANGED indexVars
  <2>1. WGoto(p, c, "idle") /\ Poison(p, c)
    BY <1>4 DEF GateLost
  <2> QED
    BY <1>0, <1>a, <2>1 DEF Poison
<1>5. WorkerStep(p, c) /\ ~Reserve(p, c) /\ ~Publish(p, c) /\ ~GateLost(p, c) => UNCHANGED indexVars
  BY DEF WorkerStep, WorkerAsksIndex, WorkerLooks, Turn, Append,
         SyncMarker, CompleteBegins, CompleteReads, Commit, Pause
<1>6. Claim(p, c) => UNCHANGED indexVars
  BY DEF Claim
<1> QED
  BY <1>1, <1>2, <1>3, <1>4, <1>5, <1>6

\* A file is reserved for an append under way in this process, or refused for
\* good, never both, for any number of chats and processes.
THEOREM Reservations == Spec => []ReservationsHaveWorkers
<1>1. Init => ReservationsHaveWorkers
  BY DEF Init, ReservationsHaveWorkers
<1>2. TypeOK /\ TypeOK' /\ ReservationsHaveWorkers /\ [Next]_vars => ReservationsHaveWorkers'
  <2> SUFFICES ASSUME TypeOK, TypeOK', ReservationsHaveWorkers, [Next]_vars
               PROVE  ReservationsHaveWorkers'
    OBVIOUS
  <2>0. /\ pending \in [Process -> SUBSET Chat] /\ pending' \in [Process -> SUBSET Chat]
        /\ wpc \in [Process -> [Chat -> WorkerSteps]]
    BY DEF TypeOK
  <2>1. ASSUME NEW p \in Process, NEW c \in Chat, WorkerStep(p, c) \/ Claim(p, c)
        PROVE  ReservationsHaveWorkers'
    <3>1. ASSUME NEW q \in Process, NEW d \in pending'[q]
          PROVE  wpc'[q][d] \in {"append", "sync", "publish", "publishing"} /\ d \notin poisoned'[q]
      BY <2>0, <2>1, <3>1, ReservationOf DEF ReservationsHaveWorkers
    <3> QED
      BY <3>1 DEF ReservationsHaveWorkers
  <2>2. ASSUME UNCHANGED <<indexVars, wpc>> PROVE ReservationsHaveWorkers'
    BY <2>2 DEF ReservationsHaveWorkers, indexVars
  <2>3. ASSUME NEW P \in SUBSET Process, Fresh(P) PROVE ReservationsHaveWorkers'
    BY <2>0, <2>3 DEF Fresh, ReservationsHaveWorkers
  <2>4. ASSUME NEW p \in Process, AcceptStep(p) \/ Acquire(p) PROVE UNCHANGED <<indexVars, wpc>>
    BY <2>4 DEF Acquire, AcceptStep, AcceptBegins, AcceptRefused, AcceptAsksIndex, AcceptReads,
                AcceptFails, AcceptRetries, AcceptSettles
  <2>5. ASSUME NEW p \in Process, NEW c \in Chat, Offer(p, c) PROVE UNCHANGED <<indexVars, wpc>>
    BY <2>5 DEF Offer
  <2>6. AppExpires \/ (\E c \in Chat : LeaseExpires(c)) \/ UNCHANGED vars
          => UNCHANGED <<indexVars, wpc>>
    BY DEF AppExpires, LeaseExpires, vars
  <2>7. ASSUME NEW p \in Process, Restart(p) PROVE ReservationsHaveWorkers'
    BY <2>3, <2>7 DEF Restart
  <2>8. HostCrash => ReservationsHaveWorkers'
    BY <2>3 DEF HostCrash
  <2> QED
    BY <2>1, <2>2, <2>4, <2>5, <2>6, <2>7, <2>8 DEF Next
<1> QED
  BY <1>1, <1>2, TypeCorrect, PTL DEF Spec

=============================================================================
