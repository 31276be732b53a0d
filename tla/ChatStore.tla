------------------------------ MODULE ChatStore ------------------------------
(***************************************************************************)
(* The Redis state of one canonical chat and the operations of the Lua     *)
(* script that own it (session-controller/src/redis/scripts.ts).  The      *)
(* script runs atomically, so every branch of it is one action here.       *)
(*                                                                         *)
(* Events are named by their chat sequence: the bridge allocates one event *)
(* per sequence.  A send is <<e, n>>, the n-th mutation a turn for event e *)
(* may attempt.  Epochs stand for owner and epoch together: the script     *)
(* bumps the epoch whenever it installs a fresh random owner.  A lease     *)
(* deadline is reduced to whether it has passed; renewing an unexpired     *)
(* lease is then a check of it and changes nothing.                        *)
(***************************************************************************)
EXTENDS Integers, FiniteSets

CONSTANTS MaxSeq,    \* events of the chat carry sequences 1 .. MaxSeq
          MaxSends   \* sends one turn may attempt

ASSUME StoreAssumption == MaxSeq \in Nat \ {0} /\ MaxSends \in Nat

Event == 1..MaxSeq
Send == Event \X (1..MaxSends)
SendsOf(e) == {a \in Send : a[1] = e}

Pauses == {"sequence_gap", "mutation_uncertain", "session_failed", "usage_unknown",
           "preparation_failed", "compaction_failed", "restore_failed"}

VARIABLES
  appEpoch, appLive,                             \* hash app
  leaseEpoch, leaseApp, leaseEvent, leaseLive,   \* hash lease
  cursor, pause, gap, turnEvent, session,        \* hash state
  admitted,                                      \* hashes events, seqs; stream
  tools                                          \* hash tools: the journal

leaseVars == <<leaseEpoch, leaseApp, leaseEvent, leaseLive>>
stateVars == <<cursor, pause, gap, turnEvent, session>>
storeVars == <<appEpoch, appLive, leaseVars, stateVars, admitted, tools>>

StoreTypeOK ==
  /\ appEpoch \in Nat /\ appLive \in BOOLEAN
  /\ leaseEpoch \in Nat /\ leaseApp \in Nat
  /\ leaseEvent \in Event \cup {0} /\ leaseLive \in BOOLEAN
  /\ cursor \in Event \cup {0}
  /\ pause \in Pauses \cup {"none"}
  /\ gap \in {"none", "open", "elapsed"}
  /\ turnEvent \in Event \cup {0}
  /\ session \in Nat
  /\ admitted \in SUBSET Event
  /\ tools \in [Send -> {"none", "attempting", "confirmed", "uncertain"}]

StoreInit ==
  /\ appEpoch = 0 /\ appLive = FALSE
  /\ leaseEpoch = 0 /\ leaseApp = 0 /\ leaseEvent = 0 /\ leaseLive = FALSE
  /\ cursor = 0 /\ pause = "none" /\ gap = "none" /\ turnEvent = 0 /\ session = 0
  /\ admitted = {}
  /\ tools = [a \in Send |-> "none"]

-----------------------------------------------------------------------------
(* Fences *)

\* The application lease of epoch ap is held and unexpired.
AppAlive(ap) == appLive /\ appEpoch = ap

\* Both leases are held by their claimants and name the admitted event e.
Work(ap, ce, e) ==
  /\ AppAlive(ap)
  /\ leaseLive /\ leaseEpoch = ce /\ leaseApp = ap
  /\ leaseEvent = e /\ e \in admitted

Recorded == {a \in Send : tools[a] # "none"}
Unresolved == {a \in Send : tools[a] \in {"attempting", "uncertain"}}

-----------------------------------------------------------------------------
(* Operations *)

\* accept, for an event whose identity was looked up under the same revision.
Accept(e) ==
  /\ e \notin admitted /\ cursor < e
  /\ admitted' = admitted \cup {e}
  /\ UNCHANGED <<appEpoch, appLive, leaseVars, stateVars, tools>>

\* Mutant: an owner whose lease expired still counts as one.
AppAcquireOwned ==
  /\ ~appLive /\ appEpoch = 0
  /\ appEpoch' = appEpoch + 1 /\ appLive' = TRUE
  /\ UNCHANGED <<leaseVars, stateVars, admitted, tools>>

\* app-acquire: only after the previous lease was released or ran out.
AppAcquire ==
  /\ ~appLive
  /\ appEpoch' = appEpoch + 1 /\ appLive' = TRUE
  /\ UNCHANGED <<leaseVars, stateVars, admitted, tools>>

AppRelease(ap) ==
  /\ AppAlive(ap)
  /\ appLive' = FALSE
  /\ UNCHANGED <<appEpoch, leaseVars, stateVars, admitted, tools>>

\* Mutant: the pause is not looked at.
MayClaimPaused(ap) == AppAlive(ap) /\ ~(leaseApp = ap /\ leaseLive)

\* claim gets past its first three early returns: lost, paused, waiting.
MayClaim(ap) ==
  /\ AppAlive(ap)
  /\ pause = "none"
  /\ ~(leaseApp = ap /\ leaseLive)

\* claim finds a send whose outcome nobody can know any more.
ClaimUnresolved(ap) ==
  /\ MayClaim(ap)
  /\ Unresolved # {}
  /\ tools' = [a \in Send |-> IF a \in Unresolved THEN "uncertain" ELSE tools[a]]
  /\ pause' = "mutation_uncertain"
  /\ UNCHANGED <<appEpoch, appLive, leaseVars, cursor, gap, turnEvent, session, admitted>>

\* Mutant: the clock of the gap is never started.
ClaimGapUntimed(ap) ==
  /\ MayClaim(ap)
  /\ Unresolved = {} /\ cursor + 1 \notin admitted
  /\ UNCHANGED storeVars

\* claim finds no event with the next sequence.
ClaimGap(ap) ==
  /\ MayClaim(ap)
  /\ Unresolved = {}
  /\ cursor + 1 \notin admitted
  /\ gap' = IF admitted = {} THEN "none"
            ELSE IF gap = "none" THEN "open" ELSE gap
  /\ pause' = IF admitted # {} /\ gap = "elapsed" THEN "sequence_gap" ELSE pause
  /\ UNCHANGED <<appEpoch, appLive, leaseVars, cursor, turnEvent, session, admitted, tools>>

\* claim grants exactly the next event under a new chat epoch.
ClaimGrant(ap) ==
  /\ MayClaim(ap)
  /\ Unresolved = {}
  /\ cursor + 1 \in admitted
  /\ leaseEpoch' = leaseEpoch + 1 /\ leaseApp' = ap
  /\ leaseEvent' = cursor + 1 /\ leaseLive' = TRUE
  /\ gap' = "none"
  /\ UNCHANGED <<appEpoch, appLive, cursor, pause, turnEvent, session, admitted, tools>>

\* pause: the worker's fenced, chat-local stop.
SetPause(ap, ce, e, why) ==
  /\ Work(ap, ce, e)
  /\ pause' = why
  /\ UNCHANGED <<appEpoch, appLive, leaseVars, cursor, gap, turnEvent, session, admitted, tools>>

\* bind: the chat's session file, once and for all.
Bind(ap, ce, e, s) ==
  /\ Work(ap, ce, e)
  /\ session \in {0, s}
  /\ session' = s
  /\ UNCHANGED <<appEpoch, appLive, leaseVars, cursor, pause, gap, turnEvent, admitted, tools>>

\* Mutant: begin-turn answers ok without leaving its mark.
BeginTurnMarkForgets(ap, ce, e) ==
  /\ Work(ap, ce, e) /\ turnEvent = 0
  /\ UNCHANGED storeVars

\* begin-turn: the one-way mark that this event's turn may have been started.
BeginTurnMark(ap, ce, e) ==
  /\ Work(ap, ce, e)
  /\ turnEvent = 0
  /\ turnEvent' = e
  /\ UNCHANGED <<appEpoch, appLive, leaseVars, cursor, pause, gap, session, admitted, tools>>

\* Mutant: the attempt is not stored.
JournalBeginForgets(ap, ce, e, s, a) ==
  /\ Work(ap, ce, e) /\ turnEvent = e /\ session = s /\ tools[a] = "none"
  /\ UNCHANGED storeVars

\* native-journal-begin: the attempt is durable before the send may leave.
JournalBegin(ap, ce, e, s, a) ==
  /\ Work(ap, ce, e)
  /\ turnEvent = e /\ session = s
  /\ tools[a] = "none"
  /\ tools' = [tools EXCEPT ![a] = "attempting"]
  /\ UNCHANGED <<appEpoch, appLive, leaseVars, stateVars, admitted>>

\* journal-transition to confirmed.
JournalConfirm(ap, ce, e, a) ==
  /\ Work(ap, ce, e)
  /\ tools[a] = "attempting" /\ a[1] = e
  /\ tools' = [tools EXCEPT ![a] = "confirmed"]
  /\ UNCHANGED <<appEpoch, appLive, leaseVars, stateVars, admitted>>

\* journal-transition to uncertain, which pauses the chat in the same step.
JournalUncertain(ap, ce, e, a) ==
  /\ Work(ap, ce, e)
  /\ tools[a] = "attempting" /\ a[1] = e
  /\ tools' = [tools EXCEPT ![a] = "uncertain"]
  /\ pause' = "mutation_uncertain"
  /\ UNCHANGED <<appEpoch, appLive, leaseVars, cursor, gap, turnEvent, session, admitted>>

\* The checks complete makes on the session and on every journal record.
MayComplete(e, s, sends) ==
  /\ e = cursor + 1
  /\ session = s
  /\ \A a \in Recorded : tools[a] = "confirmed" /\ a[1] = e /\ a \in sends

\* Mutant: the cursor moves to the sequence after the completed one.
CompleteEventSkips(ap, ce, e, s, sends) ==
  /\ Work(ap, ce, e)
  /\ MayComplete(e, s, sends)
  /\ cursor' = e + 1
  /\ admitted' = admitted \ {e}
  /\ tools' = [a \in Send |-> "none"]
  /\ leaseEvent' = 0 /\ leaseLive' = FALSE /\ turnEvent' = 0
  /\ UNCHANGED <<appEpoch, appLive, leaseEpoch, leaseApp, pause, gap, session>>

\* complete: the cursor, the queue entry, the journal and the lease in one step.
CompleteEvent(ap, ce, e, s, sends) ==
  /\ Work(ap, ce, e)
  /\ MayComplete(e, s, sends)
  /\ cursor' = e
  /\ admitted' = admitted \ {e}
  /\ tools' = [a \in Send |-> "none"]
  /\ leaseEvent' = 0 /\ leaseLive' = FALSE
  /\ turnEvent' = 0
  /\ UNCHANGED <<appEpoch, appLive, leaseEpoch, leaseApp, pause, gap, session>>

-----------------------------------------------------------------------------
(* Time, as the script reads it *)

AppExpires ==
  /\ appLive
  /\ appLive' = FALSE
  /\ UNCHANGED <<appEpoch, leaseVars, stateVars, admitted, tools>>

LeaseExpires ==
  /\ leaseLive
  /\ leaseLive' = FALSE
  /\ UNCHANGED <<appEpoch, appLive, leaseEpoch, leaseApp, leaseEvent, stateVars, admitted, tools>>

GapElapses ==
  /\ gap = "open"
  /\ gap' = "elapsed"
  /\ UNCHANGED <<appEpoch, appLive, leaseVars, cursor, pause, turnEvent, session, admitted, tools>>
=============================================================================
