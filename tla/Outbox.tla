------------------------------- MODULE Outbox -------------------------------
(***************************************************************************)
(* The bridge's notification outbox for one canonical chat: messages and   *)
(* the echoes of the bridge's own sends are saved (store/messages.go),     *)
(* an eligible one leaves a notification in the same transaction, and      *)
(* dispatchers claim, post and finish it under a lease                     *)
(* (store/notifications.go, notify/worker.go).                             *)
(*                                                                         *)
(* An identity is an exact pair of message id and chat.  A send of the     *)
(* bridge is the set of identities its echo may come back under.  A store  *)
(* transaction is one action: one writer runs them in turn.  An event is   *)
(* named by the sequence it was given, and the random token of a lease by  *)
(* the attempt it was drawn for, which every claim raises.  Clocks are     *)
(* reduced to what has passed: a lease, a backoff, the event's age.        *)
(***************************************************************************)
EXTENDS Integers, FiniteSets

CONSTANTS Ident,        \* message identities that may be saved
          Sends,        \* sets of identities: the sends of the bridge
          Worker,       \* dispatchers; two when bridge processes overlap
          Policies,     \* configurations the operator may start the bridge with
          MaxAttempts,  \* BRIDGE_NOTIFY_MAX_ATTEMPTS
          MaxSeq,       \* bound on events of the chat
          MaxFaults     \* bound on crashes, stalls and lost answers of the store

ASSUME OutboxAssumption ==
  /\ Ident # {} /\ Sends \subseteq SUBSET Ident
  /\ \A s, t \in Sends : s # t => s \cap t = {}
  /\ Policies \subseteq {"enabled", "removed", "disabled"} /\ "enabled" \in Policies
  /\ MaxAttempts \in Nat \ {0} /\ MaxSeq \in Nat \ {0} /\ MaxFaults \in Nat

Seq1 == 1..MaxSeq
Terminal == {"accepted", "ignored", "dead"}

\* A row of notification_outbox; state "none" is no row.
Notification == [state : {"none", "pending", "leased"} \cup Terminal,
                 seq : Seq1 \cup {0}, attempts : 0..MaxAttempts,
                 live : BOOLEAN,     \* the lease has not run out
                 due : BOOLEAN]      \* next_attempt_at has come

NoRow == [state |-> "none", seq |-> 0, attempts |-> 0, live |-> FALSE, due |-> FALSE]
NewRow(n) == [state |-> "pending", seq |-> n, attempts |-> 0, live |-> FALSE, due |-> TRUE]

VARIABLES
  row,       \* row[i]: messages row: "none", "saved", or "origin" once is_bridge_origin
  marker,    \* marker[i]: bridge_outbound_origins row
  phase,     \* phase[s]: how far SendBridgeMessage came with send s
  box,       \* box[i]: notification_outbox row of identity i
  lastSeq,   \* notification_chat_sequences
  aged,      \* events whose expires_at has come
  policy,    \* the chat's place in the configuration the bridge was started with
  wpc, job, outcome, \* step of a dispatcher, the notification it claimed, its result
  cool,      \* cool[w]: the receiver told the dispatcher to wait
  inbox,     \* events posted and not yet handled by the receiver
  held,      \* events the receiver accepted
  posts,     \* history: posts[n]: times event n was posted
  notified,  \* history: notified[i]: events created for identity i
  seen,      \* history: identities saved from a live event of an admitted chat
  faults

eventVars == <<row, marker, phase, lastSeq, aged, notified, seen>>
workerVars == <<wpc, job, outcome, cool>>
receiverVars == <<inbox, held, posts>>
vars == <<eventVars, box, policy, workerVars, receiverVars, faults>>

Outcomes == {"none", "pending"} \cup Terminal
NoJob == [id |-> CHOOSE i \in Ident : TRUE, seq |-> 0, attempts |-> 0]

TypeOK ==
  /\ row \in [Ident -> {"none", "saved", "origin"}]
  /\ marker \in [Ident -> {"none", "registered", "observed"}]
  /\ phase \in [Sends -> {"new", "registered", "sent"}]
  /\ box \in [Ident -> Notification]
  /\ lastSeq \in 0..MaxSeq
  /\ policy \in Policies
  /\ wpc \in [Worker -> {"idle", "claimed", "posting", "finish"}]
  /\ job \in [Worker -> [id : Ident, seq : Seq1 \cup {0}, attempts : 0..MaxAttempts]]
  /\ outcome \in [Worker -> Outcomes]
  /\ cool \in [Worker -> BOOLEAN]
  /\ aged \subseteq Seq1 /\ seen \subseteq Ident
  /\ inbox \subseteq Seq1 /\ held \subseteq Seq1
  /\ posts \in [Seq1 -> Nat]
  /\ notified \in [Ident -> Nat]
  /\ faults \in 0..MaxFaults

Init ==
  /\ row = [i \in Ident |-> "none"]
  /\ marker = [i \in Ident |-> "none"]
  /\ phase = [s \in Sends |-> "new"]
  /\ box = [i \in Ident |-> NoRow]
  /\ lastSeq = 0
  /\ policy \in Policies
  /\ wpc = [w \in Worker |-> "idle"]
  /\ job = [w \in Worker |-> NoJob]
  /\ outcome = [w \in Worker |-> "none"]
  /\ cool = [w \in Worker |-> FALSE]
  /\ aged = {} /\ seen = {}
  /\ inbox = {} /\ held = {}
  /\ posts = [n \in Seq1 |-> 0]
  /\ notified = [i \in Ident |-> 0]
  /\ faults = 0

Own == UNION Sends
Fault == faults < MaxFaults /\ faults' = faults + 1

-----------------------------------------------------------------------------
(* Sends of the bridge *)

\* RegisterOutboundOrigins: every identity the echo may have, in one transaction.
RegisterOutboundOrigins(s) ==
  /\ phase[s] = "new" /\ \A i \in s : marker[i] = "none"
  /\ phase' = [phase EXCEPT ![s] = "registered"]
  /\ marker' = [i \in Ident |-> IF i \in s THEN "registered" ELSE marker[i]]
  /\ UNCHANGED <<row, box, aged, lastSeq, notified, seen, policy, workerVars, receiverVars, faults>>

\* Mutant: the message leaves before its identities are registered.
SendMessageFirst(s) ==
  /\ phase[s] \in {"new", "registered"}
  /\ phase' = [phase EXCEPT ![s] = "sent"]
  /\ UNCHANGED <<row, marker, box, aged, lastSeq, notified, seen, policy, workerVars, receiverVars, faults>>

\* The send itself; whatever it answers, the message may have left.
SendMessage(s) ==
  /\ phase[s] = "registered"
  /\ phase' = [phase EXCEPT ![s] = "sent"]
  /\ UNCHANGED <<row, marker, box, aged, lastSeq, notified, seen, policy, workerVars, receiverVars, faults>>

-----------------------------------------------------------------------------
(* SaveMessage *)

\* WhatsApp may show identity i to the bridge.
Shown(i) == \A s \in Sends : i \in s => phase[s] = "sent"

\* consumeOutboundOrigin and the classification it makes durable on the row.
Classified(i) ==
  IF row[i] = "origin" \/ (i \in Own /\ marker[i] # "none") THEN "origin" ELSE "saved"

\* Mutant: a row that exists is taken for one already notified or imported.
NotifiesOnInsert(i, live) == live /\ row[i] = "none" /\ policy = "enabled" /\ Classified(i) = "saved"

\* A live event of an admitted chat that is no echo and has no outbox row.
Notifies(i, live) ==
  /\ live /\ policy = "enabled"
  /\ Classified(i) = "saved"
  /\ box[i].state = "none"

\* The message is inserted or updated, from a live event or a history import.
SaveMessage(i, live) ==
  /\ Shown(i)
  /\ row' = [row EXCEPT ![i] = Classified(i)]
  /\ marker' = [marker EXCEPT ![i] = IF row[i] # "origin" /\ Classified(i) = "origin" THEN "observed" ELSE @]
  /\ IF Notifies(i, live)
     THEN /\ lastSeq < MaxSeq
          /\ lastSeq' = lastSeq + 1
          /\ box' = [box EXCEPT ![i] = NewRow(lastSeq + 1)]
          /\ notified' = [notified EXCEPT ![i] = @ + 1]
     ELSE UNCHANGED <<lastSeq, box, notified>>
  /\ seen' = IF live /\ policy = "enabled" THEN seen \cup {i} ELSE seen
  /\ UNCHANGED <<phase, aged, policy, workerVars, receiverVars, faults>>

-----------------------------------------------------------------------------
(* The dispatcher *)

Goto(w, s) == wpc' = [wpc EXCEPT ![w] = s]

\* Mutant: a row whose attempts are spent may be claimed.
ClaimableSpent(i) ==
  box[i].state = "pending" /\ box[i].due /\ box[i].seq \notin aged

Claimable(i) ==
  /\ box[i].state = "pending" /\ box[i].due /\ box[i].seq \notin aged
  /\ box[i].attempts < MaxAttempts

\* Mutant: the attempt is counted when it is finished, not when it is claimed.
LeasedUncounted(i) == [box[i] EXCEPT !.state = "leased", !.live = TRUE]

Leased(i) == [box[i] EXCEPT !.state = "leased", !.live = TRUE, !.attempts = @ + 1]

\* ClaimNotification, called by a dispatcher that is not told to wait.
ClaimNotification(w) ==
  /\ wpc[w] = "idle" /\ ~cool[w] /\ policy = "enabled"
  /\ \E i \in Ident :
       /\ Claimable(i)
       /\ box' = [box EXCEPT ![i] = Leased(i)]
       /\ \/ /\ job' = [job EXCEPT ![w] = [id |-> i, seq |-> box[i].seq, attempts |-> Leased(i).attempts]]
             /\ Goto(w, "claimed")
             /\ UNCHANGED faults
          \/ Fault /\ UNCHANGED <<job, wpc>>   \* committed, but the answer came too late
  /\ UNCHANGED <<eventVars, policy, outcome, cool, receiverVars>>

\* The event the dispatcher of w holds has reached the end of its life.
JobExpired(w) == job[w].seq \in aged

Finishes(w, o) ==
  /\ Goto(w, "finish")
  /\ outcome' = [outcome EXCEPT ![w] = o]

\* The bookkeeping of a retry: no attempt left, or the delay outlives the event.
Retry(w) ==
  \E o \in {"pending", "dead"} :
    /\ job[w].attempts >= MaxAttempts => o = "dead"
    /\ Finishes(w, o)

DeliverExpired(w) ==
  /\ wpc[w] = "claimed" /\ JobExpired(w)
  /\ Finishes(w, "dead")
  /\ UNCHANGED <<eventVars, box, policy, job, cool, receiverVars, faults>>

\* attempt: the request leaves.
Deliver(w) ==
  /\ wpc[w] = "claimed" /\ ~JobExpired(w)
  /\ inbox' = inbox \cup {job[w].seq}
  /\ posts' = [posts EXCEPT ![job[w].seq] = @ + 1]
  /\ Goto(w, "posting")
  /\ UNCHANGED <<eventVars, box, policy, job, outcome, cool, held, faults>>

\* It cannot be built, its destination is refused, or nobody can be reached.
DeliverFails(w) ==
  /\ wpc[w] = "claimed" /\ ~JobExpired(w)
  /\ Retry(w) \/ Finishes(w, "dead")
  /\ UNCHANGED <<eventVars, box, policy, job, cool, receiverVars, faults>>

\* Mutant: any answer that is not a refusal is taken for an acceptance.
AcceptsAny(w) == job[w].seq \in inbox \cup held

\* 202 accepted or 200 duplicate, naming the event.
Accepts(w) == job[w].seq \in held \ inbox

Accepted(w) ==
  /\ wpc[w] = "posting" /\ Accepts(w)
  /\ Finishes(w, "accepted")
  /\ UNCHANGED <<eventVars, box, policy, job, cool, receiverVars, faults>>

\* The receiver refuses the event for good, or ignores it.
Refused(w) ==
  /\ wpc[w] = "posting" /\ job[w].seq \in inbox
  /\ inbox' = inbox \ {job[w].seq}
  /\ \E o \in {"dead", "ignored"} : Finishes(w, o)
  /\ UNCHANGED <<eventVars, box, policy, job, cool, held, posts, faults>>

\* 429: the event is retried later and the whole route waits.
RateLimited(w) ==
  /\ wpc[w] = "posting" /\ job[w].seq \in inbox
  /\ inbox' = inbox \ {job[w].seq}
  /\ Retry(w)
  /\ cool' = [cool EXCEPT ![w] = TRUE]
  /\ UNCHANGED <<eventVars, box, policy, job, held, posts, faults>>

\* A retryable status, a broken answer, a network error or the timeout: the
\* request may still be on its way.
Unanswered(w) ==
  /\ wpc[w] = "posting"
  /\ Retry(w)
  /\ inbox' \in {inbox, inbox \ {job[w].seq}}
  /\ UNCHANGED <<eventVars, box, policy, job, cool, held, posts, faults>>

\* Mutant: the update names the event only.
HoldsAny(w) == box[job[w].id].seq = job[w].seq

\* FinishNotification's condition: the lease of this very attempt, not run out.
Holds(w) ==
  LET n == box[job[w].id] IN
    n.state = "leased" /\ n.live /\ n.seq = job[w].seq /\ n.attempts = job[w].attempts

Finished(w) == [box[job[w].id] EXCEPT !.state = outcome[w], !.live = FALSE, !.due = FALSE]

\* FinishNotification; the update may also fail, or find the lease lost.
FinishNotification(w) ==
  /\ wpc[w] = "finish"
  /\ \/ /\ Holds(w)
        /\ box' = [box EXCEPT ![job[w].id] = Finished(w)]
     \/ UNCHANGED box
  /\ Goto(w, "idle")
  /\ job' = [job EXCEPT ![w] = NoJob] /\ outcome' = [outcome EXCEPT ![w] = "none"]
  /\ UNCHANGED <<eventVars, policy, cool, receiverVars, faults>>

CoolDownEnds(w) ==
  /\ cool[w]
  /\ cool' = [cool EXCEPT ![w] = FALSE]
  /\ UNCHANGED <<eventVars, box, policy, wpc, job, outcome, receiverVars, faults>>

-----------------------------------------------------------------------------
(* Maintenance *)

Lapsed(n) == n.state = "leased" /\ ~n.live

Retires(n) ==
  \/ n.seq \in aged
  \/ policy = "removed"
  \/ policy = "enabled" /\ n.attempts >= MaxAttempts

\* Mutant: a lapsed lease is left for its holder.
MaintainedHeld(n) ==
  IF n.state = "pending" /\ Retires(n) THEN [n EXCEPT !.state = "dead"] ELSE n

\* A pending row, or one whose lease ran out, that is retired or released.
Maintained(n) ==
  CASE (n.state = "pending" \/ Lapsed(n)) /\ Retires(n) -> [n EXCEPT !.state = "dead"]
    [] Lapsed(n) /\ ~Retires(n)                         -> [n EXCEPT !.state = "pending"]
    [] OTHER                                            -> n

\* An origin marker past its retention; an unobserved one only when no echo of
\* its send can come any more, which is what the ninety days are for.
Prunable(i) == marker[i] = "observed" /\ row[i] = "origin"

\* MaintainNotifications: retire and release, prune what outlived its retention.
MaintainNotifications(w) ==
  /\ wpc[w] = "idle"
  /\ \E old \in SUBSET {i \in Ident : box[i].state \in Terminal} :
       box' = [i \in Ident |-> IF i \in old THEN NoRow ELSE Maintained(box[i])]
  /\ \E gone \in SUBSET {i \in Ident : Prunable(i)} :
       marker' = [i \in Ident |-> IF i \in gone THEN "none" ELSE marker[i]]
  /\ UNCHANGED <<row, phase, aged, lastSeq, notified, seen, policy, workerVars, receiverVars, faults>>

-----------------------------------------------------------------------------
(* Time, the receiver and the faults *)

\* A lease outlasts the attempt it covers unless the dispatcher stalls or is gone.
LeaseTended(i) ==
  \E w \in Worker : wpc[w] # "idle" /\ job[w] = [id |-> i, seq |-> box[i].seq, attempts |-> box[i].attempts]

ExpireLease(i) ==
  /\ box[i].state = "leased" /\ box[i].live
  /\ IF LeaseTended(i) THEN Fault ELSE UNCHANGED faults
  /\ box' = [box EXCEPT ![i].live = FALSE]
  /\ UNCHANGED <<eventVars, policy, workerVars, receiverVars>>

ComesDue(i) ==
  /\ box[i].state = "pending" /\ ~box[i].due
  /\ box' = [box EXCEPT ![i].due = TRUE]
  /\ UNCHANGED <<eventVars, policy, workerVars, receiverVars, faults>>

Ages(n) ==
  /\ n \in (1..lastSeq) \ aged
  /\ aged' = aged \cup {n}
  /\ UNCHANGED <<row, marker, phase, lastSeq, notified, seen, box, policy, workerVars, receiverVars, faults>>

\* The receiver accepts an event, the first time or again.
Receive(n) ==
  /\ n \in inbox
  /\ inbox' = inbox \ {n} /\ held' = held \cup {n}
  /\ UNCHANGED <<eventVars, box, policy, workerVars, posts, faults>>

\* A bridge process dies; its requests may still arrive.
Crash(w) ==
  /\ wpc[w] # "idle" \/ cool[w]
  /\ Fault
  /\ Goto(w, "idle")
  /\ job' = [job EXCEPT ![w] = NoJob] /\ outcome' = [outcome EXCEPT ![w] = "none"]
  /\ cool' = [cool EXCEPT ![w] = FALSE]
  /\ UNCHANGED <<eventVars, box, policy, receiverVars>>

\* The operator restarts the bridge with another configuration.
Reconfigure ==
  /\ Fault
  /\ policy' \in Policies \ {policy}
  /\ \A w \in Worker : wpc[w] = "idle"
  /\ cool' = [w \in Worker |-> FALSE]
  /\ UNCHANGED <<eventVars, box, wpc, job, outcome, receiverVars>>

-----------------------------------------------------------------------------

Dispatch(w) ==
  \/ ClaimNotification(w) \/ DeliverExpired(w) \/ Deliver(w) \/ DeliverFails(w)
  \/ Accepted(w) \/ Refused(w) \/ RateLimited(w) \/ Unanswered(w)
  \/ FinishNotification(w)

Next ==
  \/ \E s \in Sends : RegisterOutboundOrigins(s) \/ SendMessage(s)
  \/ \E i \in Ident, live \in BOOLEAN : SaveMessage(i, live)
  \/ \E w \in Worker : Dispatch(w) \/ CoolDownEnds(w) \/ MaintainNotifications(w) \/ Crash(w)
  \/ \E i \in Ident : ExpireLease(i) \/ ComesDue(i)
  \/ \E n \in Seq1 : Ages(n) \/ Receive(n)
  \/ Reconfigure

Spec == Init /\ [][Next]_vars

\* The dispatcher's loop goes on, with its minute of maintenance unless it waits
\* for the receiver; the waits it asks for end, and clocks run.  The network and
\* the receiver owe nothing.
Fairness ==
  /\ \A w \in Worker : WF_vars(Dispatch(w)) /\ WF_vars(~cool[w] /\ MaintainNotifications(w))
                       /\ WF_vars(CoolDownEnds(w))
  /\ \A i \in Ident : WF_vars(~LeaseTended(i) /\ ExpireLease(i))
  /\ \A n \in Seq1 : WF_vars(Ages(n))

FairSpec == Spec /\ Fairness

-----------------------------------------------------------------------------
(* Properties *)

\* An echo of the bridge's own send never becomes a notification, whichever of
\* its identities it comes back under, by a live event or a history import, how
\* often, and however long after its marker was observed and pruned.
EchoNeverNotifies == \A i \in Own : notified[i] = 0

\* A message that came live to an admitted chat left an event, even if a history
\* import, or the same message before the chat was admitted, stored its row first.
LiveIsNotified == \A i \in seen \ Own : notified[i] > 0

\* "accepted" in the outbox is the receiver's word: whatever was lost, late or
\* answered to another attempt, the receiver holds the event.
AcceptedIsHeld == \A i \in Ident : box[i].state = "accepted" => box[i].seq \in held

\* Crashes and lost leases included, an event is posted no more than the
\* configured number of times: the attempt is spent when it is claimed.
PostsBounded == \A n \in Seq1 : posts[n] <= MaxAttempts

\* A stale dispatcher, a late answer or maintenance never reopens or rewrites an
\* event that has ended: its row keeps its state until retention removes it.
TerminalIsFinal ==
  [][\A i \in Ident : box[i].state \in Terminal =>
       box'[i].state = box[i].state \/ box'[i] = NoRow]_vars

\* Every event comes to an end, through crashes, failed updates, a receiver that
\* is down and an operator who disables delivery.
EveryNotificationEnds ==
  \A i \in Ident : (box[i].state \in {"pending", "leased"}) ~> (box[i].state \in Terminal)
=============================================================================
