---------------------------- MODULE OutboxProofs ----------------------------
(***************************************************************************)
(* Theorems about the notification outbox, for any number of messages,     *)
(* sends, dispatchers, attempts and faults: the type invariant, that no    *)
(* echo of the bridge's own send becomes a notification, that a live       *)
(* message of an admitted chat becomes one, that posts stay within the     *)
(* configured attempts, that an accepted event is held by the receiver,    *)
(* and that an event that ended stays so.                                  *)
(***************************************************************************)
EXTENDS Outbox, FiniteSetTheorems, TLAPS

-----------------------------------------------------------------------------
(* Types *)

\* What makes the types inductive: a row and a claimed job name a real event.
Named ==
  /\ \A i \in Ident : box[i].state # "none" => box[i].seq \in Seq1
  /\ \A w \in Worker : wpc[w] # "idle" => job[w].seq \in Seq1

TypeInv == TypeOK /\ Named

\* The rows the operations write are rows.
LEMMA RowsTyped ==
  /\ NoRow \in Notification
  /\ \A n \in Seq1 : NewRow(n) \in Notification
  /\ \A n \in Notification :
       /\ Maintained(n) \in Notification /\ Maintained(n).seq = n.seq
       /\ n.state = "none" => Maintained(n).state = "none"
       /\ n.state \in Terminal => Maintained(n) = n
<1>1. NoRow \in Notification
  BY OutboxAssumption DEF NoRow, Notification
<1>2. ASSUME NEW n \in Seq1 PROVE NewRow(n) \in Notification
  BY OutboxAssumption DEF NewRow, Notification
<1>3. ASSUME NEW n \in Notification
      PROVE  /\ Maintained(n) \in Notification /\ Maintained(n).seq = n.seq
             /\ n.state = "none" => Maintained(n).state = "none"
             /\ n.state \in Terminal => Maintained(n) = n
  <2>1. /\ [n EXCEPT !.state = "dead"] \in Notification
        /\ [n EXCEPT !.state = "pending"] \in Notification
    BY DEF Notification, Terminal
  <2>2. Maintained(n) \in {n, [n EXCEPT !.state = "dead"], [n EXCEPT !.state = "pending"]}
    BY DEF Maintained
  <2>3. \A s : [n EXCEPT !.state = s].seq = n.seq
    BY DEF Notification
  <2>4. n.state \notin {"pending", "leased"} => Maintained(n) = n
    BY DEF Maintained, Lapsed
  <2> QED
    BY <2>1, <2>2, <2>3, <2>4 DEF Terminal
<1> QED
  BY <1>1, <1>2, <1>3

\* A clock that runs out touches neither the event nor its state.
LEMMA ClockTyped ==
  ASSUME NEW n \in Notification, NEW b \in BOOLEAN
  PROVE  /\ [n EXCEPT !.live = b] \in Notification /\ [n EXCEPT !.due = b] \in Notification
         /\ [n EXCEPT !.live = b].seq = n.seq /\ [n EXCEPT !.live = b].state = n.state
         /\ [n EXCEPT !.due = b].seq = n.seq /\ [n EXCEPT !.due = b].state = n.state
BY DEF Notification

\* The fields an answer changes keep their types.
LEMMA EndTyped ==
  ASSUME NEW n \in Notification, NEW o \in {"none", "pending"} \cup Terminal
  PROVE  /\ [n EXCEPT !.state = o, !.live = FALSE, !.due = FALSE] \in Notification
         /\ [n EXCEPT !.state = o, !.live = FALSE, !.due = FALSE].seq = n.seq
BY DEF Notification

\* The next sequence is one the bound allows.
LEMMA NextSeqTyped ==
  ASSUME TypeOK, lastSeq < MaxSeq
  PROVE  lastSeq + 1 \in Seq1 /\ lastSeq + 1 \in 0..MaxSeq
BY OutboxAssumption DEF TypeOK, Seq1

\* Sending a message and saving one.
LEMMA SaveTyped ==
  ASSUME TypeInv,
         \/ \E s \in Sends : RegisterOutboundOrigins(s) \/ SendMessage(s)
         \/ \E i \in Ident, live \in BOOLEAN : SaveMessage(i, live)
  PROVE  TypeInv'
<1> USE DEF TypeInv, TypeOK, Named, workerVars, receiverVars
<1>1. ASSUME NEW s \in Sends, RegisterOutboundOrigins(s) PROVE TypeInv'
  BY <1>1 DEF RegisterOutboundOrigins
<1>2. ASSUME NEW s \in Sends, SendMessage(s) PROVE TypeInv'
  BY <1>2 DEF SendMessage
<1>3. ASSUME NEW i \in Ident, NEW live \in BOOLEAN, SaveMessage(i, live) PROVE TypeInv'
  <2>1. row' \in [Ident -> {"none", "saved", "origin"}]
    BY <1>3 DEF SaveMessage, Classified
  <2>2. marker' \in [Ident -> {"none", "registered", "observed"}]
    BY <1>3 DEF SaveMessage
  <2>3. seen' \subseteq Ident
    BY <1>3 DEF SaveMessage
  <2>4. /\ lastSeq' \in 0..MaxSeq /\ box' \in [Ident -> Notification]
        /\ notified' \in [Ident -> Nat]
        /\ \A j \in Ident : box'[j].state # "none" => box'[j].seq \in Seq1
    <3>1. CASE Notifies(i, live)
      <4> DEFINE new == NewRow(lastSeq + 1)
      <4>1. lastSeq + 1 \in Seq1 /\ lastSeq + 1 \in 0..MaxSeq
        BY <1>3, <3>1, NextSeqTyped DEF SaveMessage
      <4>2. new \in Notification /\ new.seq \in Seq1
        BY <4>1, RowsTyped DEF NewRow
      <4>3. lastSeq' = lastSeq + 1 /\ box' = [box EXCEPT ![i] = new] /\ notified' = [notified EXCEPT ![i] = @ + 1]
        BY <1>3, <3>1 DEF SaveMessage
      <4> HIDE DEF new
      <4> QED
        BY <4>1, <4>2, <4>3
    <3>2. CASE ~Notifies(i, live)
      BY <1>3, <3>2 DEF SaveMessage
    <3> QED
      BY <3>1, <3>2
  <2> QED
    BY <1>3, <2>1, <2>2, <2>3, <2>4 DEF SaveMessage
<1> QED
  BY <1>1, <1>2, <1>3

\* The steps of one dispatcher.
LEMMA DispatchTyped ==
  ASSUME TypeInv, NEW w \in Worker, Dispatch(w)
  PROVE  TypeInv'
<1> USE DEF TypeInv, TypeOK, Named, eventVars, receiverVars
<1>0. MaxFaults \in Nat /\ MaxAttempts \in Nat
  BY OutboxAssumption
<1>1. CASE ClaimNotification(w)
  <2>1. PICK i \in Ident :
          /\ Claimable(i)
          /\ box' = [box EXCEPT ![i] = Leased(i)]
          /\ \/ /\ job' = [job EXCEPT ![w] = [id |-> i, seq |-> box[i].seq, attempts |-> Leased(i).attempts]]
                /\ Goto(w, "claimed")
                /\ UNCHANGED faults
             \/ Fault /\ UNCHANGED <<job, wpc>>
    BY <1>1 DEF ClaimNotification
  <2>2. /\ Leased(i) \in Notification /\ Leased(i).attempts \in 0..MaxAttempts
        /\ Leased(i).seq = box[i].seq
    <3>1. box[i] \in Notification /\ box[i].attempts \in 0..MaxAttempts
      BY DEF Notification
    <3>2. box[i].attempts + 1 \in 0..MaxAttempts
      BY <1>0, <2>1, <3>1 DEF Claimable
    <3> QED
      BY <3>1, <3>2 DEF Leased, Notification
  <2>3. box[i].seq \in Seq1
    BY <2>1 DEF Claimable
  <2>4. box' \in [Ident -> Notification] /\ \A j \in Ident : box'[j].state # "none" => box'[j].seq \in Seq1
    BY <2>1, <2>2, <2>3
  <2>5. job' \in [Worker -> [id : Ident, seq : Seq1 \cup {0}, attempts : 0..MaxAttempts]]
    BY <2>1, <2>2, <2>3
  <2>6. wpc' \in [Worker -> {"idle", "claimed", "posting", "finish"}] /\ faults' \in 0..MaxFaults
    BY <1>0, <2>1 DEF Goto, Fault
  <2>7. \A v \in Worker : wpc'[v] # "idle" => job'[v].seq \in Seq1
    BY <2>1, <2>3 DEF Goto
  <2> QED
    BY <1>1, <2>4, <2>5, <2>6, <2>7 DEF ClaimNotification
<1>2. CASE DeliverExpired(w)
  BY <1>2 DEF DeliverExpired, Finishes, Goto, Outcomes, Terminal
<1>3. CASE Deliver(w)
  BY <1>3 DEF Deliver, Goto
<1>4. CASE DeliverFails(w)
  BY <1>4 DEF DeliverFails, Retry, Finishes, Goto, Outcomes, Terminal
<1>5. CASE Accepted(w)
  BY <1>5 DEF Accepted, Finishes, Goto, Outcomes, Terminal
<1>6. CASE Refused(w)
  BY <1>6 DEF Refused, Finishes, Goto, Outcomes, Terminal
<1>7. CASE RateLimited(w)
  BY <1>7 DEF RateLimited, Retry, Finishes, Goto, Outcomes, Terminal
<1>8. CASE Unanswered(w)
  BY <1>8 DEF Unanswered, Retry, Finishes, Goto, Outcomes, Terminal
<1>9. CASE FinishNotification(w)
  <2>1. NoJob \in [id : Ident, seq : Seq1 \cup {0}, attempts : 0..MaxAttempts]
    BY <1>0, OutboxAssumption DEF NoJob
  <2>2. Holds(w) => Finished(w) \in Notification /\ Finished(w).seq = box[job[w].id].seq
    <3>1. outcome[w] \in {"none", "pending"} \cup Terminal
      BY DEF Outcomes
    <3>2. box[job[w].id] \in Notification
      OBVIOUS
    <3> QED
      BY <3>1, <3>2, EndTyped DEF Finished
  <2>3. Holds(w) => box[job[w].id].seq \in Seq1
    BY DEF Holds
  <2>4. \/ UNCHANGED box
        \/ Holds(w) /\ box' = [box EXCEPT ![job[w].id] = Finished(w)]
    BY <1>9 DEF FinishNotification
  <2>5. /\ box' \in [Ident -> Notification]
        /\ \A j \in Ident : box'[j].state # "none" => box'[j].seq \in Seq1
    BY <2>2, <2>3, <2>4
  <2> QED
    BY <1>9, <2>1, <2>5 DEF FinishNotification, Goto, Outcomes
<1> QED
  BY <1>1, <1>2, <1>3, <1>4, <1>5, <1>6, <1>7, <1>8, <1>9 DEF Dispatch

\* Maintenance, time, the receiver and the faults.
LEMMA WorldTyped ==
  ASSUME TypeInv,
         \/ \E w \in Worker : CoolDownEnds(w) \/ MaintainNotifications(w) \/ Crash(w)
         \/ \E i \in Ident : ExpireLease(i) \/ ComesDue(i)
         \/ \E n \in Seq1 : Ages(n) \/ Receive(n)
         \/ Reconfigure
  PROVE  TypeInv'
<1> USE DEF TypeInv, TypeOK, Named, eventVars, workerVars, receiverVars
<1>0. MaxFaults \in Nat /\ NoJob \in [id : Ident, seq : Seq1 \cup {0}, attempts : 0..MaxAttempts]
  BY OutboxAssumption DEF NoJob
<1>1. ASSUME NEW w \in Worker, CoolDownEnds(w) PROVE TypeInv'
  BY <1>1 DEF CoolDownEnds
<1>2. ASSUME NEW w \in Worker, MaintainNotifications(w) PROVE TypeInv'
  <2>1. PICK old \in SUBSET Ident :
          box' = [i \in Ident |-> IF i \in old THEN NoRow ELSE Maintained(box[i])]
    BY <1>2 DEF MaintainNotifications
  <2>2. box' \in [Ident -> Notification]
    BY <2>1, RowsTyped
  <2>3. \A j \in Ident : box'[j].state # "none" => box'[j].seq \in Seq1
    BY <2>1, RowsTyped DEF NoRow
  <2>4. marker' \in [Ident -> {"none", "registered", "observed"}]
    BY <1>2 DEF MaintainNotifications
  <2> QED
    BY <1>2, <2>2, <2>3, <2>4 DEF MaintainNotifications
<1>3. ASSUME NEW w \in Worker, Crash(w) PROVE TypeInv'
  BY <1>0, <1>3 DEF Crash, Goto, Fault, Outcomes
<1>4. ASSUME NEW i \in Ident, ExpireLease(i) PROVE TypeInv'
  <2>1. faults' \in 0..MaxFaults
    BY <1>0, <1>4 DEF ExpireLease, Fault
  <2>2. box' = [box EXCEPT ![i] = [box[i] EXCEPT !.live = FALSE]]
    BY <1>4 DEF ExpireLease
  <2>3. /\ [box[i] EXCEPT !.live = FALSE] \in Notification
        /\ [box[i] EXCEPT !.live = FALSE].seq = box[i].seq
        /\ [box[i] EXCEPT !.live = FALSE].state = box[i].state
    BY ClockTyped
  <2> QED
    BY <1>4, <2>1, <2>2, <2>3 DEF ExpireLease
<1>5. ASSUME NEW i \in Ident, ComesDue(i) PROVE TypeInv'
  <2>1. box' = [box EXCEPT ![i] = [box[i] EXCEPT !.due = TRUE]]
    BY <1>5 DEF ComesDue
  <2>2. /\ [box[i] EXCEPT !.due = TRUE] \in Notification
        /\ [box[i] EXCEPT !.due = TRUE].seq = box[i].seq
        /\ [box[i] EXCEPT !.due = TRUE].state = box[i].state
    BY ClockTyped
  <2> QED
    BY <1>5, <2>1, <2>2 DEF ComesDue
<1>6. ASSUME NEW n \in Seq1, Ages(n) \/ Receive(n) PROVE TypeInv'
  BY <1>6 DEF Ages, Receive
<1>7. CASE Reconfigure
  BY <1>0, <1>7 DEF Reconfigure, Fault
<1> QED
  BY <1>1, <1>2, <1>3, <1>4, <1>5, <1>6, <1>7

\* Every variable keeps the type TypeOK gives it, and rows and jobs name events.
THEOREM TypeCorrect == Spec => [](TypeOK /\ Named)
<1>1. Init => TypeInv
  <2> SUFFICES ASSUME Init PROVE TypeInv
    OBVIOUS
  <2>1. box \in [Ident -> Notification] /\ \A i \in Ident : box[i].state = "none"
    BY RowsTyped DEF Init, NoRow
  <2>2. job \in [Worker -> [id : Ident, seq : Seq1 \cup {0}, attempts : 0..MaxAttempts]]
    BY OutboxAssumption DEF Init, NoJob
  <2>3. lastSeq \in 0..MaxSeq /\ faults \in 0..MaxFaults
    BY OutboxAssumption DEF Init
  <2> QED
    BY <2>1, <2>2, <2>3 DEF Init, TypeInv, TypeOK, Named, Outcomes
<1>2. TypeInv /\ [Next]_vars => TypeInv'
  <2>1. ASSUME TypeInv, Next PROVE TypeInv'
    BY <2>1, SaveTyped, DispatchTyped, WorldTyped DEF Next
  <2>2. ASSUME TypeInv, UNCHANGED vars PROVE TypeInv'
    BY <2>2 DEF TypeInv, TypeOK, Named, vars, eventVars, workerVars, receiverVars
  <2> QED
    BY <2>1, <2>2
<1> QED
  BY <1>1, <1>2, PTL DEF Spec, TypeInv

-----------------------------------------------------------------------------
(* Echoes *)

\* Until a send left, no echo of it can be shown; from its registration on, each
\* of its identities has a marker or a row that already tells its origin.
Known ==
  /\ \A s \in Sends : phase[s] # "new" =>
       \A i \in s : marker[i] # "none" \/ row[i] = "origin"
  /\ \A i \in Own : notified[i] = 0

\* A send is a set of identities.
LEMMA SendsTyped == Own \subseteq Ident /\ \A s \in Sends : s \subseteq Ident
BY OutboxAssumption DEF Own

\* An echo is shown only once its send is registered, so it is never notified;
\* a marker goes only when the row of its identity has the origin.
THEOREM EchoesKnown == Spec => []EchoNeverNotifies
<1>1. Init => Known
  BY SendsTyped DEF Init, Known
<1>2. TypeOK /\ Known /\ [Next]_vars => Known'
  <2> SUFFICES ASSUME TypeOK, Known, [Next]_vars PROVE Known'
    OBVIOUS
  <2> USE DEF Known, TypeOK, workerVars, receiverVars, eventVars
  <2>1. ASSUME NEW s \in Sends, RegisterOutboundOrigins(s) PROVE Known'
    <3>1. /\ phase' = [phase EXCEPT ![s] = "registered"] /\ row' = row /\ notified' = notified
          /\ \A i \in Ident : marker'[i] = IF i \in s THEN "registered" ELSE marker[i]
      BY <2>1 DEF RegisterOutboundOrigins
    <3>2. \A t \in Sends : t \subseteq Ident
      BY SendsTyped
    <3> QED
      BY <3>1, <3>2
  <2>2. ASSUME NEW s \in Sends, SendMessage(s) PROVE Known'
    BY <2>2 DEF SendMessage
  <2>3. ASSUME NEW i \in Ident, NEW live \in BOOLEAN, SaveMessage(i, live) PROVE Known'
    <3>1. i \in Own => Classified(i) = "origin"
      BY <2>3 DEF SaveMessage, Shown, Classified, Own
    <3>2. \A j \in Own : notified'[j] = 0
      BY <2>3, <3>1, SendsTyped DEF SaveMessage, Notifies
    <3>3. phase' = phase
      BY <2>3 DEF SaveMessage
    <3>4. \A j \in Ident : marker[j] # "none" \/ row[j] = "origin" => marker'[j] # "none" \/ row'[j] = "origin"
      BY <2>3 DEF SaveMessage, Classified
    <3>5. \A t \in Sends : t \subseteq Ident
      BY SendsTyped
    <3> QED
      BY <3>2, <3>3, <3>4, <3>5
  <2>4. ASSUME NEW w \in Worker, Dispatch(w) \/ CoolDownEnds(w) \/ Crash(w) PROVE Known'
    <3>1. UNCHANGED eventVars
      BY <2>4 DEF Dispatch, ClaimNotification, DeliverExpired, Deliver, DeliverFails, Accepted,
                  Refused, RateLimited, Unanswered, FinishNotification, CoolDownEnds, Crash
    <3> QED
      BY <3>1
  <2>5. ASSUME NEW w \in Worker, MaintainNotifications(w) PROVE Known'
    <3>1. \A j \in Ident : marker[j] # "none" \/ row[j] = "origin" => marker'[j] # "none" \/ row[j] = "origin"
      BY <2>5 DEF MaintainNotifications, Prunable
    <3>2. phase' = phase /\ row' = row /\ notified' = notified
      BY <2>5 DEF MaintainNotifications
    <3>3. \A t \in Sends : t \subseteq Ident
      BY SendsTyped
    <3> QED
      BY <3>1, <3>2, <3>3
  <2>6. CASE \/ \E i \in Ident : ExpireLease(i) \/ ComesDue(i)
             \/ \E n \in Seq1 : Ages(n) \/ Receive(n)
             \/ Reconfigure
             \/ UNCHANGED vars
    BY <2>6 DEF ExpireLease, ComesDue, Ages, Receive, Reconfigure, vars
  <2> QED
    BY <2>1, <2>2, <2>3, <2>4, <2>5, <2>6 DEF Next
<1>3. Known => EchoNeverNotifies
  BY DEF Known, EchoNeverNotifies
<1> QED
  BY <1>1, <1>2, <1>3, TypeCorrect, PTL DEF Spec

-----------------------------------------------------------------------------
(* What "accepted" means *)

\* The word on its way to the row is already the receiver's.
Vouched ==
  /\ \A w \in Worker : outcome[w] = "accepted" => wpc[w] = "finish" /\ job[w].seq \in held
  /\ AcceptedIsHeld

\* A row is accepted only by a finish that holds the event's own sequence.
THEOREM AcceptedHeld == Spec => []AcceptedIsHeld
<1>1. Init => Vouched
  BY DEF Init, Vouched, AcceptedIsHeld, NoRow
<1>2. TypeInv /\ Vouched /\ [Next]_vars => Vouched'
  <2> SUFFICES ASSUME TypeInv, Vouched, [Next]_vars PROVE Vouched'
    OBVIOUS
  <2> USE DEF Vouched, AcceptedIsHeld, TypeInv, TypeOK, workerVars, receiverVars, eventVars
  <2>1. ASSUME NEW s \in Sends, RegisterOutboundOrigins(s) \/ SendMessage(s) PROVE Vouched'
    BY <2>1 DEF RegisterOutboundOrigins, SendMessage
  <2>2. ASSUME NEW i \in Ident, NEW live \in BOOLEAN, SaveMessage(i, live) PROVE Vouched'
    BY <2>2 DEF SaveMessage, NewRow
  <2>3. ASSUME NEW w \in Worker, ClaimNotification(w) PROVE Vouched'
    <3>1. PICK i \in Ident :
            /\ box' = [box EXCEPT ![i] = Leased(i)]
            /\ \/ /\ job' = [job EXCEPT ![w] = [id |-> i, seq |-> box[i].seq, attempts |-> Leased(i).attempts]]
                  /\ Goto(w, "claimed")
               \/ job' = job /\ wpc' = wpc
      BY <2>3 DEF ClaimNotification
    <3>2. wpc[w] = "idle" /\ outcome' = outcome /\ held' = held
      BY <2>3 DEF ClaimNotification
    <3>3. Leased(i).state = "leased"
      BY DEF Leased, Notification
    <3>4. \A j \in Ident : box'[j].state = "accepted" => box'[j].seq \in held'
      BY <3>1, <3>2, <3>3
    <3>5. outcome[w] # "accepted"
      BY <3>2
    <3> QED
      BY <3>1, <3>2, <3>4, <3>5 DEF Goto
  <2>4. ASSUME NEW w \in Worker, DeliverExpired(w) \/ Deliver(w) \/ DeliverFails(w) PROVE Vouched'
    <3>1. UNCHANGED <<box, job, held>>
      BY <2>4 DEF DeliverExpired, Deliver, DeliverFails
    <3>2. wpc[w] = "claimed" /\ \E s : wpc' = [wpc EXCEPT ![w] = s]
      BY <2>4 DEF DeliverExpired, Deliver, DeliverFails, Finishes, Retry, Goto
    <3>3. UNCHANGED outcome \/ \E o : o # "accepted" /\ outcome' = [outcome EXCEPT ![w] = o]
      BY <2>4 DEF DeliverExpired, Deliver, DeliverFails, Finishes, Retry
    <3> QED
      BY <3>1, <3>2, <3>3
  <2>5. ASSUME NEW w \in Worker, Accepted(w) PROVE Vouched'
    BY <2>5 DEF Accepted, Accepts, Finishes, Goto
  <2>6. ASSUME NEW w \in Worker, Refused(w) \/ RateLimited(w) \/ Unanswered(w) PROVE Vouched'
    BY <2>6 DEF Refused, RateLimited, Unanswered, Finishes, Retry, Goto
  <2>7. ASSUME NEW w \in Worker, FinishNotification(w) PROVE Vouched'
    <3>1. wpc[w] = "finish" /\ UNCHANGED held
      BY <2>7 DEF FinishNotification
    <3>2. wpc' = [wpc EXCEPT ![w] = "idle"] /\ job' = [job EXCEPT ![w] = NoJob] /\ outcome' = [outcome EXCEPT ![w] = "none"]
      BY <2>7 DEF FinishNotification, Goto
    <3>3. \A j \in Ident : box'[j].state = "accepted" => box'[j].seq \in held
      <4>1. CASE UNCHANGED box
        BY <4>1
      <4>2. CASE Holds(w) /\ box' = [box EXCEPT ![job[w].id] = Finished(w)]
        <5>1. Finished(w).state = outcome[w] /\ Finished(w).seq = job[w].seq
          BY <4>2 DEF Holds, Finished, Notification
        <5> QED
          BY <4>2, <5>1
      <4> QED
        BY <2>7, <4>1, <4>2 DEF FinishNotification
    <3> QED
      BY <3>1, <3>2, <3>3
  <2>8. ASSUME NEW w \in Worker, CoolDownEnds(w) \/ Crash(w) PROVE Vouched'
    BY <2>8 DEF CoolDownEnds, Crash, Goto, Fault
  <2>9. ASSUME NEW w \in Worker, MaintainNotifications(w) PROVE Vouched'
    <3>1. \A i \in Ident : box'[i].state = "accepted" => box'[i].seq = box[i].seq /\ box[i].state = "accepted"
      BY <2>9 DEF MaintainNotifications, Maintained, NoRow, Notification
    <3> QED
      BY <2>9, <3>1 DEF MaintainNotifications
  <2>10. ASSUME NEW i \in Ident, ExpireLease(i) \/ ComesDue(i) PROVE Vouched'
    BY <2>10 DEF ExpireLease, ComesDue, Notification
  <2>11. CASE (\E n \in Seq1 : Ages(n) \/ Receive(n)) \/ Reconfigure \/ UNCHANGED vars
    BY <2>11 DEF Ages, Receive, Reconfigure, vars
  <2> QED
    BY <2>1, <2>2, <2>3, <2>4, <2>5, <2>6, <2>7, <2>8, <2>9, <2>10, <2>11 DEF Next, Dispatch
<1>3. Vouched => AcceptedIsHeld
  BY DEF Vouched
<1> QED
  BY <1>1, <1>2, <1>3, TypeCorrect, PTL DEF Spec, TypeInv

-----------------------------------------------------------------------------
(* Ends *)

\* Claims take pending rows, finishes and lapses leased ones, a save only an
\* identity without a row: none of them reaches a row that has ended.
THEOREM EndsKept == Spec => TerminalIsFinal
<1> DEFINE Kept == \A i \in Ident : box[i].state \in Terminal =>
                     box'[i].state = box[i].state \/ box'[i] = NoRow
<1>1. TypeInv /\ [Next]_vars => [Kept]_vars
  <2> SUFFICES ASSUME TypeInv, [Next]_vars PROVE Kept
    OBVIOUS
  <2>0. /\ box \in [Ident -> Notification]
        /\ {"none", "pending", "leased"} \cap Terminal = {}
    BY DEF TypeInv, TypeOK, Terminal
  <2>1. ASSUME NEW i \in Ident, NEW live \in BOOLEAN, SaveMessage(i, live) PROVE Kept
    BY <2>0, <2>1 DEF SaveMessage, Notifies
  <2>2. ASSUME NEW w \in Worker, ClaimNotification(w) PROVE Kept
    BY <2>0, <2>2 DEF ClaimNotification, Claimable
  <2>3. ASSUME NEW w \in Worker, FinishNotification(w) PROVE Kept
    BY <2>0, <2>3 DEF FinishNotification, Holds
  <2>4. ASSUME NEW w \in Worker, MaintainNotifications(w) PROVE Kept
    <3>1. \A i \in Ident : box[i].state \in Terminal => Maintained(box[i]) = box[i]
      BY <2>0, RowsTyped
    <3>2. PICK old \in SUBSET Ident :
            box' = [i \in Ident |-> IF i \in old THEN NoRow ELSE Maintained(box[i])]
      BY <2>4 DEF MaintainNotifications
    <3> QED
      BY <3>1, <3>2
  <2>5. ASSUME NEW i \in Ident, ExpireLease(i) \/ ComesDue(i) PROVE Kept
    BY <2>0, <2>5 DEF ExpireLease, ComesDue
  <2>6. UNCHANGED box => Kept
    OBVIOUS
  <2>7. ASSUME NEW w \in Worker,
               \/ DeliverExpired(w) \/ Deliver(w) \/ DeliverFails(w) \/ Accepted(w) \/ Refused(w)
               \/ RateLimited(w) \/ Unanswered(w) \/ CoolDownEnds(w) \/ Crash(w)
        PROVE  UNCHANGED box
    BY <2>7 DEF DeliverExpired, Deliver, DeliverFails, Accepted, Refused, RateLimited, Unanswered,
                CoolDownEnds, Crash
  <2>8. ASSUME \/ \E s \in Sends : RegisterOutboundOrigins(s) \/ SendMessage(s)
               \/ \E n \in Seq1 : Ages(n) \/ Receive(n)
               \/ Reconfigure \/ UNCHANGED vars
        PROVE  UNCHANGED box
    BY <2>8 DEF RegisterOutboundOrigins, SendMessage, Ages, Receive, Reconfigure, vars
  <2> HIDE DEF Kept
  <2> QED
    BY <2>1, <2>2, <2>3, <2>4, <2>5, <2>6, <2>7, <2>8 DEF Next, Dispatch
<1> QED
  BY <1>1, TypeCorrect, PTL DEF Spec, TerminalIsFinal, TypeInv

-----------------------------------------------------------------------------
(* Live messages *)

\* A row outside the bridge's own sends never gets their origin, a notification
\* that exists was counted, and so was that of every message seen live.
Told ==
  /\ \A i \in Ident \ Own : row[i] # "origin"
  /\ \A i \in Ident : box[i].state # "none" => notified[i] > 0
  /\ LiveIsNotified

\* A live message of an admitted chat is notified by the save that first sees it
\* live, or the row it finds was counted then; pruning a row forgets no count.
THEOREM LiveNotified == Spec => []LiveIsNotified
<1>1. Init => Told
  BY DEF Init, Told, LiveIsNotified, NoRow
<1>2. TypeInv /\ Told /\ [Next]_vars => Told'
  <2> SUFFICES ASSUME TypeInv, Told, [Next]_vars PROVE Told'
    OBVIOUS
  <2>0. Own' = Own
    BY DEF Own
  <2>1. ASSUME NEW i \in Ident, NEW live \in BOOLEAN, SaveMessage(i, live) PROVE Told'
    <3>1. row' = [row EXCEPT ![i] = Classified(i)] /\ (i \notin Own => Classified(i) = "saved")
      BY <2>1 DEF SaveMessage, Classified, Told
    <3>2. \A j \in Ident \ Own : row'[j] # "origin"
      BY <3>1 DEF Told, TypeInv, TypeOK
    <3>3. CASE Notifies(i, live)
      <4>1. /\ \A j \in Ident : notified'[j] >= notified[j]
            /\ notified'[i] > 0
        BY <2>1, <3>3 DEF SaveMessage, TypeInv, TypeOK
      <4>2. /\ \A j \in Ident \ {i} : box'[j] = box[j]
            /\ seen' \subseteq seen \cup {i}
        BY <2>1, <3>3 DEF SaveMessage, TypeInv, TypeOK
      <4>3. \A j \in Ident : notified[j] \in Nat /\ notified'[j] \in Nat
        BY <2>1, <3>3 DEF SaveMessage, TypeInv, TypeOK
      <4>4. \A j \in Ident : box'[j].state # "none" => notified'[j] > 0
        BY <4>1, <4>2, <4>3 DEF Told
      <4>5. \A j \in seen' \ Own : notified'[j] > 0
        BY <4>1, <4>2, <4>3 DEF Told, LiveIsNotified, TypeInv, TypeOK
      <4> QED
        BY <2>0, <3>2, <4>4, <4>5 DEF Told, LiveIsNotified
    <3>4. CASE ~Notifies(i, live)
      <4>1. UNCHANGED <<box, notified>>
        BY <2>1, <3>4 DEF SaveMessage
      <4>2. i \in seen' \ seen /\ i \notin Own => box[i].state # "none"
        BY <2>1, <3>1, <3>4 DEF SaveMessage, Notifies
      <4>3. seen' \subseteq seen \cup {i}
        BY <2>1 DEF SaveMessage
      <4> QED
        BY <2>0, <3>2, <4>1, <4>2, <4>3 DEF Told, LiveIsNotified
    <3> QED
      BY <3>3, <3>4
  <2>2. ASSUME UNCHANGED <<row, notified, seen>>,
               \A i \in Ident : box'[i].state # "none" => box[i].state # "none"
        PROVE  Told'
    BY <2>0, <2>2 DEF Told, LiveIsNotified
  <2>3. ASSUME NEW s \in Sends, RegisterOutboundOrigins(s) \/ SendMessage(s) PROVE Told'
    BY <2>2, <2>3 DEF RegisterOutboundOrigins, SendMessage
  <2>4. ASSUME NEW w \in Worker, ClaimNotification(w) PROVE Told'
    BY <2>2, <2>4 DEF ClaimNotification, Claimable, TypeInv, TypeOK, eventVars
  <2>5. ASSUME NEW w \in Worker,
               \/ DeliverExpired(w) \/ Deliver(w) \/ DeliverFails(w) \/ Accepted(w) \/ Refused(w)
               \/ RateLimited(w) \/ Unanswered(w) \/ CoolDownEnds(w) \/ Crash(w)
        PROVE  Told'
    <3>1. UNCHANGED <<eventVars, box>>
      BY <2>5 DEF DeliverExpired, Deliver, DeliverFails, Accepted, Refused, RateLimited,
                  Unanswered, CoolDownEnds, Crash
    <3> QED
      BY <2>2, <3>1 DEF eventVars
  <2>6. ASSUME NEW w \in Worker, FinishNotification(w) PROVE Told'
    BY <2>2, <2>6 DEF FinishNotification, Holds, TypeInv, TypeOK, eventVars
  <2>7. ASSUME NEW w \in Worker, MaintainNotifications(w) PROVE Told'
    <3>1. \A j \in Ident : box'[j].state # "none" => box[j].state # "none"
      <4>1. PICK old \in SUBSET Ident :
              box' = [j \in Ident |-> IF j \in old THEN NoRow ELSE Maintained(box[j])]
        BY <2>7 DEF MaintainNotifications
      <4> QED
        BY <4>1, RowsTyped DEF NoRow, TypeInv, TypeOK
    <3> QED
      BY <2>2, <2>7, <3>1 DEF MaintainNotifications
  <2>8. ASSUME NEW i \in Ident, ExpireLease(i) \/ ComesDue(i) PROVE Told'
    BY <2>2, <2>8 DEF ExpireLease, ComesDue, TypeInv, TypeOK, eventVars
  <2>9. CASE (\E n \in Seq1 : Ages(n) \/ Receive(n)) \/ Reconfigure \/ UNCHANGED vars
    BY <2>2, <2>9 DEF Ages, Receive, Reconfigure, vars, eventVars
  <2> QED
    BY <2>1, <2>3, <2>4, <2>5, <2>6, <2>7, <2>8, <2>9 DEF Next, Dispatch
<1>3. Told => LiveIsNotified
  BY DEF Told
<1> QED
  BY <1>1, <1>2, <1>3, TypeCorrect, PTL DEF Spec, TypeInv

-----------------------------------------------------------------------------
(* Attempts *)

\* The dispatchers that have claimed an attempt of event n and not posted it.
Claims(n) == {w \in Worker : wpc[w] = "claimed" /\ job[w].seq = n}

\* Two rows never share an event, and an event not yet numbered has no post and
\* no claim.
Sequenced ==
  /\ \A i, j \in Ident :
       box[i].state # "none" /\ box[j].state # "none" /\ box[i].seq = box[j].seq => i = j
  /\ \A i \in Ident : box[i].state # "none" => box[i].seq <= lastSeq
  /\ \A n \in Seq1 : n > lastSeq => posts[n] = 0 /\ Claims(n) = {}

\* Posts made and posts claimed never exceed the attempts the row has counted;
\* once the row is pruned, they stay within the limit it was under.
Budget ==
  \A n \in Seq1 :
    /\ IsFiniteSet(Claims(n))
    /\ posts[n] + Cardinality(Claims(n)) <= MaxAttempts
    /\ \A i \in Ident : box[i].state # "none" /\ box[i].seq = n =>
         posts[n] + Cardinality(Claims(n)) <= box[i].attempts

\* Maintenance counts no attempt and makes no row of nothing.
LEMMA MaintainedAttempts ==
  ASSUME NEW n \in Notification
  PROVE  Maintained(n).attempts = n.attempts
<1>1. Maintained(n) \in {n, [n EXCEPT !.state = "dead"], [n EXCEPT !.state = "pending"]}
  BY DEF Maintained
<1> QED
  BY <1>1 DEF Notification

\* Fewer claims, the same posts, the same events or pruned ones, and attempts that
\* only grow: the budget is kept.
LEMMA BudgetKept ==
  ASSUME TypeInv, TypeInv', Sequenced, Budget, posts' = posts, lastSeq' = lastSeq,
         \A w \in Worker : wpc'[w] = "claimed" => wpc[w] = "claimed" /\ job'[w] = job[w],
         \A i \in Ident : box'[i].state # "none" =>
           box[i].state # "none" /\ box'[i].seq = box[i].seq /\ box[i].attempts <= box'[i].attempts
  PROVE  Sequenced' /\ Budget'
<1>1. \A n \in Seq1 : Claims(n)' \subseteq Claims(n)
  BY DEF Claims
<1>2. Sequenced'
  BY <1>1 DEF Sequenced
<1>3. ASSUME NEW n \in Seq1
      PROVE  /\ IsFiniteSet(Claims(n)')
             /\ Cardinality(Claims(n)') \in Nat /\ Cardinality(Claims(n)) \in Nat
             /\ Cardinality(Claims(n)') <= Cardinality(Claims(n))
  BY <1>1, FS_Subset, FS_CardinalityType DEF Budget
<1>4. /\ \A n \in Seq1 : posts[n] \in Nat
      /\ \A i \in Ident : box[i].attempts \in Nat /\ box'[i].attempts \in Nat
  BY OutboxAssumption DEF TypeInv, TypeOK, Notification
<1>5. Budget'
  <2> SUFFICES ASSUME NEW n \in Seq1
               PROVE  /\ IsFiniteSet(Claims(n)')
                      /\ posts'[n] + Cardinality(Claims(n)') <= MaxAttempts
                      /\ \A i \in Ident : box'[i].state # "none" /\ box'[i].seq = n =>
                           posts'[n] + Cardinality(Claims(n)') <= box'[i].attempts
    BY DEF Budget
  <2>1. posts'[n] + Cardinality(Claims(n)') <= posts[n] + Cardinality(Claims(n))
    BY <1>3, <1>4
  <2>2. posts[n] + Cardinality(Claims(n)) <= MaxAttempts
    BY DEF Budget
  <2>3. ASSUME NEW i \in Ident, box'[i].state # "none", box'[i].seq = n
        PROVE  posts'[n] + Cardinality(Claims(n)') <= box'[i].attempts
    <3>1. posts[n] + Cardinality(Claims(n)) <= box[i].attempts
      BY <2>3 DEF Budget
    <3> QED
      BY <1>3, <1>4, <2>1, <2>3, <3>1
  <2> QED
    BY <1>3, <1>4, <2>1, <2>2, <2>3, OutboxAssumption
<1> QED
  BY <1>2, <1>5

\* A claim raises the attempts of the one row that names the event.
LEMMA BudgetClaimed ==
  ASSUME TypeInv, TypeInv', Sequenced, Budget, NEW w \in Worker, ClaimNotification(w)
  PROVE  Sequenced' /\ Budget'
<1>1. PICK i \in Ident :
        /\ Claimable(i)
        /\ box' = [box EXCEPT ![i] = Leased(i)]
        /\ \/ /\ job' = [job EXCEPT ![w] = [id |-> i, seq |-> box[i].seq, attempts |-> Leased(i).attempts]]
              /\ Goto(w, "claimed")
           \/ UNCHANGED <<job, wpc>>
  BY DEF ClaimNotification
<1>2. /\ posts' = posts /\ lastSeq' = lastSeq
      /\ wpc[w] = "idle"
  BY DEF ClaimNotification, eventVars, receiverVars
<1>3. /\ Leased(i).state = "leased" /\ Leased(i).seq = box[i].seq
      /\ Leased(i).attempts = box[i].attempts + 1
      /\ box[i].attempts \in Nat /\ box[i].attempts + 1 <= MaxAttempts
      /\ box[i].state = "pending" /\ box[i].seq \in Seq1
  BY <1>1, OutboxAssumption DEF Leased, Claimable, TypeInv, TypeOK, Named, Notification
<1>4. /\ box'[i].seq = box[i].seq /\ box'[i].state = "leased"
      /\ box'[i].attempts = box[i].attempts + 1
      /\ \A j \in Ident \ {i} : box'[j] = box[j]
  BY <1>1, <1>3 DEF TypeInv, TypeOK
<1>5. CASE UNCHANGED <<job, wpc>>
  <2>1. \A j \in Ident : box'[j].state # "none" =>
          box[j].state # "none" /\ box'[j].seq = box[j].seq /\ box[j].attempts <= box'[j].attempts
    <3>1. \A j \in Ident : box[j].attempts \in Nat
      BY OutboxAssumption DEF TypeInv, TypeOK, Notification
    <3> QED
      BY <1>3, <1>4, <3>1
  <2> QED
    BY <1>2, <1>5, <2>1, BudgetKept
<1>6. CASE /\ job' = [job EXCEPT ![w] = [id |-> i, seq |-> box[i].seq, attempts |-> Leased(i).attempts]]
           /\ Goto(w, "claimed")
  <2>0. PICK k \in Seq1 : k = box[i].seq
    BY <1>3
  <2>1. /\ job'[w].seq = k /\ wpc'[w] = "claimed"
        /\ \A v \in Worker \ {w} : job'[v] = job[v] /\ wpc'[v] = wpc[v]
    BY <1>6, <2>0 DEF Goto, TypeInv, TypeOK
  <2>2. Claims(k)' = Claims(k) \cup {w} /\ w \notin Claims(k)
    BY <1>2, <2>1 DEF Claims
  <2>3. \A n \in Seq1 \ {k} : Claims(n)' = Claims(n)
    BY <1>2, <2>1 DEF Claims
  <2>4. k <= lastSeq /\ k \in Seq1
    BY <1>3, <2>0 DEF Sequenced
  <2>5. Sequenced'
    <3>1. \A a, b \in Ident :
            box'[a].state # "none" /\ box'[b].state # "none" /\ box'[a].seq = box'[b].seq => a = b
      BY <1>3, <1>4 DEF Sequenced
    <3>2. \A a \in Ident : box'[a].state # "none" => box'[a].seq <= lastSeq'
      BY <1>2, <1>3, <1>4 DEF Sequenced
    <3>3. \A n \in Seq1 : n > lastSeq' => posts'[n] = 0 /\ Claims(n)' = {}
      <4> SUFFICES ASSUME NEW n \in Seq1, n > lastSeq' PROVE posts'[n] = 0 /\ Claims(n)' = {}
        OBVIOUS
      <4>1. n # k
        BY <1>2, <2>4 DEF TypeInv, TypeOK, Seq1
      <4> QED
        BY <1>2, <2>3, <4>1 DEF Sequenced
    <3> QED
      BY <3>1, <3>2, <3>3 DEF Sequenced
  <2>6. Budget'
    <3> SUFFICES ASSUME NEW n \in Seq1
                 PROVE  /\ IsFiniteSet(Claims(n)')
                        /\ posts'[n] + Cardinality(Claims(n)') <= MaxAttempts
                        /\ \A j \in Ident : box'[j].state # "none" /\ box'[j].seq = n =>
                             posts'[n] + Cardinality(Claims(n)') <= box'[j].attempts
      BY DEF Budget
    <3>1. CASE n # k
      <4>1. Claims(n)' = Claims(n) /\ posts'[n] = posts[n]
        BY <1>2, <2>3, <3>1
      <4>2. \A j \in Ident : box'[j].seq = n => box'[j] = box[j]
        BY <1>4, <2>0, <3>1
      <4> QED
        BY <4>1, <4>2 DEF Budget
    <3>2. CASE n = k
      <4>1. IsFiniteSet(Claims(k)) /\ Cardinality(Claims(k)) \in Nat
        BY <2>4, FS_CardinalityType DEF Budget
      <4>2. IsFiniteSet(Claims(k)') /\ Cardinality(Claims(k)') = Cardinality(Claims(k)) + 1
        BY <2>2, <4>1, FS_AddElement
      <4>3. posts[k] + Cardinality(Claims(k)) <= box[i].attempts /\ posts[k] \in Nat
        BY <1>3, <2>0, <2>4 DEF Budget, TypeInv, TypeOK
      <4>4. posts'[k] + Cardinality(Claims(k)') <= box[i].attempts + 1
        BY <1>2, <1>3, <4>1, <4>2, <4>3
      <4>5. \A j \in Ident : box'[j].state # "none" /\ box'[j].seq = k => j = i
        BY <1>3, <1>4, <2>0 DEF Sequenced
      <4>6. posts'[k] + Cardinality(Claims(k)') <= MaxAttempts
        BY <1>2, <1>3, <4>1, <4>2, <4>3, <4>4, OutboxAssumption
      <4> QED
        BY <1>4, <3>2, <4>2, <4>4, <4>5, <4>6
    <3> QED
      BY <3>1, <3>2
  <2> QED
    BY <2>5, <2>6
<1> QED
  BY <1>1, <1>5, <1>6

\* A post uses up a claim of the same event.
LEMMA BudgetPosted ==
  ASSUME TypeInv, TypeInv', Sequenced, Budget, NEW w \in Worker, Deliver(w)
  PROVE  Sequenced' /\ Budget'
<1> DEFINE k == job[w].seq
<1>1. /\ wpc[w] = "claimed" /\ k \in Seq1
      /\ box' = box /\ lastSeq' = lastSeq /\ job' = job
      /\ posts' = [posts EXCEPT ![k] = @ + 1] /\ wpc' = [wpc EXCEPT ![w] = "posting"]
  BY DEF Deliver, Goto, eventVars, TypeInv, Named
<1>2. Claims(k)' = Claims(k) \ {w} /\ w \in Claims(k)
  BY <1>1 DEF Claims, TypeInv, TypeOK
<1>3. \A n \in Seq1 \ {k} : Claims(n)' = Claims(n) /\ posts'[n] = posts[n]
  BY <1>1 DEF Claims, TypeInv, TypeOK
<1>4. posts[k] \in Nat /\ posts'[k] = posts[k] + 1
  BY <1>1 DEF TypeInv, TypeOK
<1>5. /\ IsFiniteSet(Claims(k)') /\ Cardinality(Claims(k)') = Cardinality(Claims(k)) - 1
      /\ Cardinality(Claims(k)) \in Nat
  BY <1>1, <1>2, FS_RemoveElement, FS_CardinalityType DEF Budget
<1>6. posts'[k] + Cardinality(Claims(k)') = posts[k] + Cardinality(Claims(k))
  BY <1>4, <1>5
<1>7. Sequenced'
  <2>1. ~(k > lastSeq)
    BY <1>1, <1>2 DEF Sequenced
  <2> QED
    BY <1>1, <1>3, <2>1 DEF Sequenced
<1>8. Budget'
  <2> SUFFICES ASSUME NEW n \in Seq1
               PROVE  /\ IsFiniteSet(Claims(n)')
                      /\ posts'[n] + Cardinality(Claims(n)') <= MaxAttempts
                      /\ \A i \in Ident : box'[i].state # "none" /\ box'[i].seq = n =>
                           posts'[n] + Cardinality(Claims(n)') <= box'[i].attempts
    BY DEF Budget
  <2>1. CASE n = k
    BY <1>1, <1>5, <1>6, <2>1 DEF Budget
  <2>2. CASE n # k
    BY <1>1, <1>3, <2>2 DEF Budget
  <2> QED
    BY <2>1, <2>2
<1> QED
  BY <1>7, <1>8

\* A new event starts with nothing posted, claimed or counted.
LEMMA BudgetSaved ==
  ASSUME TypeInv, TypeInv', Sequenced, Budget,
         NEW i \in Ident, NEW live \in BOOLEAN, SaveMessage(i, live)
  PROVE  Sequenced' /\ Budget'
<1>1. posts' = posts /\ wpc' = wpc /\ job' = job
  BY DEF SaveMessage, workerVars, receiverVars
<1>2. \A n : Claims(n)' = Claims(n)
  BY <1>1 DEF Claims
<1>3. CASE ~Notifies(i, live)
  <2>1. box' = box /\ lastSeq' = lastSeq
    BY <1>3 DEF SaveMessage
  <2> QED
    BY <1>1, <1>2, <2>1 DEF Sequenced, Budget
<1>4. CASE Notifies(i, live)
  <2> DEFINE k == lastSeq + 1
  <2>1. /\ lastSeq' = k /\ k \in Seq1 /\ lastSeq \in Nat
        /\ box' = [box EXCEPT ![i] = NewRow(k)]
    BY <1>4, NextSeqTyped DEF SaveMessage, TypeInv, TypeOK
  <2>2. /\ box'[i].seq = k /\ box'[i].attempts = 0
        /\ \A j \in Ident \ {i} : box'[j] = box[j]
    BY <2>1 DEF NewRow, TypeInv, TypeOK
  <2>3. posts[k] = 0 /\ Claims(k) = {}
    BY <2>1 DEF Sequenced
  <2>4. \A j \in Ident : box[j].state # "none" => box[j].seq \in Seq1 /\ box[j].seq <= lastSeq
    BY DEF Sequenced, TypeInv, Named
  <2>5. \A j \in Ident : box[j].state # "none" => box[j].seq # k /\ box[j].seq <= k
    BY <2>1, <2>4 DEF Seq1
  <2>6. Sequenced'
    <3>1. \A a, b \in Ident :
            box'[a].state # "none" /\ box'[b].state # "none" /\ box'[a].seq = box'[b].seq => a = b
      BY <2>2, <2>5 DEF Sequenced
    <3>2. \A a \in Ident : box'[a].state # "none" => box'[a].seq <= lastSeq'
      BY <2>1, <2>2, <2>5
    <3>3. \A n \in Seq1 : n > lastSeq' => n > lastSeq
      BY <2>1 DEF Seq1
    <3> QED
      BY <1>1, <1>2, <3>1, <3>2, <3>3 DEF Sequenced
  <2>7. Budget'
    <3>1. \A n \in Seq1, j \in Ident : box'[j].state # "none" /\ box'[j].seq = n =>
            posts[n] + Cardinality(Claims(n)) <= box'[j].attempts
      <4>1. posts[k] + Cardinality(Claims(k)) <= 0
        BY <2>3, FS_EmptySet
      <4> QED
        BY <2>2, <4>1 DEF Budget
    <3> QED
      BY <1>1, <1>2, <3>1 DEF Budget
  <2> QED
    BY <2>6, <2>7
<1> QED
  BY <1>3, <1>4

\* Every post was paid for with an attempt the claim had counted, and a row that
\* spent its attempts is not claimed again.
THEOREM PostsWithinBudget == Spec => []PostsBounded
<1>1. Init => Sequenced /\ Budget
  <2> SUFFICES ASSUME Init PROVE Sequenced /\ Budget
    OBVIOUS
  <2>1. \A n : Claims(n) = {}
    BY DEF Init, Claims
  <2>2. \A i \in Ident : box[i].state = "none"
    BY DEF Init, NoRow
  <2>3. \A n \in Seq1 : posts[n] = 0
    BY DEF Init
  <2>4. Sequenced
    BY <2>1, <2>2, <2>3 DEF Sequenced
  <2>5. \A n \in Seq1 : IsFiniteSet(Claims(n)) /\ Cardinality(Claims(n)) = 0
    BY <2>1, FS_EmptySet
  <2>6. Budget
    BY <2>2, <2>3, <2>5, OutboxAssumption DEF Budget
  <2> QED
    BY <2>4, <2>6
<1>2. TypeInv /\ TypeInv' /\ Sequenced /\ Budget /\ [Next]_vars => Sequenced' /\ Budget'
  <2> SUFFICES ASSUME TypeInv, TypeInv', Sequenced, Budget, [Next]_vars
               PROVE  Sequenced' /\ Budget'
    OBVIOUS
  <2> DEFINE Rows == \A i \in Ident : box'[i].state # "none" =>
                       box[i].state # "none" /\ box'[i].seq = box[i].seq
                         /\ box[i].attempts <= box'[i].attempts
             Workers == \A w \in Worker : wpc'[w] = "claimed" => wpc[w] = "claimed" /\ job'[w] = job[w]
  <2>0. \A i \in Ident : box[i] \in Notification /\ box[i].attempts \in Nat
    BY OutboxAssumption DEF TypeInv, TypeOK, Notification
  <2>1. UNCHANGED box => Rows
    BY <2>0
  <2>2. UNCHANGED <<wpc, job>> => Workers
    OBVIOUS
  <2>3. ASSUME Rows, Workers, UNCHANGED <<posts, lastSeq>> PROVE Sequenced' /\ Budget'
    BY <2>3, BudgetKept
  <2>4. ASSUME NEW s \in Sends, RegisterOutboundOrigins(s) \/ SendMessage(s)
        PROVE  Sequenced' /\ Budget'
    BY <2>1, <2>2, <2>3, <2>4 DEF RegisterOutboundOrigins, SendMessage, workerVars, receiverVars
  <2>5. ASSUME NEW w \in Worker,
               \/ DeliverExpired(w) \/ DeliverFails(w) \/ Accepted(w) \/ Refused(w)
               \/ RateLimited(w) \/ Unanswered(w) \/ CoolDownEnds(w) \/ Crash(w)
        PROVE  Sequenced' /\ Budget'
    <3>1. UNCHANGED <<box, posts, lastSeq>>
      BY <2>5 DEF DeliverExpired, DeliverFails, Accepted, Refused, RateLimited, Unanswered,
                  CoolDownEnds, Crash, eventVars, receiverVars
    <3>2. /\ \A v \in Worker \ {w} : wpc'[v] = wpc[v] /\ job'[v] = job[v]
          /\ wpc'[w] # "claimed" \/ (wpc'[w] = wpc[w] /\ job'[w] = job[w])
      BY <2>5 DEF DeliverExpired, DeliverFails, Accepted, Refused, RateLimited, Unanswered,
                  CoolDownEnds, Crash, Finishes, Retry, Goto, TypeInv, TypeOK
    <3> QED
      BY <2>1, <2>3, <3>1, <3>2
  <2>6. ASSUME NEW w \in Worker, FinishNotification(w) PROVE Sequenced' /\ Budget'
    <3>1. UNCHANGED <<posts, lastSeq>> /\ Workers
      BY <2>6 DEF FinishNotification, Goto, eventVars, receiverVars, TypeInv, TypeOK
    <3>2. CASE Holds(w) /\ box' = [box EXCEPT ![job[w].id] = Finished(w)]
      <4>1. /\ Finished(w).seq = box[job[w].id].seq /\ Finished(w).attempts = box[job[w].id].attempts
            /\ box[job[w].id].state # "none" /\ job[w].id \in Ident
        BY <3>2 DEF Finished, Holds, TypeInv, TypeOK, Notification
      <4>2. Rows
        BY <2>0, <3>2, <4>1
      <4> QED
        BY <2>3, <3>1, <4>2
    <3> QED
      BY <2>1, <2>3, <2>6, <3>1, <3>2 DEF FinishNotification
  <2>7. ASSUME NEW w \in Worker, MaintainNotifications(w) PROVE Sequenced' /\ Budget'
    <3>1. UNCHANGED <<posts, lastSeq, wpc, job>>
      BY <2>7 DEF MaintainNotifications, workerVars, receiverVars
    <3>2. PICK old \in SUBSET Ident :
            box' = [j \in Ident |-> IF j \in old THEN NoRow ELSE Maintained(box[j])]
      BY <2>7 DEF MaintainNotifications
    <3>3. Rows
      BY <2>0, <3>2, RowsTyped, MaintainedAttempts DEF NoRow
    <3> QED
      BY <2>2, <2>3, <3>1, <3>3
  <2>8. ASSUME NEW i \in Ident, ExpireLease(i) \/ ComesDue(i) PROVE Sequenced' /\ Budget'
    <3>1. UNCHANGED <<posts, lastSeq, wpc, job>>
      BY <2>8 DEF ExpireLease, ComesDue, eventVars, workerVars, receiverVars
    <3>2. \E b \in BOOLEAN : \/ box' = [box EXCEPT ![i] = [box[i] EXCEPT !.live = b]]
                             \/ box' = [box EXCEPT ![i] = [box[i] EXCEPT !.due = b]]
      BY <2>8 DEF ExpireLease, ComesDue
    <3>3. box[i].state # "none"
      BY <2>8 DEF ExpireLease, ComesDue
    <3>4. /\ \A j \in Ident \ {i} : box'[j] = box[j]
          /\ box'[i].seq = box[i].seq /\ box'[i].attempts = box[i].attempts
      <4>1. PICK b \in BOOLEAN : \/ box' = [box EXCEPT ![i] = [box[i] EXCEPT !.live = b]]
                                \/ box' = [box EXCEPT ![i] = [box[i] EXCEPT !.due = b]]
        BY <3>2
      <4>2. \/ box'[i] = [box[i] EXCEPT !.live = b]
            \/ box'[i] = [box[i] EXCEPT !.due = b]
        BY <4>1 DEF TypeInv, TypeOK
      <4>3. \A j \in Ident \ {i} : box'[j] = box[j]
        BY <4>1 DEF TypeInv, TypeOK
      <4> QED
        BY <2>0, <4>2, <4>3 DEF Notification
    <3>5. Rows
      BY <2>0, <3>3, <3>4
    <3> QED
      BY <2>2, <2>3, <3>1, <3>5
  <2>9. CASE (\E n \in Seq1 : Ages(n) \/ Receive(n)) \/ Reconfigure \/ UNCHANGED vars
    BY <2>1, <2>2, <2>3, <2>9 DEF Ages, Receive, Reconfigure, vars, eventVars, workerVars, receiverVars
  <2>10. ASSUME NEW w \in Worker, ClaimNotification(w) \/ Deliver(w) PROVE Sequenced' /\ Budget'
    BY <2>10, BudgetClaimed, BudgetPosted
  <2>11. ASSUME NEW i \in Ident, NEW live \in BOOLEAN, SaveMessage(i, live)
         PROVE  Sequenced' /\ Budget'
    BY <2>11, BudgetSaved
  <2> HIDE DEF Rows, Workers
  <2> QED
    BY <2>4, <2>5, <2>6, <2>7, <2>8, <2>9, <2>10, <2>11 DEF Next, Dispatch
<1>3. TypeInv /\ Budget => PostsBounded
  <2> SUFFICES ASSUME TypeInv, Budget, NEW n \in Seq1 PROVE posts[n] <= MaxAttempts
    BY DEF PostsBounded
  <2>1. Cardinality(Claims(n)) \in Nat /\ posts[n] \in Nat
    BY FS_CardinalityType DEF Budget, TypeInv, TypeOK
  <2>2. posts[n] + Cardinality(Claims(n)) <= MaxAttempts
    BY DEF Budget
  <2> QED
    BY <2>1, <2>2, OutboxAssumption
<1> QED
  BY <1>1, <1>2, <1>3, TypeCorrect, PTL DEF Spec, TypeInv
=============================================================================
