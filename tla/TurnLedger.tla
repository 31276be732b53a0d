----------------------------- MODULE TurnLedger -----------------------------
(***************************************************************************)
(* What the session controller promises about one chat, with no process,   *)
(* lease, journal or file in sight: events are done strictly in sequence,  *)
(* each is given to the agent at most once, a send happens only in the     *)
(* turn of the event being worked, and closing an event records exactly    *)
(* the sends its turn made.                                                *)
(***************************************************************************)
EXTENDS Integers

CONSTANTS MaxSeq, Send   \* a send is a pair <<event, n>>

VARIABLES done,      \* events 1 .. done are closed
          started,   \* events whose turn was started
          sent,      \* sends executed
          recorded   \* sends that closing their event recorded

ledger == <<done, started, sent, recorded>>

Init == done = 0 /\ started = {} /\ sent = {} /\ recorded = {}

StartTurn ==
  /\ done < MaxSeq /\ done + 1 \notin started
  /\ started' = started \cup {done + 1}
  /\ UNCHANGED <<done, sent, recorded>>

ExecuteSend(a) ==
  /\ a[1] = done + 1 /\ a[1] \in started /\ a \notin sent
  /\ sent' = sent \cup {a}
  /\ UNCHANGED <<done, started, recorded>>

\* Closing needs no turn: an own echo is closed without one.
CloseEvent ==
  /\ done < MaxSeq
  /\ done' = done + 1
  /\ recorded' = sent
  /\ UNCHANGED <<started, sent>>

Next == StartTurn \/ CloseEvent \/ \E a \in Send : ExecuteSend(a)

Spec == Init /\ [][Next]_ledger
=============================================================================
