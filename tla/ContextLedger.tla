--------------------------- MODULE ContextLedger ---------------------------
(***************************************************************************)
(* What compaction promises about one chat: the agent's context is         *)
(* replaced as a whole or not at all.  Every turn runs once, in sequence,  *)
(* on the history since a restored checkpoint, never an older one than a   *)
(* turn before it had, and an abandoned checkpoint leaves no trace.        *)
(*                                                                         *)
(* The checkpoint a turn runs on is the one restored last, but for a turn  *)
(* whose session was loaded before that checkpoint's entry was written:    *)
(* after such a turn the chat neither turns nor compacts again.            *)
(***************************************************************************)
EXTENDS Integers

CONSTANTS MaxSeq,        \* events of the chat
          MaxCheckpoints \* checkpoints that may be made

VARIABLES context,  \* checkpoint restored last, 0 for none
          told,     \* told[e]: the checkpoint e's turn ran on, -1 if it has not run
          due       \* due[e]: the one that had been restored last by then

Event == 1..MaxSeq

\* Some turns may already be in a history nothing was cut from.
Init ==
  /\ context = 0
  /\ \E s \in 0..MaxSeq : told = [e \in Event |-> IF e > s THEN -1 ELSE 0]
  /\ due = told

\* A turn ran on less than what had been restored.
Behind == told # due

\* A new checkpoint takes the place of the history before it.
Replace ==
  /\ ~Behind
  /\ \E c \in context+1 .. MaxCheckpoints : context' = c
  /\ UNCHANGED <<told, due>>

\* The turn of event e, after those of the events before it.
Turn(e) ==
  /\ ~Behind
  /\ told[e] = -1
  /\ \A d \in e+1 .. MaxSeq : told[d] = -1
  /\ \E c \in 0..context :
       /\ \A d \in Event : told[d] <= c
       /\ told' = [told EXCEPT ![e] = c]
  /\ due' = [due EXCEPT ![e] = context]
  /\ UNCHANGED context

Next == Replace \/ \E e \in Event : Turn(e)

Spec == Init /\ [][Next]_<<context, told, due>>
=============================================================================
