------------------------------ MODULE MCOutbox ------------------------------
(* Instances of Outbox: a participant's message m, and a send of the bridge  *)
(* whose echo may come back under the identities pn and lid.                 *)
EXTENDS Outbox, TLC

CONSTANTS pn, lid

MCSends == {{pn, lid}}
NoSends == {}
=============================================================================
