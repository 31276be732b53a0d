---------------------------- MODULE MCChatWorker ----------------------------
(* Instances of ChatWorker for TLC. *)
EXTENDS ChatWorker, TLC

\* Event 2 is the echo of the first send of event 1; other events are participants'.
MCEcho == [e \in 1..MaxSeq |-> IF e = 2 THEN <<1, 1>> ELSE NoSend]

Symmetry == Permutations(Process)
=============================================================================
