--------------------------- MODULE MCEvidenceIndex ---------------------------
(* Instances of EvidenceIndex for TLC. *)
EXTENDS EvidenceIndex, TLC

CONSTANTS p1, p2, c1, c2

\* One process serving two chats, or two that overlap on one.
Deployed == {[p \in Process |-> IF p = p1 THEN {c1, c2} ELSE {}],
             [p \in Process |-> {c1}]}
=============================================================================
