------------------------------- MODULE MCOutbox -------------------------------
(* The connector processes and requests of Outbox for TLC. *)
EXTENDS Outbox, TLC

CONSTANTS p1, p2, r1, r2

None == {}
NoOne == <<>>
OneProcess   == {p1}
TwoProcesses == {p1, p2}
OneRequest   == {r1}
TwoRequests  == {r1, r2}
AllFromOne   == [r \in Request |-> p1]
AllFromTwo   == [r \in Request |-> p2]
FromEach     == r1 :> p1 @@ r2 :> p2
FirstFromTwo == r1 :> p2
=============================================================================
