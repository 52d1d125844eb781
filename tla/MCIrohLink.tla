---------------------------- MODULE MCIrohLink ----------------------------
(* A pairing and two calls after it, of every kind that may meet.         *)
EXTENDS IrohLink, TLC
CONSTANTS Ask, Other, A, B
Exchange(i) == [kind |-> "exchange", id |-> i]
Await(i) == [kind |-> "await", id |-> i]
Notice == [kind |-> "notice", id |-> A]
McScenarios == {(Ask :> Exchange(A)) @@ (Other :> o) :
                   o \in {Exchange(A), Exchange(B), Await(A), Notice}}
=============================================================================
