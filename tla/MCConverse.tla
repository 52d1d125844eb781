------------------------------ MODULE MCConverse ------------------------------
(* Small instances of Converse and CallVerdict for TLC. *)
EXTENDS CallVerdict, TLC

CONSTANTS c1, c2, c3, p1, p2

TwoConvs   == {c1, c2}
ThreeConvs == {c1, c2, c3}
TwoProcs   == {p1, p2}
Apart      == [c \in Conv |-> IF c = c2 THEN p2 ELSE p1]
Itself     == [c \in Conv |-> c]
TheFirst   == [c \in Conv |-> c1]

RacingAndRequest == c1 :> "racing" @@ c2 :> "request"
EachOther        == c1 :> "notice" @@ c2 :> "listen" @@ c3 :> "probe"
=============================================================================
