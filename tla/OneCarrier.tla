------------------------------ MODULE OneCarrier ------------------------------
(***************************************************************************)
(* What racing several ways to a wallet promises: one of them is chosen,   *)
(* once, and only that one is ever given the request; the call then ends   *)
(* once.  A wallet cannot withdraw a request it was shown, so nothing else *)
(* may send it.  Race (the two transports of a link) and FirstOf (every    *)
(* link over each of its transports) are shown to implement this.          *)
(***************************************************************************)
CONSTANTS Carriers, Nobody

VARIABLES
    chosen,  \* the carrier that was chosen, or Nobody
    sentBy,  \* the carriers that put the request on the wire
    ended    \* whether the call returned

vars == <<chosen, sentBy, ended>>

Init == chosen = Nobody /\ sentBy = {} /\ ended = FALSE

Choose(t) ==
    /\ chosen = Nobody /\ ~ended
    /\ chosen' = t
    /\ UNCHANGED <<sentBy, ended>>

\* Being chosen and sending may be one step.
Send(t) ==
    /\ chosen \in {t, Nobody} /\ ~ended
    /\ chosen' = t
    /\ sentBy' = sentBy \cup {t}
    /\ UNCHANGED ended

End == ~ended /\ ended' = TRUE /\ UNCHANGED <<chosen, sentBy>>

Next == (\E t \in Carriers : Choose(t) \/ Send(t)) \/ End

Spec == Init /\ [][Next]_vars
=============================================================================
