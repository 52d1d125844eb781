------------------------------- MODULE Pairing -------------------------------
(***************************************************************************)
(* One pairing over both transports at once: crates/connect-auto/src       *)
(* (PairingRace of race.rs, pair_with_password_observed of connector.rs).  *)
(* One QR serves both, so the wallet may link over either or over both; a  *)
(* link keeps one, iroh if it links within its grace period.  The select!  *)
(* is biased: an arm is only polled when those above it are pending.       *)
(***************************************************************************)
EXTENDS FiniteSets

CONSTANTS Iroh, Webrtc,  \* the two transports
          Nobody         \* neither of them

Transports == {Iroh, Webrtc}

VARIABLES
    plan,       \* Transports::for_pairing
    attempt,    \* each transport's future: off, running, linked, failed, taken
    reported,   \* whether a step of iroh's waits to be reported
    trying,     \* PairingRace: the transports that have not ended
    failures,   \* PairingRace: those that failed
    overWebrtc, \* PairingRace: the wallet linked over WebRTC, waiting for iroh
    grace,      \* the grace period: off, running, over
    linkedOver, \* the transports the wallet linked over
    kept,       \* the transport the link keeps
    ended       \* how the pairing ended

race == <<trying, failures, overWebrtc>>
vars == <<plan, attempt, reported, race, grace, linkedOver, kept, ended>>

\* MUTANT of Init: both transports run, whatever the QR offers.
BothRun ==
    /\ plan \in {{Iroh, Webrtc}, {Webrtc}, {Iroh}}
    /\ attempt = [t \in Transports |-> "running"]
    /\ reported = FALSE
    /\ trying = Transports /\ failures = {} /\ overWebrtc = FALSE
    /\ grace = "off" /\ linkedOver = {} /\ kept = Nobody /\ ended = "no"

Init ==
    /\ plan \in {{Iroh, Webrtc}, {Webrtc}, {Iroh}}
    /\ attempt = [t \in Transports |-> IF t \in plan THEN "running" ELSE "off"]
    /\ reported = FALSE
    /\ trying = plan /\ failures = {} /\ overWebrtc = FALSE
    /\ grace = "off" /\ linkedOver = {} /\ kept = Nobody /\ ended = "no"

-----------------------------------------------------------------------------
(* PairingRace: what to do next *)

Alone == Cardinality(plan) = 1

Wait    == UNCHANGED <<kept, ended>>
Keep(t) == kept' = t /\ ended' = "linked"
Fail    == ended' = "failed" /\ UNCHANGED kept

\* PairingRace::linked.
Linked(t) ==
    /\ trying' = trying \ {t}
    /\ \/ /\ Alone \/ t = Iroh \/ Iroh \notin trying
          /\ Keep(t) /\ overWebrtc' = FALSE /\ UNCHANGED grace
       \/ /\ ~Alone /\ t = Webrtc /\ Iroh \in trying
          /\ Wait /\ overWebrtc' = TRUE /\ grace' = "running"
    /\ UNCHANGED failures

\* MUTANT of Failed: the wallet waiting over WebRTC is forgotten.
FailedForgetting(t) ==
    /\ trying' = trying \ {t} /\ failures' = failures \cup {t}
    /\ IF trying' = {} THEN Fail ELSE Wait
    /\ UNCHANGED <<overWebrtc, grace>>

\* PairingRace::failed.
Failed(t) ==
    /\ trying' = trying \ {t} /\ failures' = failures \cup {t}
    /\ IF Iroh \notin trying' /\ overWebrtc
       THEN Keep(Webrtc) /\ overWebrtc' = FALSE
       ELSE /\ IF trying' = {} THEN Fail ELSE Wait
            /\ UNCHANGED overWebrtc
    /\ UNCHANGED grace

\* PairingRace::grace_over.
GraceOver ==
    /\ grace' = "off"
    /\ IF overWebrtc THEN Keep(Webrtc) /\ overWebrtc' = FALSE
                     ELSE Wait /\ UNCHANGED overWebrtc
    /\ UNCHANGED <<trying, failures>>

-----------------------------------------------------------------------------
(* The arms of the select!, in order *)

Pending(t) == attempt[t] \notin {"linked", "failed"}

Report ==
    /\ ended = "no" /\ reported
    /\ reported' = FALSE
    /\ UNCHANGED <<plan, attempt, race, grace, linkedOver, kept, ended>>

\* A transport's attempt ended: iroh's is looked at first.
Attempt(t) ==
    /\ ended = "no" /\ ~reported /\ ~Pending(t) /\ (t = Webrtc => Pending(Iroh))
    /\ attempt' = [attempt EXCEPT ![t] = "taken"]
    /\ IF attempt[t] = "linked" THEN Linked(t) ELSE Failed(t)
    /\ UNCHANGED <<plan, reported, linkedOver>>

\* MUTANTS of GraceEnds: its arm comes before the attempts', or there is no
\* timer.
GraceEndsFirst ==
    /\ ended = "no" /\ grace = "over"
    /\ GraceOver
    /\ UNCHANGED <<plan, attempt, reported, linkedOver>>
GraceNeverEnds == FALSE /\ GraceOver /\ UNCHANGED <<plan, attempt, reported, linkedOver>>

GraceEnds ==
    /\ ended = "no" /\ ~reported /\ (\A t \in Transports : Pending(t)) /\ grace = "over"
    /\ GraceOver
    /\ UNCHANGED <<plan, attempt, reported, linkedOver>>

-----------------------------------------------------------------------------
(* The attempts, the timer and the caller *)

\* A step of iroh's to report; it is how far an attempt got, and changes
\* nothing.
IrohSteps ==
    /\ ended = "no" /\ attempt[Iroh] = "running" /\ ~reported
    /\ reported' = TRUE
    /\ UNCHANGED <<plan, attempt, race, grace, linkedOver, kept, ended>>

WalletLinks(t) ==
    /\ ended = "no" /\ attempt[t] = "running"
    /\ attempt' = [attempt EXCEPT ![t] = "linked"]
    /\ linkedOver' = linkedOver \cup {t}
    /\ UNCHANGED <<plan, reported, race, grace, kept, ended>>

AttemptFails(t) ==
    /\ ended = "no" /\ attempt[t] = "running"
    /\ attempt' = [attempt EXCEPT ![t] = "failed"]
    /\ UNCHANGED <<plan, reported, race, grace, linkedOver, kept, ended>>

GraceElapses ==
    /\ ended = "no" /\ grace = "running"
    /\ grace' = "over"
    /\ UNCHANGED <<plan, attempt, reported, race, linkedOver, kept, ended>>

\* The caller drops the future: the attempts are dropped with it.
Drop ==
    /\ ended = "no" /\ ended' = "dropped"
    /\ UNCHANGED <<plan, attempt, reported, race, grace, linkedOver, kept>>

Ended == ended # "no" /\ UNCHANGED vars

Next ==
    \/ Report \/ GraceEnds \/ IrohSteps \/ GraceElapses \/ Drop \/ Ended
    \/ \E t \in Transports : Attempt(t) \/ WalletLinks(t) \/ AttemptFails(t)

Spec == Init /\ [][Next]_vars

\* The runtime polls the pairing, its timer elapses, and WebRTC's attempt is
\* bounded by its timeout.  iroh's is too, but its grace period does not
\* count on it.
FairSpec ==
    /\ Spec
    /\ SF_vars(\E t \in Transports : Attempt(t)) /\ SF_vars(GraceEnds) /\ WF_vars(Report)
    /\ WF_vars(GraceElapses) /\ WF_vars(AttemptFails(Webrtc) \/ WalletLinks(Webrtc))

-----------------------------------------------------------------------------
(* Properties *)

\* Every variable holds a value of its kind.
TypeOK ==
    /\ plan \subseteq Transports /\ trying \subseteq plan /\ failures \subseteq plan
    /\ attempt \in [Transports -> {"off", "running", "linked", "failed", "taken"}]
    /\ reported \in BOOLEAN /\ overWebrtc \in BOOLEAN
    /\ grace \in {"off", "running", "over"}
    /\ linkedOver \subseteq plan /\ kept \in plan \cup {Nobody}
    /\ ended \in {"no", "linked", "failed", "dropped"}

\* A wallet that linked over some transport is never lost: the pairing keeps
\* a transport it linked over, whatever the other one does and when.
NoLinkIsLost == ended \in {"linked", "failed"} /\ linkedOver # {} => kept \in linkedOver

\* iroh is kept whenever the wallet linked over it before the pairing ended.
IrohIsPreferred == ended = "linked" /\ Iroh \in linkedOver => kept = Iroh

\* Pairing fails only when every transport failed.
FailedMeansAll == ended = "failed" => failures = plan

\* A wallet that linked over WebRTC is not kept waiting for iroh for ever.
LinkedPairingEnds == linkedOver # {} ~> ended # "no"
=============================================================================
