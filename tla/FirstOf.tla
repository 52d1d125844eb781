------------------------------- MODULE FirstOf -------------------------------
(***************************************************************************)
(* One request for whichever of a person's phones is opened first:         *)
(* crates/connect-auto/src/first.rs (first_of and its candidates).  Every  *)
(* link races over each of its transports; the first candidate whose       *)
(* wallet connects claims the choice, and it alone sends.  The candidates  *)
(* are futures of one task, so each step of one is atomic.  A phone whose  *)
(* app is in the background is given BACKGROUND_PATIENCE, which ends at    *)
(* any moment here.                                                        *)
(***************************************************************************)
EXTENDS Verdict

CONSTANTS
    Link,        \* the person's links
    PairedOver,  \* the transport each was paired over
    Iroh, Webrtc, Nobody

ASSUME FirstOfAssumption ==
    /\ PairedOver \in [Link -> {Iroh, Webrtc}]
    /\ Iroh # Webrtc

\* Transports::for_link with both transports on: a wallet paired over WebRTC
\* does not speak iroh.
TransportsOf(l) == IF PairedOver[l] = Iroh THEN {Iroh, Webrtc} ELSE {Webrtc}

Candidates   == UNION {{l} \X TransportsOf(l) : l \in Link}
IrohSide     == {c \in Candidates : c[2] = Iroh}
WebrtcSide   == {c \in Candidates : c[2] = Webrtc}
Siblings(c)  == {d \in Candidates : d[1] = c[1]}

ASSUME NobodyAssumption == Nobody \notin Candidates \cup Link

VARIABLES
    choice,       \* the candidate chosen to carry the request
    st,           \* where each candidate's future is
    sentBy,       \* the candidates that put the request on the wire
    confirmed,    \* whether the wallet's confirmation was read
    phone,        \* the request on the chosen phone: none, waiting, decided
    came,         \* the candidate whose transport holds the answer
    early,        \* history: it came to the carrier, which did not listen since
    reaches,      \* how far each candidate that was not chosen got
    chosenFailed, \* the error the chosen candidate ended with
    timeUp,       \* whether the deadline passed
    result        \* what the call returned, and for which link

mail == <<came, early>>
vars == <<choice, st, sentBy, confirmed, phone, mail, reaches, chosenFailed, timeUp, result>>

Waiting == [link |-> Nobody, what |-> "none"]

Init ==
    /\ choice = Nobody
    /\ st = [c \in Candidates |-> IF c[2] = Iroh THEN "probing" ELSE "opening"]
    /\ sentBy = {} /\ confirmed = FALSE /\ phone = "none" /\ came = {} /\ early = FALSE
    /\ reaches = <<>> /\ chosenFailed = "none" /\ timeUp = FALSE
    /\ result = Waiting

-----------------------------------------------------------------------------
(* The loop of first_of *)

Racing == result = Waiting
Moves(c, s) == st' = [st EXCEPT ![c] = s]

\* claim: c is the chosen one, unless another already is.
Claims(c) == choice \in {Nobody, c}

\* MUTANT of Answered: the candidate is returned instead of its link.
AnsweredByCandidate(c) ==
    /\ Racing /\ st[c] = "listening" /\ c \in came
    /\ result' = [link |-> c, what |-> "ok"]
    /\ UNCHANGED <<choice, st, sentBy, confirmed, phone, mail, reaches, chosenFailed, timeUp>>

\* Outcome::Answer: the call returns it, for c's link.
Answered(c) ==
    /\ Racing /\ st[c] = "listening" /\ c \in came
    /\ result' = [link |-> c[1], what |-> "ok"]
    /\ UNCHANGED <<choice, st, sentBy, confirmed, phone, mail, reaches, chosenFailed, timeUp>>

\* Outcome::Lost: another link, or the link's other transport, was chosen.
Stopped(c) ==
    /\ Racing /\ st[c] # "done" /\ choice # Nobody
    /\ IF c \in IrohSide THEN choice \notin Siblings(c) ELSE choice # c
    /\ Moves(c, "done")
    /\ UNCHANGED <<choice, sentBy, confirmed, phone, mail, reaches, chosenFailed, timeUp, result>>

\* MUTANT of EndsWith: a candidate's error is its own even if it was chosen.
EndsLikeOthers(c, reach, error) ==
    /\ Moves(c, "done")
    /\ reaches' = Append(reaches, reach) /\ UNCHANGED chosenFailed

\* A candidate ends with an error: the request's, if it is the chosen one.
EndsWith(c, reach, error) ==
    /\ Moves(c, "done")
    /\ IF choice = c
       THEN chosenFailed' = error /\ UNCHANGED reaches
       ELSE reaches' = Append(reaches, reach) /\ UNCHANGED chosenFailed

\* Every candidate is done: the chosen one's error, or how far each got.
AllDone ==
    /\ Racing /\ \A c \in Candidates : st[c] = "done"
    /\ result' = IF choice # Nobody /\ chosenFailed # "none"
                 THEN [link |-> choice[1], what |-> chosenFailed]
                 ELSE [link |-> Nobody, what |-> Unreachable(reaches)]
    /\ UNCHANGED <<choice, st, sentBy, confirmed, phone, mail, reaches, chosenFailed, timeUp>>

-----------------------------------------------------------------------------
(* webrtc_candidate: Converse, asked whether it is chosen before it sends *)

WebrtcOpens(c) ==
    /\ Racing /\ st[c] = "opening"
    /\ Moves(c, IF choice = c /\ confirmed THEN "listening" ELSE "grace")
    /\ UNCHANGED <<choice, sentBy, confirmed, phone, mail, reaches, chosenFailed, timeUp, result>>

\* MUTANT of WebrtcClaims: it sends without asking.
WebrtcSendsUnasked(c) ==
    /\ Racing /\ st[c] = "grace"
    /\ choice' = IF choice = Nobody THEN c ELSE choice
    /\ Moves(c, "sending")
    /\ sentBy' = sentBy \cup {c}
    /\ UNCHANGED <<confirmed, phone, mail, reaches, chosenFailed, timeUp, result>>

WebrtcClaims(c) ==
    /\ Racing /\ st[c] = "grace" /\ Claims(c)
    /\ choice' = c
    /\ Moves(c, "sending")
    /\ sentBy' = sentBy \cup {c}
    /\ UNCHANGED <<confirmed, phone, mail, reaches, chosenFailed, timeUp, result>>

\* The carrier listens, also for what came while it sent.
Listens(c) == Moves(c, "listening") /\ early' = (early /\ c \notin came)

Confirmed(c) ==
    /\ Racing /\ st[c] = "sending" /\ phone # "none"
    /\ confirmed' = TRUE
    /\ Listens(c)
    /\ UNCHANGED <<choice, sentBy, phone, came, reaches, chosenFailed, timeUp, result>>

\* What the transport of c holds goes with its channel, or with the waiter of
\* its call.
Drops(c) == came' = came \ {c} /\ UNCHANGED early

\* A listening candidate reads the answer before anything else.
Reads(c) == st[c] = "listening" /\ c \in came

\* A resend, or a reconnection to keep listening.
WebrtcReopens(c) ==
    /\ Racing /\ st[c] \in {"sending", "listening"} /\ ~Reads(c) /\ ~timeUp
    /\ Moves(c, "opening") /\ Drops(c)
    /\ UNCHANGED <<choice, sentBy, confirmed, phone, reaches, chosenFailed, timeUp, result>>

WebrtcErrorsIn(c) ==
    CASE st[c] = "opening"   -> {"Signaling", "WebRtc"}
                                \cup (IF c \in sentBy THEN {} ELSE {"LinkBusy"})
                                \cup (IF timeUp THEN {"ChannelTimeout"} ELSE {})
      [] st[c] = "grace"     -> {"LinkRemoved"}
      [] st[c] = "sending"   -> {"ConfirmationTimeout", "WebRtc", "Protocol", "LinkRemoved"}
      [] st[c] = "listening" -> {"WebRtc", "LinkRemoved"}
                                \cup (IF timeUp THEN {"ResponseTimeout"} ELSE {})
      [] OTHER               -> {}

WebrtcFails(c) ==
    /\ Racing /\ ~Reads(c)
    /\ \E e \in WebrtcErrorsIn(c) : EndsWith(c, WebrtcReach[e], FromWebrtc(e))
    /\ Drops(c)
    /\ UNCHANGED <<choice, sentBy, confirmed, phone, timeUp, result>>

-----------------------------------------------------------------------------
(* iroh_candidate *)

\* The wallet connected over iroh, sending nothing; its app may be in the
\* background.
IrohConnects(c) ==
    /\ Racing /\ st[c] = "probing"
    /\ Moves(c, "patient")
    /\ UNCHANGED <<choice, sentBy, confirmed, phone, mail, reaches, chosenFailed, timeUp, result>>

ProbeFails(c) ==
    /\ Racing /\ st[c] = "probing"
    /\ \E e \in {"Session", "LinkBusy", "LinkRemoved"}
                \cup (IF timeUp THEN {"WalletUnreachable"} ELSE {}) :
          EndsWith(c, IrohReach[e], FromIroh(e))
    /\ UNCHANGED <<choice, sentBy, confirmed, phone, mail, timeUp, result>>

\* Chosen, it carries the request.
IrohClaims(c) ==
    /\ Racing /\ st[c] = "patient" /\ Claims(c)
    /\ choice' = c
    /\ Moves(c, "connecting")
    /\ UNCHANGED <<sentBy, confirmed, phone, mail, reaches, chosenFailed, timeUp, result>>

\* MUTANT of IrohListens: it stops, as for any other choice.
IrohStopsToo(c) ==
    /\ Racing /\ st[c] = "patient" /\ choice \in Siblings(c) \ {c}
    /\ Moves(c, "done")
    /\ UNCHANGED <<choice, sentBy, confirmed, phone, mail, reaches, chosenFailed, timeUp, result>>

\* Its link's WebRTC carries it: await_response, the answer may come here.
IrohListens(c) ==
    /\ Racing /\ st[c] = "patient" /\ choice \in Siblings(c) \ {c}
    /\ Moves(c, "listening")
    /\ UNCHANGED <<choice, sentBy, confirmed, phone, mail, reaches, chosenFailed, timeUp, result>>

IrohSends(c) ==
    /\ Racing /\ st[c] = "connecting"
    /\ Moves(c, "sending")
    /\ sentBy' = sentBy \cup {c}
    /\ UNCHANGED <<choice, confirmed, phone, mail, reaches, chosenFailed, timeUp, result>>

\* AfterSend::Uncertain: it may be on the phone, so it is not sent again; the
\* candidate listens, without a confirmation.
IrohUncertain(c) ==
    /\ Racing /\ st[c] = "sending"
    /\ Listens(c)
    /\ UNCHANGED <<choice, sentBy, confirmed, phone, came, reaches, chosenFailed, timeUp,
                   result>>

\* Its session ends, or the deadline comes: the request's error if it
\* carries it, nothing if it only listened.  The deadline of a send does not
\* look at what came meanwhile.
IrohErrorsIn(c) ==
    CASE st[c] = "connecting" -> {"Session", "Closed", "LinkRemoved"}
                                 \cup (IF timeUp THEN {"WalletUnreachable"} ELSE {})
      [] st[c] = "sending"    -> {"Closed"}
                                 \cup (IF phone = "none" THEN {"MessageRefused"} ELSE {})
                                 \cup (IF timeUp THEN {"ConfirmationTimeout"} ELSE {})
      [] st[c] = "listening"  -> {"Closed", "LinkRemoved"}
                                 \cup (IF ~timeUp THEN {}
                                       ELSE IF confirmed THEN {"ResponseTimeout"}
                                            ELSE {"ConfirmationTimeout"})
      [] OTHER                -> {}

IrohFails(c) ==
    /\ Racing /\ ~Reads(c)
    /\ \E e \in IrohErrorsIn(c) :
          IF choice = c THEN EndsWith(c, IrohReach[e], FromIroh(e))
                        ELSE Moves(c, "done") /\ UNCHANGED <<reaches, chosenFailed>>
    /\ Drops(c)
    /\ UNCHANGED <<choice, sentBy, confirmed, phone, timeUp, result>>

-----------------------------------------------------------------------------
(* The chosen phone's wallet, and time *)

WalletReceives ==
    /\ Racing /\ phone = "none" /\ choice \in Candidates /\ st[choice] = "sending"
    /\ phone' = "waiting"
    /\ UNCHANGED <<choice, st, sentBy, confirmed, mail, reaches, chosenFailed, timeUp, result>>

\* Where a candidate's transport is up, and takes what the wallet sends; a
\* WebRTC one that is not the carrier is dropped as the carrier is chosen.
Up(c) ==
    \/ c \in IrohSide /\ st[c] \in {"patient", "sending", "listening"}
    \/ c = choice /\ c \in WebrtcSide /\ st[c] \in {"grace", "sending", "listening"}

\* The person decides: the answer goes over a transport of the phone that is
\* connected, not only the one that carried the request, and on the carrier
\* it may come before the confirmation.
WalletAnswers ==
    /\ Racing /\ phone = "waiting"
    /\ \E c \in Siblings(choice) :
          /\ Up(c) /\ came' = {c}
          /\ early' = (choice = c /\ st[c] # "listening")
    /\ phone' = "decided"
    /\ UNCHANGED <<choice, st, sentBy, confirmed, reaches, chosenFailed, timeUp, result>>

TimeUp ==
    /\ Racing /\ ~timeUp /\ timeUp' = TRUE
    /\ UNCHANGED <<choice, st, sentBy, confirmed, phone, mail, reaches, chosenFailed, result>>

Ended == ~Racing /\ UNCHANGED vars

CandidateStep(c) ==
    \/ Answered(c) \/ Stopped(c)
    \/ c \in WebrtcSide /\ (WebrtcOpens(c) \/ WebrtcClaims(c) \/ WebrtcReopens(c) \/ WebrtcFails(c))
    \/ c \in IrohSide /\ (\/ IrohConnects(c) \/ ProbeFails(c) \/ IrohClaims(c)
                          \/ IrohListens(c) \/ IrohSends(c) \/ IrohUncertain(c)
                          \/ IrohFails(c))
    \/ Confirmed(c)

Next ==
    \/ \E c \in Candidates : CandidateStep(c)
    \/ AllDone \/ WalletReceives \/ WalletAnswers \/ TimeUp \/ Ended

Spec == Init /\ [][Next]_vars

\* The runtime polls every candidate and the loop, and the deadline comes.
FairSpec == Spec /\ (\A c \in Candidates : WF_vars(CandidateStep(c)))
                 /\ WF_vars(AllDone) /\ WF_vars(TimeUp)

-----------------------------------------------------------------------------
(* Properties *)

Stages == {"opening", "grace", "probing", "patient", "connecting", "sending", "listening", "done"}

\* Every variable holds a value of its kind.
TypeOK ==
    /\ choice \in Candidates \cup {Nobody}
    /\ st \in [Candidates -> Stages]
    /\ sentBy \subseteq Candidates /\ came \subseteq Candidates
    /\ confirmed \in BOOLEAN /\ timeUp \in BOOLEAN /\ early \in BOOLEAN
    /\ phone \in {"none", "waiting", "decided"}
    /\ reaches \in Seq(Reaches)
    /\ chosenFailed \in Errors \cup {"none"}
    /\ result \in [link : Link \cup {Nobody}, what : Errors \cup {"none", "ok"}]

\* Of all the links and their transports, the request is only ever put on the
\* one that was chosen: a wallet cannot withdraw a request it was shown.
Carried == INSTANCE OneCarrier WITH
               Carriers <- Candidates, chosen <- choice, sentBy <- sentBy,
               ended <- ~Racing
OneCarries == Carried!Spec

\* Once a candidate was chosen, the call answers for its link, with what that
\* one ended with: never with another link's answer or failure.
TheChosenAnswers ==
    ~Racing /\ choice # Nobody => result.link = choice[1]

\* The chosen phone's answer is what the call returns, over whichever of its
\* transports it came and whatever failed meanwhile.  Only one that came to
\* the carrier while it sent, and to which it never listened since, can be
\* lost: the deadline around a send, or a resend on another channel, leaves
\* it unread.
NoAnswerIsLost == ~Racing /\ phone = "decided" => result.what = "ok" \/ early

\* The call returns.
CallReturns == <>(~Racing)
=============================================================================
