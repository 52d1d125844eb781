--------------------------------- MODULE Race ---------------------------------
(***************************************************************************)
(* One request over a link's transports: crates/connect-auto/src           *)
(* (exchange_over, race, over_webrtc, over_iroh of connector.rs, and       *)
(* CarrierRace of race.rs).  The race is ONE task whose biased select!     *)
(* polls its arms in order, so WebRTC's conversation, which is never asked *)
(* whether it may send, only advances when every arm above it is pending.  *)
(* Converse models that conversation in full; here it is how it looks to   *)
(* the race.  `timeUp` is the race's deadline, and the deadlines of the    *)
(* futures it started are at or after it.                                  *)
(***************************************************************************)
EXTENDS Verdict

CONSTANTS Iroh, Webrtc,  \* the two transports
          Nobody         \* neither of them

Transports == {Iroh, Webrtc}

VARIABLES
    plan,      \* Transports::for_link: the transports the link may use
    connected, \* whether iroh is connected to the wallet
    task,      \* where the call is
    carrier,   \* CarrierRace: the transport that carries the request
    failed,    \* CarrierRace: those that failed before carrying anything
    reaches,   \* how far each of those got, in order
    probe,     \* iroh_ready: the future waiting for the wallet over iroh
    answer,    \* iroh_answer: the future listening for the answer over iroh
    webrtc,    \* WebRTC's conversation
    unread,    \* whether its ChannelOpen waits in `stepped`
    iroh,      \* the exchange of over_iroh
    ownError,  \* the error WebRTC's conversation ended with, as the carrier
    sentOver,  \* the transports the request was put on
    confirmed, \* whether the carrier reported Delivered
    phone,     \* the request on the phone: none, waiting or decided
    came,      \* the transport that holds the wallet's answer
    early,     \* history: it came to the carrier, which did not listen since
    timeUp,    \* whether the deadline passed
    outcome    \* what the call returned

wire == <<sentOver, confirmed, phone, came, early>>
vars == <<plan, connected, task, carrier, failed, reaches, probe, answer, webrtc,
          unread, iroh, ownError, wire, timeUp, outcome>>

Init ==
    /\ plan \in {{Iroh, Webrtc}, {Webrtc}, {Iroh}}
    /\ connected \in (IF Iroh \in plan THEN BOOLEAN ELSE {FALSE})
    /\ task = "begin" /\ carrier = Nobody /\ failed = {} /\ reaches = <<>>
    /\ probe = "gone" /\ answer = "gone" /\ webrtc = "gone" /\ unread = FALSE
    /\ iroh = "gone" /\ ownError = "none"
    /\ sentOver = {} /\ confirmed = FALSE /\ phone = "none" /\ came = {}
    /\ early = FALSE /\ timeUp = FALSE /\ outcome = "none"

-----------------------------------------------------------------------------
(* CarrierRace *)

\* CarrierRace::ready: whether t carries the request, being the first.
Ready(t) == carrier = Nobody /\ t \notin failed

\* MUTANT of OthersTry: the first failure is the race's.
NobodyElseTries(t) == FALSE /\ t \in Transports

\* CarrierRace::failed: whether another transport is still trying.
OthersTry(t) == plan \ (failed \cup {t}) # {}

Return(r) == task' = "returned" /\ outcome' = r

\* A transport failed before carrying anything: it leaves the other, or the
\* call fails with how far each got.
Lost(t, reach) ==
    /\ failed' = failed \cup {t}
    /\ reaches' = Append(reaches, reach)
    /\ IF OthersTry(t) THEN UNCHANGED <<task, outcome>>
                       ELSE Return(Unreachable(Append(reaches, reach)))

-----------------------------------------------------------------------------
(* Starting *)

\* exchange_over and the first lines of race: one transport, or iroh already
\* connected, carries the request at once; otherwise both are started.
Begin ==
    /\ task = "begin"
    /\ \/ /\ plan = {Webrtc}
          /\ task' = "overWebrtc" /\ carrier' = Webrtc /\ webrtc' = "opening"
          /\ UNCHANGED <<probe, iroh>>
       \/ /\ plan = {Iroh} \/ (plan = Transports /\ connected)
          /\ task' = "overIroh" /\ carrier' = Iroh /\ iroh' = "connecting"
          /\ UNCHANGED <<probe, webrtc>>
       \/ /\ plan = Transports /\ ~connected
          /\ task' = "racing" /\ probe' = "running" /\ webrtc' = "opening"
          /\ UNCHANGED <<carrier, iroh>>
    /\ UNCHANGED <<plan, connected, failed, reaches, answer, unread, ownError, wire,
                   timeUp, outcome>>

-----------------------------------------------------------------------------
(* The arms of the race, in their order *)

ProbeReady  == probe \notin {"running", "gone"}
AnswerReady == answer = "listening" /\ Iroh \in came

\* MUTANT of Polled: the arms are polled in any order.
PolledAnyhow == task \in {"overWebrtc", "racing"}

\* WebRTC's conversation is polled: it is the only one, or every arm above
\* it is pending.
Polled ==
    \/ task = "overWebrtc"
    \/ task = "racing" /\ ~ProbeReady /\ ~AnswerReady /\ ~unread

\* 1. iroh is ready first: WebRTC is dropped, over_iroh carries the request.
IrohFirst ==
    /\ task = "racing" /\ probe = "ok" /\ Ready(Iroh)
    /\ carrier' = Iroh /\ task' = "overIroh" /\ iroh' = "connecting"
    /\ probe' = "gone" /\ webrtc' = "gone" /\ unread' = FALSE
    /\ UNCHANGED <<plan, connected, failed, reaches, answer, ownError, wire, timeUp, outcome>>

\* WebRTC carries it: the answer may come over iroh.
IrohListens ==
    /\ task = "racing" /\ probe = "ok" /\ ~Ready(Iroh)
    /\ probe' = "gone" /\ answer' = "listening"
    /\ UNCHANGED <<plan, connected, task, carrier, failed, reaches, webrtc, unread, iroh,
                   ownError, wire, timeUp, outcome>>

IrohFails ==
    /\ task = "racing" /\ probe \in IrohErrors
    /\ probe' = "gone"
    /\ \/ /\ probe = "LinkRemoved"
          /\ Return("LinkRemoved") /\ webrtc' = "gone" /\ UNCHANGED <<failed, reaches>>
       \/ /\ probe # "LinkRemoved" /\ carrier = Nobody
          /\ Lost(Iroh, IrohReach[probe]) /\ UNCHANGED webrtc
       \/ /\ probe # "LinkRemoved" /\ carrier # Nobody
          /\ UNCHANGED <<task, outcome, failed, reaches, webrtc>>
    /\ UNCHANGED <<plan, connected, carrier, answer, unread, iroh, ownError, wire, timeUp>>

\* 2. The answer over iroh; its session may also end.
IrohAnswers ==
    /\ task = "racing" /\ ~ProbeReady /\ answer = "listening"
    /\ answer' = "gone"
    /\ \/ AnswerReady /\ Return("ok") /\ UNCHANGED connected
       \/ ~AnswerReady /\ connected' = FALSE /\ UNCHANGED <<task, outcome>>
    /\ UNCHANGED <<plan, carrier, failed, reaches, probe, webrtc, unread, iroh,
                   ownError, wire, timeUp>>

\* 3. WebRTC's channel opened: it carries the request, if it is the first.
ReadStep ==
    /\ task = "racing" /\ ~ProbeReady /\ ~AnswerReady /\ unread
    /\ unread' = FALSE
    /\ carrier' = IF Ready(Webrtc) THEN Webrtc ELSE carrier
    /\ UNCHANGED <<plan, connected, task, failed, reaches, probe, answer, webrtc, iroh,
                   ownError, wire, timeUp, outcome>>

\* 4. WebRTC's conversation advances: its channel opens, ...
WebrtcOpens ==
    /\ Polled /\ webrtc = "opening"
    /\ webrtc' = IF confirmed THEN "listening" ELSE "grace"
    /\ unread' = (task = "racing")
    /\ UNCHANGED <<plan, connected, task, carrier, failed, reaches, probe, answer, iroh,
                   ownError, wire, timeUp, outcome>>

\* ... after SEND_GRACE it sends, ...
WebrtcSends ==
    /\ Polled /\ webrtc = "grace"
    /\ webrtc' = "sending" /\ sentOver' = sentOver \cup {Webrtc}
    /\ UNCHANGED <<plan, connected, task, carrier, failed, reaches, probe, answer, unread,
                   iroh, ownError, confirmed, phone, came, early, timeUp, outcome>>

\* Over t, it listens also for what came while it sent.
HearsFrom(t) == early' = (early /\ t \notin came)

WebrtcConfirmed ==
    /\ Polled /\ webrtc = "sending" /\ phone # "none"
    /\ webrtc' = "listening" /\ confirmed' = TRUE /\ HearsFrom(Webrtc)
    /\ UNCHANGED <<plan, connected, task, carrier, failed, reaches, probe, answer, unread,
                   iroh, ownError, sentOver, phone, came, timeUp, outcome>>

\* The answer is read as soon as it listens; what a channel holds before
\* goes with it.
WebrtcAnswered == webrtc = "listening" /\ Webrtc \in came
WebrtcDrops == came' = came \ {Webrtc} /\ UNCHANGED <<sentOver, confirmed, phone, early>>

\* ... it resends or reconnects on another channel, ...
WebrtcReopens ==
    /\ Polled /\ webrtc \in {"sending", "listening"} /\ ~WebrtcAnswered /\ ~timeUp
    /\ webrtc' = "opening" /\ WebrtcDrops
    /\ UNCHANGED <<plan, connected, task, carrier, failed, reaches, probe, answer, unread,
                   iroh, ownError, timeUp, outcome>>

\* How it may fail, wherever it is.
WebrtcErrorsNow ==
    CASE webrtc = "opening"   -> {"Signaling", "SignalingClosed", "WebRtc", "Crypto"}
                                 \cup (IF sentOver = {} THEN {"LinkBusy"} ELSE {})
                                 \cup (IF timeUp THEN {"ChannelTimeout"} ELSE {})
      [] webrtc = "grace"     -> {"LinkRemoved"}
      [] webrtc = "sending"   -> {"ConfirmationTimeout", "SignalingClosed", "WebRtc",
                                  "Protocol", "LinkRemoved"}
      [] webrtc = "listening" -> IF WebrtcAnswered THEN {}
                                 ELSE {"WebRtc", "LinkRemoved"}
                                      \cup (IF timeUp THEN {"ResponseTimeout"} ELSE {})
      [] OTHER                -> {}

\* ... or it ends: with the answer, ...
WebrtcAnswers ==
    /\ Polled /\ WebrtcAnswered
    /\ webrtc' = "gone" /\ Return("ok")
    /\ UNCHANGED <<plan, connected, carrier, failed, reaches, probe, answer, unread, iroh,
                   ownError, wire, timeUp>>

\* ... or an error: the request's, if it carried it, unless the answer is
\* coming over iroh; ...
CarrierFails(e) ==
    \/ /\ task = "overWebrtc" \/ (carrier = Webrtc /\ answer = "gone")
       /\ Return(FromWebrtc(e))
       /\ UNCHANGED <<ownError, failed, reaches>>
    \/ /\ task = "racing" /\ carrier = Webrtc /\ answer = "listening"
       /\ task' = "awaitingIroh" /\ ownError' = e
       /\ UNCHANGED <<outcome, failed, reaches>>

\* ... otherwise how far WebRTC got.
RacerFails(e) ==
    /\ task = "racing" /\ carrier # Webrtc
    /\ IF e = "LinkRemoved"
       THEN Return("LinkRemoved") /\ UNCHANGED <<failed, reaches>>
       ELSE Lost(Webrtc, WebrtcReach[e])
    /\ UNCHANGED ownError

WebrtcFails ==
    /\ Polled
    /\ \E e \in WebrtcErrorsNow : CarrierFails(e) \/ RacerFails(e)
    /\ webrtc' = "gone" /\ unread' = FALSE /\ WebrtcDrops
    /\ UNCHANGED <<plan, connected, carrier, probe, answer, iroh, timeUp>>

\* MUTANT of AwaitIroh: WebRTC's error is returned whatever came.
AwaitInVain ==
    /\ task = "awaitingIroh"
    /\ Return(FromWebrtc(ownError))
    /\ answer' = "gone"
    /\ UNCHANGED <<plan, connected, carrier, failed, reaches, probe, webrtc, unread, iroh,
                   ownError, wire, timeUp>>

\* timeout_at(deadline, iroh_answer), after WebRTC's error.
AwaitIroh ==
    /\ task = "awaitingIroh"
    /\ Return(IF Iroh \in came THEN "ok" ELSE FromWebrtc(ownError))
    /\ answer' = "gone"
    /\ UNCHANGED <<plan, connected, carrier, failed, reaches, probe, webrtc, unread, iroh,
                   ownError, wire, timeUp>>

\* MUTANT of StillTrying: none is counted.
NotCounted == <<>>

\* The transports still trying at the deadline got out to the network and
\* found no wallet.
StillTrying ==
    (IF probe # "gone" /\ Iroh \notin failed THEN <<"Absent">> ELSE <<>>) \o
    (IF webrtc # "gone" /\ Webrtc \notin failed THEN <<"Absent">> ELSE <<>>)

\* MUTANT of Deadline: the race has none of its own.
NoDeadline == task = "racing" /\ FALSE /\ UNCHANGED vars

\* 5. The deadline, when every arm above it is pending.
Deadline ==
    /\ task = "racing" /\ timeUp /\ Polled /\ ~WebrtcAnswered
    /\ reaches' = reaches \o StillTrying
    /\ Return(Unreachable(reaches \o StillTrying))
    /\ UNCHANGED <<plan, connected, carrier, failed, probe, answer, webrtc, unread, iroh,
                   ownError, wire, timeUp>>

-----------------------------------------------------------------------------
(* over_iroh: the exchange over iroh, once it carries the request *)

IrohSends ==
    /\ task = "overIroh" /\ iroh = "connecting"
    /\ iroh' = "sending" /\ sentOver' = sentOver \cup {Iroh} /\ connected' = TRUE
    /\ UNCHANGED <<plan, task, carrier, failed, reaches, probe, answer, webrtc,
                   unread, ownError, confirmed, phone, came, early, timeUp, outcome>>

IrohConfirmed ==
    /\ task = "overIroh" /\ iroh = "sending" /\ phone # "none"
    /\ iroh' = "listening" /\ confirmed' = TRUE /\ HearsFrom(Iroh)
    /\ UNCHANGED <<plan, connected, task, carrier, failed, reaches, probe, answer, webrtc,
                   unread, ownError, sentOver, phone, came, timeUp, outcome>>

\* AfterSend::Uncertain: it may be on the phone, so it is not sent again; it
\* listens, without a confirmation.
IrohUncertain ==
    /\ task = "overIroh" /\ iroh = "sending"
    /\ iroh' = "listening" /\ HearsFrom(Iroh)
    /\ UNCHANGED <<plan, connected, task, carrier, failed, reaches, probe, answer, webrtc,
                   unread, ownError, sentOver, confirmed, phone, came, timeUp, outcome>>

IrohErrorsNow ==
    CASE iroh = "connecting" -> {"Session", "LinkBusy", "Closed", "LinkRemoved"}
                                \cup (IF timeUp THEN {"WalletUnreachable"} ELSE {})
      [] iroh = "sending"    -> {"Closed"}
                                \cup (IF phone = "none" THEN {"MessageRefused"} ELSE {})
                                \cup (IF timeUp THEN {"ConfirmationTimeout"} ELSE {})
      [] OTHER               -> {"LinkRemoved", "Closed"}
                                \cup (IF ~timeUp THEN {}
                                      ELSE IF confirmed THEN {"ResponseTimeout"}
                                           ELSE {"ConfirmationTimeout"})

\* Listening, it reads the answer before anything else.
IrohAnswered == iroh = "listening" /\ Iroh \in came

\* It ends; the deadline of its send does not look at what came meanwhile.
IrohEnds ==
    /\ task = "overIroh"
    /\ IF IrohAnswered THEN Return("ok") ELSE \E e \in IrohErrorsNow : Return(FromIroh(e))
    /\ iroh' = "gone"
    /\ UNCHANGED <<plan, connected, carrier, failed, reaches, probe, answer, webrtc, unread,
                   ownError, wire, timeUp>>

-----------------------------------------------------------------------------
(* The wallet, and time *)

\* iroh's session connects to the wallet, or fails: the probe is ready.
ProbeEnds ==
    /\ probe = "running" /\ task = "racing"
    /\ \/ probe' = "ok" /\ connected' = TRUE
       \/ /\ probe' \in {"Session", "InvalidRelayUrl", "LinkBusy", "LinkRemoved", "Closed"}
                        \cup (IF timeUp THEN {"WalletUnreachable"} ELSE {})
          /\ UNCHANGED connected
    /\ UNCHANGED <<plan, task, carrier, failed, reaches, answer, webrtc, unread, iroh,
                   ownError, wire, timeUp, outcome>>

WalletReceives ==
    /\ phone = "none" /\ "sending" \in {webrtc, iroh} /\ task # "returned"
    /\ phone' = "waiting"
    /\ UNCHANGED <<plan, connected, task, carrier, failed, reaches, probe, answer, webrtc,
                   unread, iroh, ownError, sentOver, confirmed, came, early, timeUp, outcome>>

\* The person decides: the answer goes over a transport that is connected,
\* and on the carrier it may come before the confirmation.
WalletAnswers ==
    /\ phone = "waiting" /\ task # "returned"
    /\ phone' = "decided"
    /\ \/ /\ webrtc \in {"grace", "sending", "listening"} /\ came' = {Webrtc}
          /\ early' = (webrtc # "listening")
       \/ connected /\ came' = {Iroh} /\ early' = (iroh = "sending")
    /\ UNCHANGED <<plan, connected, task, carrier, failed, reaches, probe, answer, webrtc,
                   unread, iroh, ownError, sentOver, confirmed, timeUp, outcome>>

TimeUp ==
    /\ ~timeUp /\ task # "returned" /\ timeUp' = TRUE
    /\ UNCHANGED <<plan, connected, task, carrier, failed, reaches, probe, answer, webrtc,
                   unread, iroh, ownError, wire, outcome>>

Ended == task = "returned" /\ UNCHANGED vars

Call ==
    \/ Begin \/ IrohFirst \/ IrohListens \/ IrohFails \/ IrohAnswers \/ ReadStep
    \/ WebrtcOpens \/ WebrtcSends \/ WebrtcConfirmed \/ WebrtcReopens
    \/ WebrtcAnswers \/ WebrtcFails \/ AwaitIroh \/ Deadline
    \/ IrohSends \/ IrohConfirmed \/ IrohUncertain \/ IrohEnds

Next == Call \/ ProbeEnds \/ WalletReceives \/ WalletAnswers \/ TimeUp \/ Ended

Spec == Init /\ [][Next]_vars

\* The runtime polls the call, and the deadline comes.
FairSpec == Spec /\ WF_vars(Call) /\ WF_vars(TimeUp)

-----------------------------------------------------------------------------
(* Properties *)

\* Every variable holds a value of its kind.
TypeOK ==
    /\ plan \subseteq Transports /\ connected \in BOOLEAN
    /\ task \in {"begin", "racing", "overWebrtc", "overIroh", "awaitingIroh", "returned"}
    /\ carrier \in Transports \cup {Nobody}
    /\ failed \subseteq Transports
    /\ \A i \in DOMAIN reaches : reaches[i] \in Reaches
    /\ Len(reaches) <= 2
    /\ probe \in {"running", "ok", "gone"} \cup IrohErrors
    /\ answer \in {"listening", "gone"}
    /\ webrtc \in {"opening", "grace", "sending", "listening", "gone"}
    /\ iroh \in {"connecting", "sending", "listening", "gone"}
    /\ unread \in BOOLEAN /\ confirmed \in BOOLEAN /\ early \in BOOLEAN /\ timeUp \in BOOLEAN
    /\ ownError \in WebrtcErrors \cup {"none"}
    /\ sentOver \subseteq Transports /\ came \subseteq Transports
    /\ phone \in {"none", "waiting", "decided"}
    /\ outcome \in Errors \cup {"none", "ok"}

\* The request is only ever put on the transport that was chosen to carry
\* it, although WebRTC's conversation never asks whether it may send: the
\* wallet never gets it over both.
Carried == INSTANCE OneCarrier WITH
               Carriers <- Transports, chosen <- carrier, sentBy <- sentOver,
               ended <- (task = "returned")
OneCarries == Carried!Spec

\* Before the deadline the call does not fail while a transport is still
\* trying, unless the wallet said that it removed the link.
AFailureLeavesTheOther ==
    task = "returned" /\ carrier = Nobody /\ ~timeUp =>
        outcome = "LinkRemoved" \/ failed = plan

\* "No network" is only told when every transport of the link failed for
\* want of one: one that connected, or was still trying at the deadline, did
\* get out.
NoNetworkIsExact ==
    task = "returned" /\ outcome = "NoNetwork" /\ carrier = Nobody =>
        /\ ~connected /\ failed = plan
        /\ \A i \in DOMAIN reaches : reaches[i] = "NoNetwork"

\* The wallet's answer is what the call returns, over whichever transport it
\* came and whatever failed meanwhile, unless the wallet said over the other
\* that it removed the link.  Otherwise only one that came to the carrier
\* while it sent, and to which it never listened since, can be lost: the
\* deadline around a send, or a resend on another channel, leaves it unread.
NoAnswerIsLost ==
    task = "returned" /\ phone = "decided" => outcome \in {"ok", "LinkRemoved"} \/ early

\* The call returns.
CallReturns == <>(task = "returned")

-----------------------------------------------------------------------------
(* What comments of the code say, and the code does not always do *)

\* error.rs, WalletUnreachable: "Nothing was sent."  Told at the deadline
\* of a race, it means that no transport sent anything.
DeadlineMeansNothingSent ==
    task = "returned" /\ outcome = "WalletUnreachable" /\ webrtc # "gone" => sentOver = {}
=============================================================================
