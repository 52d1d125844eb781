------------------------------- MODULE Verdict -------------------------------
(***************************************************************************)
(* What a transport's failure says about the phone, and the one error a    *)
(* caller gets: crates/connect-auto/src/error.rs.                          *)
(***************************************************************************)
EXTENDS Naturals, Sequences

Reached == {"NoNetwork", "Absent"}

\* Error::reach_webrtc: how far a WebRTC failure says the request got.
WebrtcReach ==
    [Signaling           |-> "NoNetwork",
     SignalingClosed     |-> "NoNetwork",
     ChannelTimeout      |-> "Absent",
     ConfirmationTimeout |-> "NotConfirmed",
     ResponseTimeout     |-> "NoAnswer",
     WalletRejected      |-> "WalletRejected",
     LinkRemoved         |-> "LinkRemoved",
     LinkBusy            |-> "LinkBusy",
     WebRtc              |-> "Failed",
     Crypto              |-> "Failed",
     Protocol            |-> "Failed"]

\* Error::reach_iroh: the same for an iroh failure.
IrohReach ==
    [WalletUnreachable   |-> "Absent",
     Session             |-> "NoNetwork",
     InvalidRelayUrl     |-> "NoNetwork",
     ConfirmationTimeout |-> "NotConfirmed",
     ResponseTimeout     |-> "NoAnswer",
     WalletRejected      |-> "WalletRejected",
     LinkRemoved         |-> "LinkRemoved",
     LinkBusy            |-> "LinkBusy",
     InvalidPassword     |-> "InvalidLink",
     Closed              |-> "Failed",
     MessageRefused      |-> "Failed",
     MessageTooLarge     |-> "Failed"]

WebrtcErrors == DOMAIN WebrtcReach
IrohErrors   == DOMAIN IrohReach
Reaches      == {WebrtcReach[e] : e \in WebrtcErrors} \cup {IrohReach[e] : e \in IrohErrors}
Errors       == (Reaches \ Reached) \cup {"NoNetwork", "WalletUnreachable"}

\* Error::unreachable: the first final error among how far each transport
\* got; no network only when none of them had any.
Unreachable(reaches) ==
    LET final == {i \in DOMAIN reaches : reaches[i] \notin Reached}
    IN  IF final # {}
        THEN reaches[CHOOSE i \in final : \A j \in final : i <= j]
        ELSE IF reaches # <<>> /\ \A i \in DOMAIN reaches : reaches[i] = "NoNetwork"
             THEN "NoNetwork"
             ELSE "WalletUnreachable"

\* Error::from_webrtc and Error::from_iroh: the failure of the transport
\* that carried the request.
FromWebrtc(e) == Unreachable(<<WebrtcReach[e]>>)
FromIroh(e)   == Unreachable(<<IrohReach[e]>>)

\* The errors whose documentation says that nothing was sent.
NothingSent == {"NoNetwork", "WalletUnreachable", "LinkBusy"}

\* Error::may_be_on_the_phone.
MayBeOnThePhone(error) == error = "NoAnswer"
=============================================================================
