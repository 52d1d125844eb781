----------------------------- MODULE CallVerdict -----------------------------
(***************************************************************************)
(* Converse together with Verdict: what a caller of connect-auto is told   *)
(* when its conversation over WebRTC fails, against how far the request    *)
(* really got.                                                             *)
(***************************************************************************)
EXTENDS Converse, Verdict

Failed(c) == result[c] \in WebrtcErrors

\* Error::from_webrtc of the conversation's error.
Outcome(c) == FromWebrtc(result[c])

\* Error::NotConfirmed is only told of a request that was sent and not
\* confirmed, Error::NoAnswer only of one the wallet confirmed, across every
\* resend and reconnection.
TimeoutsTellWhatHappened ==
    \A c \in Conv : Failed(c) =>
        /\ Outcome(c) = "NotConfirmed" => sends[c] > 0 /\ ~delivered[c]
        /\ MayBeOnThePhone(Outcome(c)) => delivered[c]

-----------------------------------------------------------------------------
(* What comments of the code say, and the code does not always do *)

\* error.rs: NoNetwork, WalletUnreachable and LinkBusy mean that nothing was
\* sent.
NothingSentIsTrue ==
    \A c \in Conv : Failed(c) /\ Outcome(c) \in NothingSent => sends[c] = 0

=============================================================================
