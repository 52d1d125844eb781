------------------------------- MODULE MCAuto -------------------------------
(***************************************************************************)
(* connect-auto on small instances: a request for whichever of two phones  *)
(* is opened first (FirstOf), the race of a request over the transports of *)
(* one link, and a pairing over both.  They share nothing but the          *)
(* transports: a behaviour is one of one part, and the variables of the    *)
(* others keep their initial state.  There is nothing else to bound.       *)
(***************************************************************************)
EXTENDS FirstOf, TLC

CONSTANTS l1, l2

\* Two phones, both paired over iroh.
TwoLinks == {l1, l2}
BothIroh == l1 :> Iroh @@ l2 :> Iroh

\* Neither a transport nor, by NobodyAssumption, a candidate.
ASSUME NoTransportAssumption == Nobody \notin {Iroh, Webrtc}

VARIABLES
    part,  \* "first", "race" or "pairing"
    plan,
    connected, task, carrier, failed, raceReaches, probe, answer, webrtc, unread, iroh,
    ownError, sentOver, raceConfirmed, racePhone, raceCame, raceEarly, raceTimeUp, outcome,
    attempt, reported, trying, failures, overWebrtc, grace, linkedOver, kept, ended

raceVars == <<connected, task, carrier, failed, raceReaches, probe, answer, webrtc,
              unread, iroh, ownError, sentOver, raceConfirmed, racePhone, raceCame,
              raceEarly, raceTimeUp, outcome>>
pairingVars == <<attempt, reported, trying, failures, overWebrtc, grace, linkedOver,
                 kept, ended>>
autoVars == <<part, vars, plan, raceVars, pairingVars>>

R == INSTANCE Race WITH reaches <- raceReaches, confirmed <- raceConfirmed,
                        phone <- racePhone, came <- raceCame, early <- raceEarly,
                        timeUp <- raceTimeUp
P == INSTANCE Pairing

\* One initial plan is enough for the part that has none.
AutoInit == /\ part \in {"first", "race", "pairing"}
            /\ Init /\ R!Init /\ P!Init
            /\ part = "first" => plan = {Iroh} /\ ~connected

First == part = "first" /\ UNCHANGED <<part, plan, raceVars, pairingVars>>
Race == part = "race" /\ UNCHANGED <<part, vars, pairingVars>>
Pairing == part = "pairing" /\ UNCHANGED <<part, vars, raceVars>>

AutoNext == (Next /\ First) \/ (R!Next /\ Race) \/ (P!Next /\ Pairing)

\* The fairness of FirstOf!FairSpec, Race!FairSpec and Pairing!FairSpec.
AutoSpec ==
    /\ AutoInit /\ [][AutoNext]_autoVars
    /\ \A c \in Candidates : WF_autoVars(CandidateStep(c) /\ First)
    /\ WF_autoVars(AllDone /\ First) /\ WF_autoVars(TimeUp /\ First)
    /\ WF_autoVars(R!Call /\ Race) /\ WF_autoVars(R!TimeUp /\ Race)
    /\ SF_autoVars((\E t \in P!Transports : P!Attempt(t)) /\ Pairing)
    /\ SF_autoVars(P!GraceEnds /\ Pairing) /\ WF_autoVars(P!Report /\ Pairing)
    /\ WF_autoVars(P!GraceElapses /\ Pairing)
    /\ WF_autoVars((P!AttemptFails(Webrtc) \/ P!WalletLinks(Webrtc)) /\ Pairing)

-----------------------------------------------------------------------------
(* The properties of FirstOf are its own; those of the others are where    *)
(* Race and Pairing state them.                                            *)

\* Race: the wallet's answer is what the call returns.
RaceKeepsTheAnswer == R!NoAnswerIsLost
\* Race: no network is only told when neither transport had any.
RaceSaysNoNetwork == R!NoNetworkIsExact
\* Race: the request is put on one transport only.
RaceHasOneCarrier == R!OneCarries
\* Race: a transport that failed leaves the other one trying.
AFailureLeavesTheOther == R!AFailureLeavesTheOther
\* FirstOf and Race: whatever call it is, it returns.
EveryRequestReturns ==
    /\ part = "first" => CallReturns
    /\ part = "race" => R!CallReturns
\* Pairing: a wallet that linked is never lost.
NoLinkIsLost == P!NoLinkIsLost
\* Pairing: iroh is kept whenever the wallet linked over it.
IrohIsPreferred == P!IrohIsPreferred
\* Pairing: a wallet that linked over WebRTC does not wait for ever.
LinkedPairingEnds == P!LinkedPairingEnds
=============================================================================
