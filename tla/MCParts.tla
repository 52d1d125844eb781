------------------------------- MODULE MCParts -------------------------------
(***************************************************************************)
(* The parts of the system that are modelled by a module of their own and  *)
(* share no state: one run checks each of them on a small instance.  A     *)
(* behaviour is one of one part; the others keep their initial state.      *)
(***************************************************************************)
EXTENDS Naturals, Sequences, FiniteSets, TLC

CONSTANTS PartsChecked,
          Messages, Asked, Polls, Links, Calls, KeptLinks, Tasks, ToolCalls,
          Peers, Datagrams, MaxQueued, Bodies, MaxInFlight, Wallets, Candidates,
          linkA, linkB, call1, call2, kept1, kept2, task1, task2, end1, end2

\* The bounds are numbers, the calls of a server are finitely many, and each tool
\* call has a challenge of its own (Tools!Fresh).  A message has a number of chunks,
\* and at least one is reassembled at once.
ASSUME PartsAssumption ==
    /\ Messages \in Nat /\ Asked \in Nat /\ Polls \in Nat
    /\ IsFiniteSet(Calls) /\ "no link" \notin Links
    /\ ToolCalls \in 0..3
    /\ Bodies \in Seq(Nat) /\ MaxInFlight \in Nat \ {0}
    /\ IsFiniteSet(Peers) /\ "no peer" \notin Peers
    /\ Datagrams \in Nat /\ MaxQueued \in Nat \ {0}
    /\ IsFiniteSet(Wallets) /\ "extension" \notin Wallets /\ "nobody" \notin Wallets
    /\ Candidates \in Nat

\* A message of each length, one of them empty.
McBodies == <<2, 0, 1, 2>>

\* The tasks at the state file, and its links, are interchangeable.
KeptSymmetry == Permutations({task1, task2}) \cup Permutations({kept1, kept2})

VARIABLES
    part,  \* the one this behaviour is of
    stream, opened, sending, sent, inbound, next, handed, last, conn, hurried,
    request, toWallet, toDapp, call, told, wallet, answered, approved, signed,
    ledger, refusedBy,
    file, records, session, held, timers, closing, turn, slot, attempt, poll,
    forgotten, cut,
    disk, torn, change, phone, asked, undone, aged,
    ask, signatures, before, shown, warned, dapp_checks,
    toRelay, fromRelay, socket, driver, relaySession, pushed, left, answers,
    packages, spoilt, in_flight, outcomes,
    inroom, box, out, negotiation, wallets

channelVars == <<stream, opened, sending, sent, inbound, next, handed, last, conn,
                 hurried>>
walletVars == <<request, toWallet, toDapp, call, told, wallet, answered, approved,
                signed, ledger, refusedBy>>
heldLinksVars == <<file, records, session, held, timers, closing, turn, slot,
                   attempt, poll, forgotten, cut>>
keptVars == <<disk, torn, change, phone, asked, undone, aged>>
toolsVars == <<ask, signatures, before, shown, warned, dapp_checks>>
turnVars == <<toRelay, fromRelay, socket, driver, relaySession, pushed, left, answers>>
chunkingVars == <<packages, spoilt, in_flight, outcomes>>
signalingVars == <<inroom, box, out, negotiation, wallets>>

Ch == INSTANCE Channel
Wa == INSTANCE WalletSide
He == INSTANCE HeldLinks
Ke == INSTANCE Kept
To == INSTANCE Tools
Tu == INSTANCE Turn
Cn == INSTANCE Chunking
Si == INSTANCE Signaling

Init == /\ part \in PartsChecked
        /\ Ch!ChannelInit
        /\ Wa!WalletSideInit
        /\ He!HeldLinksInit
        /\ Ke!KeptInit
        /\ To!ToolsInit
        /\ Tu!TurnInit
        /\ Cn!ChunkingInit
        /\ Si!SignalingInit

Next ==
    /\ UNCHANGED part
    /\ \/ /\ part = "channel" /\ Ch!ChannelNext
          /\ UNCHANGED <<walletVars, heldLinksVars, keptVars, toolsVars, turnVars,
                         chunkingVars, signalingVars>>
       \/ /\ part = "wallet" /\ Wa!WalletSideNext
          /\ UNCHANGED <<channelVars, heldLinksVars, keptVars, toolsVars, turnVars,
                         chunkingVars, signalingVars>>
       \/ /\ part = "heldLinks" /\ He!HeldLinksNext
          /\ UNCHANGED <<channelVars, walletVars, keptVars, toolsVars, turnVars,
                         chunkingVars, signalingVars>>
       \/ /\ part = "kept" /\ Ke!KeptNext
          /\ UNCHANGED <<channelVars, walletVars, heldLinksVars, toolsVars, turnVars,
                         chunkingVars, signalingVars>>
       \/ /\ part = "tools" /\ To!ToolsNext
          /\ UNCHANGED <<channelVars, walletVars, heldLinksVars, keptVars, turnVars,
                         chunkingVars, signalingVars>>
       \/ /\ part = "turn" /\ Tu!TurnNext
          /\ UNCHANGED <<channelVars, walletVars, heldLinksVars, keptVars, toolsVars,
                         chunkingVars, signalingVars>>
       \/ /\ part = "chunking" /\ Cn!ChunkingNext
          /\ UNCHANGED <<channelVars, walletVars, heldLinksVars, keptVars, toolsVars,
                         turnVars, signalingVars>>
       \/ /\ part = "signaling" /\ Si!SignalingNext
          /\ UNCHANGED <<channelVars, walletVars, heldLinksVars, keptVars, toolsVars,
                         turnVars, chunkingVars>>

vars == <<part, channelVars, walletVars, heldLinksVars, keptVars, toolsVars, turnVars,
          chunkingVars, signalingVars>>

Spec == Init /\ [][Next]_vars

-----------------------------------------------------------------------------
(* The properties of the parts, where their modules state them. *)

\* Channel: what send_message returns is true of the message.
SendTellsTheTruth == Ch!SendTellsTheTruth
\* Channel: closing waits for the confirmation of the last answer.
ClosingConfirms == Ch!ClosingConfirms
\* WalletSide: what the dApp is told is what the ledger says.
AnswerIsTrueOfTheLedger == Wa!AnswerIsTrueOfTheLedger
\* WalletSide: what is signed was asked of this wallet and approved.
OnlyWhatWasAskedIsSigned == Wa!OnlyWhatWasAskedIsSigned
\* HeldLinks: no session is left that nothing would close.
NoSessionIsLeft == He!NoSessionIsLeft
\* HeldLinks: an idle timer closes what nobody uses.
IdleIsUnused == He!IdleIsUnused
\* Kept: a removal stays noted until its wallet confirmed it.
RemovalIsKept == Ke!RemovalIsKept
\* Tools: what is shown as verified was signed for this request.
VerifiedIsOfThisRequest == To!VerifiedIsOfThisRequest
\* Turn: once permitted, a peer gets the latest datagrams, without a gap.
TheBurstArrives == Tu!TheBurstArrives
\* Chunking: a message arrives, or its sender is told.
EveryMessageIsTold == Cn!EveryMessageIsTold
\* Signaling: every wallet that appears is offered the session.
EveryWalletIsOffered == Si!EveryWalletIsOffered

\* Turn: what a comment of turn_tcp.rs says of a refused permission.
ARefusedPeerIsAskedFor == Tu!ARefusedPeerIsAskedFor
==============================================================================
