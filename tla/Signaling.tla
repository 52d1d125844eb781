------------------------------ MODULE Signaling ------------------------------
(***************************************************************************)
(* The introduction of the two ends of a WebRTC link: the negotiation of   *)
(* crates/connect-webrtc/src/connector.rs, its client in signaling.rs, and *)
(* the relay of relay.rs, over websockets that keep their order.           *)
(*                                                                         *)
(* The relay has a room for each side of a link and tells an end who of    *)
(* the other side is there.  One link is modelled: rooms have nothing in   *)
(* common, and a payload decrypts with its link's password only.  A wallet *)
(* may have several sockets there, an old one lingering next to a new one; *)
(* what wallets do is not in src/.                                         *)
(***************************************************************************)
EXTENDS Naturals, Sequences, SequencesExt

CONSTANTS Wallets,      \* the wallet's sockets, a fresh id each
          Candidates    \* bound: local candidates, and those of a wallet

VARIABLES inroom,       \* Rooms: who the relay has
          box,          \* what the relay has for each client, in order
          out,          \* what the extension sent it: [to, what]
          negotiation,  \* of open_channel
          wallets       \* the wallet at each socket, and what it got

signaling == <<inroom, box, out, negotiation, wallets>>

Extension == "extension"
Clients == Wallets \cup {Extension}
Nobody == "nobody"
Offer == 0              \* and a candidate is its number

SignalingInit ==
    /\ inroom = {} /\ box = [c \in Clients |-> <<>>] /\ out = <<>>
    /\ negotiation = [at |-> "none", target |-> Nobody, offered |-> FALSE, sent |-> 0,
                      remote |-> Nobody, pending |-> 0, added |-> 0]
    /\ wallets = [w \in Wallets |-> [at |-> "away", answered |-> FALSE, says |-> 0,
                                     got |-> <<>>]]

(***************************************************************************)
(* relay.rs                                                                *)
(***************************************************************************)

\* The clients of the other side.
Targets(c) == inroom \cap (IF c = Extension THEN Wallets ELSE {Extension})

Event(event, who) == [is |-> event, of |-> who]

\* All of a set of clients are told.
TellAll(boxes, clients, event) ==
    [c \in Clients |-> IF c \in clients THEN Append(boxes[c], event) ELSE boxes[c]]

\* MUTANT of Introduced: only the newcomer is told.
ToldToNewcomer(c, order) ==
    [box EXCEPT ![c] = @ \o [k \in 1..Len(order) |-> Event("connected", order[k])]]

\* Both ends are introduced when one joins.
Introduced(c, order) ==
    TellAll([box EXCEPT ![c] = @ \o [k \in 1..Len(order) |-> Event("connected", order[k])]],
            Targets(c), Event("connected", c))

Joins(c) == /\ inroom' = inroom \cup {c}
            /\ \E order \in SetToSeqs(Targets(c)) : box' = Introduced(c, order)

Leaves(c) == /\ inroom' = inroom \ {c}
             /\ box' = [TellAll(box, Targets(c), Event("disconnected", c)) EXCEPT ![c] = <<>>]

\* A message for a client that is not there is answered with an error, which
\* the extension ignores, as it does a confirmation.
route == /\ out # <<>> /\ Extension \in inroom
         /\ out' = Tail(out)
         /\ box' = IF Head(out).to \in Targets(Extension)
                   THEN [box EXCEPT ![Head(out).to] = Append(@, Event("data", Head(out).what))]
                   ELSE box
         /\ UNCHANGED <<inroom, negotiation, wallets>>

(***************************************************************************)
(* open_channel and its Signaling                                          *)
(***************************************************************************)

Connects == /\ negotiation.at = "none"
            /\ negotiation' = [negotiation EXCEPT !.at = "negotiating"]
            /\ Joins(Extension)
            /\ UNCHANGED <<out, wallets>>

Sends(to, whats) == out' = out \o [k \in 1..Len(whats) |-> [to |-> to, what |-> whats[k]]]

\* The offer, and every candidate so far.
Replay == [k \in 1..(negotiation.sent + 1) |-> k - 1]

Reads(event) == /\ negotiation.at = "negotiating"
                /\ box[Extension] # <<>> /\ Head(box[Extension]).is = event
                /\ box' = [box EXCEPT ![Extension] = Tail(@)]
                /\ UNCHANGED <<inroom, wallets>>

\* The offer is made once, and replayed to each wallet that appears.
WalletConnected ==
    LET w == Head(box[Extension]).of IN
    /\ Reads("connected")
    /\ negotiation' = [negotiation EXCEPT !.target = w, !.offered = TRUE]
    /\ Sends(w, IF negotiation.offered THEN Replay ELSE <<Offer>>)

\* Gathered once the local description is set; sent to the last wallet seen.
LocalCandidate ==
    /\ negotiation.at = "negotiating" /\ negotiation.offered
    /\ negotiation.sent < Candidates
    /\ negotiation' = [negotiation EXCEPT !.sent = @ + 1]
    /\ Sends(negotiation.target, <<negotiation.sent + 1>>)
    /\ UNCHANGED <<inroom, box, wallets>>

\* The first answer wins.
Answered ==
    LET w == Head(box[Extension]).of IN
    /\ Reads("answer")
    /\ negotiation' = IF negotiation.remote # Nobody THEN negotiation
                      ELSE [negotiation EXCEPT !.remote = w, !.pending = 0,
                                               !.added = @ + negotiation.pending]
    /\ UNCHANGED out

RemoteCandidate ==
    /\ Reads("candidate")
    /\ negotiation' = IF negotiation.remote = Nobody
                      THEN [negotiation EXCEPT !.pending = @ + 1]
                      ELSE [negotiation EXCEPT !.added = @ + 1]
    /\ UNCHANGED out

WalletDisconnected == Reads("disconnected") /\ UNCHANGED <<out, negotiation>>

\* The channel opens once an answer was applied; or the time is over, WebRTC
\* fails, or the socket closes.  The socket to the relay stays until the relay
\* has something more to say: only then does its task find nobody listening.
Concludes ==
    /\ negotiation.at = "negotiating"
    /\ \E at \in {"failed"} \cup (IF negotiation.remote = Nobody THEN {} ELSE {"open"}) :
         negotiation' = [negotiation EXCEPT !.at = at]
    /\ UNCHANGED <<inroom, box, out, wallets>>

SocketEnds ==
    /\ Extension \in inroom
    /\ \/ negotiation.at \in {"open", "failed"} /\ box[Extension] # <<>> /\ UNCHANGED negotiation
       \/ /\ negotiation.at = "negotiating"
          /\ negotiation' = [negotiation EXCEPT !.at = "failed"]
    /\ Leaves(Extension)
    /\ out' = <<>>
    /\ UNCHANGED wallets

(***************************************************************************)
(* The wallet: not in src/                                                 *)
(***************************************************************************)

WalletJoins(w) == /\ wallets[w].at = "away"
                  /\ wallets' = [wallets EXCEPT ![w].at = "there"]
                  /\ Joins(w)
                  /\ UNCHANGED <<out, negotiation>>

WalletLeaves(w) == /\ wallets[w].at = "there"
                   /\ wallets' = [wallets EXCEPT ![w].at = "gone"]
                   /\ Leaves(w)
                   /\ UNCHANGED <<out, negotiation>>

WalletReads(w) ==
    /\ box[w] # <<>>
    /\ LET m == Head(box[w]) IN
       wallets' = IF m.is = "data" THEN [wallets EXCEPT ![w].got = Append(@, m.of)]
                  ELSE wallets
    /\ box' = [box EXCEPT ![w] = Tail(@)]
    /\ UNCHANGED <<inroom, out, negotiation>>

\* An answer to the offer, and candidates after it.
WalletSays(w) ==
    /\ wallets[w].at = "there" /\ wallets[w].got # <<>> /\ wallets[w].says <= Candidates
    /\ wallets' = [wallets EXCEPT ![w].answered = TRUE, ![w].says = @ + 1]
    /\ box' = TellAll(box, Targets(w),
                      Event(IF wallets[w].answered THEN "candidate" ELSE "answer", w))
    /\ UNCHANGED <<inroom, out, negotiation>>

SignalingNext ==
    \/ route \/ Connects \/ WalletConnected \/ LocalCandidate \/ Answered
    \/ RemoteCandidate \/ WalletDisconnected \/ Concludes \/ SocketEnds
    \/ \E w \in Wallets : WalletJoins(w) \/ WalletLeaves(w) \/ WalletReads(w) \/ WalletSays(w)

(***************************************************************************)
(* Properties                                                              *)
(***************************************************************************)

\* Where, in its box and on the way to the relay, a wallet has more of the
\* negotiation.
InItsBox(w) == {k \in 1..Len(box[w]) : box[w][k].is = "data"}
OnTheWay(w) == {k \in 1..Len(out) : out[k].to = w}

\* What of the negotiation a wallet has, or is about to have, ...
Given(w) == {wallets[w].got[k] : k \in 1..Len(wallets[w].got)}
            \cup {box[w][k].of : k \in InItsBox(w)} \cup {out[k].what : k \in OnTheWay(w)}

\* ... in the order it was sent in: each comes after those it has.
InOrder(w) ==
    LET got == wallets[w].got IN
    /\ \A j, k \in 1..Len(got) : j < k => got[j] < got[k]
    /\ \A k \in InItsBox(w) :
          /\ \A j \in 1..Len(got) : got[j] < box[w][k].of
          /\ \A j \in InItsBox(w) : j < k => box[w][j].of < box[w][k].of
    /\ \A k \in OnTheWay(w) :
          /\ \A j \in 1..Len(got) : got[j] < out[k].what
          /\ \A j \in InItsBox(w) : box[w][j].of < out[k].what
          /\ \A j \in OnTheWay(w) : j < k => out[j].what < out[k].what

\* While a negotiation is on, every wallet of the room is about to be announced
\* or has the offer first and then candidates in order, and the last one that
\* appeared has them all: whoever joins first, and however late a wallet comes.
\* connector.rs: the offer is "replayed, with every candidate so far, to each
\* wallet that appears".
EveryWalletIsOffered ==
    negotiation.at = "negotiating" =>
      \A w \in Wallets \cap inroom :
        \/ \E k \in 1..Len(box[Extension]) : box[Extension][k] = Event("connected", w)
        \/ /\ InOrder(w)
           /\ \E last \in 0..negotiation.sent : Given(w) = Offer..last
           /\ negotiation.target = w => negotiation.sent \in Given(w)

\* The wallet whose answer won has every candidate: not so when another wallet
\* appeared after it, for later candidates go to that one.
TheWinnerHasEveryCandidate ==
    negotiation.at = "negotiating" /\ negotiation.remote \in inroom =>
      negotiation.sent \in Given(negotiation.remote)
==============================================================================
