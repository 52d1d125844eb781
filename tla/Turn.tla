-------------------------------- MODULE Turn --------------------------------
(***************************************************************************)
(* TURN over TCP: the client of crates/connect-webrtc/src/turn_tcp.rs,     *)
(* whose driver owns the stream and makes the allocation look like a       *)
(* socket, and a relay, as turn_server.rs serves it.                       *)
(*                                                                         *)
(* A datagram for a peer waits until the relay permits the peer; a stream  *)
(* keeps the frames of one direction in order.  Frames are records; the    *)
(* splitting of the stream into them is left out.  turn_server.rs permits  *)
(* every peer, another relay may refuse one.  The TURN library, which is   *)
(* not in src/, answers the first challenge and binds channels.            *)
(***************************************************************************)
EXTENDS Naturals, Sequences, FiniteSets

CONSTANTS Peers,
          Datagrams,    \* bound: datagrams sent to a peer, and by the peers
          MaxQueued     \* MAX_QUEUED_PER_PEER

VARIABLES toRelay, fromRelay,  \* the two directions of the stream
          socket,      \* of connect's caller: "none", "up" or "dropped"
          driver,      \* drive, and what the library knows
          relaySession, \* the relay's Session
          pushed,      \* datagrams the socket was asked to send to each peer
          left,        \* datagrams that left the relay for each peer
          answers      \* how many datagrams the peers sent

turnState == <<toRelay, fromRelay, socket, driver, relaySession, pushed, left, answers>>

Unbound == 0
NoPeer == "no peer"
Numbers == 1..Cardinality(Peers)

TurnInit ==
    /\ toRelay = <<[is |-> "allocate", auth |-> "none"]>> /\ fromRelay = <<>>
    /\ socket = "none"
    /\ driver = [on |-> TRUE, challenged |-> FALSE, relayed |-> FALSE,
                 permitted |-> {}, requested |-> {}, refused |-> {},
                 queued |-> [p \in Peers |-> <<>>],
                 bound |-> [p \in Peers |-> Unbound], binding |-> <<>>]
    /\ relaySession = [on |-> TRUE, allocated |-> FALSE,
                       channels |-> [n \in Numbers |-> NoPeer]]
    /\ pushed = [p \in Peers |-> 0] /\ left = [p \in Peers |-> <<>>]
    /\ answers = 0

(***************************************************************************)
(* The socket, and drive                                                   *)
(***************************************************************************)

\* A datagram for a peer, over its channel once it has one.
Datagram(d, p, i) ==
    IF d.bound[p] = Unbound THEN [is |-> "send", peer |-> p, data |-> i]
    ELSE [is |-> "data", number |-> d.bound[p], data |-> i]

\* MUTANT of Hold: a full queue turns the newest away.
HoldOldest(queue, i) == IF Len(queue) = MaxQueued THEN queue ELSE Append(queue, i)

\* The oldest makes room.
Hold(queue, i) == Append(IF Len(queue) = MaxQueued THEN Tail(queue) ELSE queue, i)

\* poll_send, and the command's arm of drive.
SocketSends(p) ==
    LET i == pushed[p] + 1 IN
    /\ socket = "up" /\ driver.on /\ pushed[p] < Datagrams
    /\ pushed' = [pushed EXCEPT ![p] = i]
    /\ IF p \in driver.permitted
       THEN /\ toRelay' = Append(toRelay, Datagram(driver, p, i))
            /\ UNCHANGED driver
       ELSE /\ driver' = [driver EXCEPT !.queued[p] = Hold(@, i),
                                        !.requested = @ \cup {p}]
            /\ toRelay' = IF p \in driver.requested THEN toRelay
                          ELSE Append(toRelay, [is |-> "permission", peer |-> p])
    /\ UNCHANGED <<fromRelay, socket, relaySession, left, answers>>

\* The library asks for a channel to a peer it talks to.
Binds(p) ==
    LET n == Len(driver.binding) + 1 IN
    /\ driver.on /\ p \in driver.permitted
    /\ \A k \in 1..Len(driver.binding) : driver.binding[k] # p
    /\ driver' = [driver EXCEPT !.binding = Append(@, p)]
    /\ toRelay' = Append(toRelay, [is |-> "bind", number |-> n, peer |-> p])
    /\ UNCHANGED <<fromRelay, socket, relaySession, pushed, left, answers>>

\* The driver ends: its stream and its socket with it.
Off == [driver EXCEPT !.on = FALSE]

Reads(m) == /\ driver.on /\ fromRelay # <<>> /\ Head(fromRelay).is = m
            /\ fromRelay' = Tail(fromRelay)
            /\ UNCHANGED <<relaySession, pushed, left, answers>>

\* The library answers one challenge with the credentials; a second one is an
\* AllocateError.
ReadsChallenge ==
    /\ Reads("challenge")
    /\ IF driver.challenged
       THEN driver' = Off /\ UNCHANGED toRelay
       ELSE /\ driver' = [driver EXCEPT !.challenged = TRUE]
            /\ \E right \in BOOLEAN :
                 toRelay' = Append(toRelay, [is |-> "allocate",
                                             auth |-> IF right THEN "right" ELSE "wrong"])
    /\ UNCHANGED socket

ReadsAllocated == /\ Reads("allocated") /\ socket' = "up"
                  /\ driver' = [driver EXCEPT !.relayed = TRUE]
                  /\ UNCHANGED toRelay

ReadsRefusal == /\ Reads("refused") /\ driver' = Off /\ UNCHANGED <<toRelay, socket>>

\* CreatePermissionResponse: what waited goes now.
ReadsPermitted ==
    /\ Reads("permitted")
    /\ LET p == Head(fromRelay).peer
           waiting == driver.queued[p]
       IN  /\ driver' = [driver EXCEPT !.permitted = @ \cup {p}, !.queued[p] = <<>>]
           /\ toRelay' = toRelay \o [k \in 1..Len(waiting) |-> Datagram(driver, p, waiting[k])]
    /\ UNCHANGED socket

\* CreatePermissionError: the peer stays among the requested.
ReadsForbidden ==
    /\ Reads("forbidden")
    /\ driver' = [driver EXCEPT !.refused = @ \cup {Head(fromRelay).peer}]
    /\ UNCHANGED <<toRelay, socket>>

ReadsBound ==
    /\ Reads("bound")
    /\ driver' = [driver EXCEPT !.bound[driver.binding[Head(fromRelay).number]] =
                                  Head(fromRelay).number]
    /\ UNCHANGED <<toRelay, socket>>

\* A datagram of a peer, handed to the socket.
ReadsData == Reads("data") /\ UNCHANGED <<toRelay, socket, driver>>

\* The stream fails, or a frame is too large; or the socket was dropped; or
\* connect waited ALLOCATE_TIMEOUT.
DriverEnds ==
    /\ driver.on /\ driver' = Off
    /\ socket' \in IF socket = "up" THEN {"up", "dropped"} ELSE {socket}
    /\ UNCHANGED <<toRelay, fromRelay, relaySession, pushed, left, answers>>

(***************************************************************************)
(* turn_server.rs                                                          *)
(***************************************************************************)

OnFrame(m) == /\ relaySession.on /\ toRelay # <<>> /\ Head(toRelay).is = m
              /\ toRelay' = Tail(toRelay)
              /\ UNCHANGED <<socket, driver, pushed, answers>>

Replies(r) == fromRelay' = Append(fromRelay, r)

\* authenticate, on_allocate: a relay's socket may not be had.
on_allocate ==
    /\ OnFrame("allocate")
    /\ IF Head(toRelay).auth # "right"
       THEN Replies([is |-> "challenge"]) /\ UNCHANGED relaySession
       ELSE \/ Replies([is |-> "refused"]) /\ UNCHANGED relaySession
            \/ /\ Replies([is |-> "allocated"])
               /\ relaySession' = [relaySession EXCEPT !.allocated = TRUE]
    /\ UNCHANGED left

\* Another relay than turn_server.rs may refuse.
CreatePermission ==
    /\ OnFrame("permission")
    /\ \E r \in {"permitted", "forbidden"} : Replies([is |-> r, peer |-> Head(toRelay).peer])
    /\ UNCHANGED <<relaySession, left>>

on_channel_bind ==
    LET m == Head(toRelay) IN
    /\ OnFrame("bind")
    /\ relaySession' = [relaySession EXCEPT !.channels[m.number] = m.peer]
    /\ Replies([is |-> "bound", number |-> m.number])
    /\ UNCHANGED left

\* A Send indication, or the data of a channel.
Leaves(p, i) == /\ left' = [left EXCEPT ![p] = Append(@, i)]
                /\ UNCHANGED <<fromRelay, relaySession>>

on_send == OnFrame("send") /\ Leaves(Head(toRelay).peer, Head(toRelay).data)

on_channel_data ==
    OnFrame("data") /\ Leaves(relaySession.channels[Head(toRelay).number], Head(toRelay).data)

\* A datagram of a peer reaches the relayed socket: on_allocate's reader.
RelayReads(p) ==
    /\ relaySession.on /\ relaySession.allocated /\ answers < Datagrams
    /\ answers' = answers + 1
    /\ Replies([is |-> "data", from |-> p])
    /\ UNCHANGED <<toRelay, socket, driver, relaySession, pushed, left>>

\* Session::run ends with the stream, and drops the allocation.
SessionEnds ==
    /\ relaySession.on /\ ~driver.on
    /\ relaySession' = [relaySession EXCEPT !.on = FALSE, !.allocated = FALSE]
    /\ UNCHANGED <<toRelay, fromRelay, socket, driver, pushed, left, answers>>

TurnNext ==
    \/ \E p \in Peers : SocketSends(p) \/ Binds(p) \/ RelayReads(p)
    \/ ReadsChallenge \/ ReadsAllocated \/ ReadsRefusal \/ ReadsPermitted
    \/ ReadsForbidden \/ ReadsBound \/ ReadsData \/ DriverEnds
    \/ on_allocate \/ CreatePermission \/ on_channel_bind \/ on_send
    \/ on_channel_data \/ SessionEnds

(***************************************************************************)
(* Properties                                                              *)
(***************************************************************************)

\* Where in the stream the datagrams to a peer are.
OnTheWay(p) ==
    {k \in 1..Len(toRelay) :
        \/ toRelay[k].is = "send" /\ toRelay[k].peer = p
        \/ toRelay[k].is = "data" /\ driver.binding[toRelay[k].number] = p}

\* What left for a peer is in the order it was sent in, and what is on its way
\* comes after it, in order too.
InOrder(p) ==
    /\ \A j, k \in 1..Len(left[p]) : j < k => left[p][j] < left[p][k]
    /\ \A k \in OnTheWay(p) :
          /\ \A j \in 1..Len(left[p]) : left[p][j] < toRelay[k].data
          /\ \A j \in OnTheWay(p) : j < k => toRelay[j].data < toRelay[k].data

Sent(p) == {left[p][k] : k \in 1..Len(left[p])} \cup {toRelay[k].data : k \in OnTheWay(p)}

\* Once the relay permits a peer, what left for it and what is on its way are
\* the latest datagrams for it, in order and without a gap, and as many as a
\* queue holds: only a burst longer than the queue loses any, its oldest.
\* turn_tcp.rs: the queue covers "an ICE connectivity-check burst".
TheBurstArrives ==
    \A p \in driver.permitted :
      /\ InOrder(p)
      /\ \E first \in 1..pushed[p] + 1 :
            /\ Sent(p) = first..pushed[p]
            /\ first = 1 \/ pushed[p] - first + 1 >= MaxQueued

\* Of turn_tcp.rs's comment on CreatePermissionError, "so a later datagram
\* retries rather than queueing against a permission that will never arrive": a
\* datagram to a peer that was refused asks for its permission again.
ARefusedPeerIsAskedFor ==
    [][\A p \in driver.refused :
         p \notin driver.permitted /\ pushed'[p] # pushed[p] => toRelay' # toRelay]_turnState
==============================================================================
