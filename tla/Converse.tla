------------------------------- MODULE Converse -------------------------------
(***************************************************************************)
(* One link's conversations over WebRTC, across the processes of a         *)
(* machine: crates/connect-webrtc (lib.rs, shared_turn.rs and the Channel  *)
(* of connector.rs), with the wallet they talk to as the code and its      *)
(* comments describe it.                                                   *)
(*                                                                         *)
(* A conversation takes the link's turn (a mutex in its process, then a    *)
(* file lock of the machine), lets the wallet settle, opens a channel,     *)
(* sends unless it only listens, and waits for the answer.  Links do not   *)
(* share state, so one link is enough.  A tick of the clock stands for     *)
(* about two seconds; SEND_GRACE, POLL and CLOSE_LIMIT are below a tick    *)
(* and are await points that take none.                                    *)
(***************************************************************************)
EXTENDS Integers, Sequences

CONSTANTS
    Conv,            \* the conversations (calls) on the link
    Proc,            \* the processes of this machine
    ProcOf,          \* the process each conversation runs in
    Kind,            \* request, racing (asked `chosen` first), listen, notice, probe
    Want,            \* the interaction whose answer a conversation waits for
    Budget,          \* overall_timeout of a conversation, in ticks
    WALLET_SETTLE,   \* ticks to wait after the link's last channel closed
    RESEND_MARGIN,   \* the 10 s a retry needs on top of WALLET_SETTLE
    CONFIRM_TIMEOUT, \* ticks the wallet has to confirm receipt
    SEND_ATTEMPTS,   \* how many times an unconfirmed request is sent
    WALLET_NOTICE,   \* ticks the wallet takes to notice a closed connection
    SharedDir,       \* whether the shared directory is usable
    Crashes,         \* whether processes may be killed
    LastStart,       \* BOUND: no conversation starts after this time
    MaxAnswers,      \* BOUND: answers in a channel's incoming queue
    None             \* no conversation

Kinds == {"request", "racing", "listen", "notice", "probe"}

ASSUME ConverseAssumption ==
    /\ ProcOf \in [Conv -> Proc]
    /\ Kind \in [Conv -> Kinds]
    /\ Want \in [Conv -> Conv]
    /\ Budget \in Nat \ {0}
    /\ WALLET_SETTLE \in Nat /\ RESEND_MARGIN \in Nat
    /\ CONFIRM_TIMEOUT \in Nat /\ SEND_ATTEMPTS \in Nat \ {0}
    /\ WALLET_NOTICE \in Nat
    /\ SharedDir \in BOOLEAN /\ Crashes \in BOOLEAN
    /\ LastStart \in Nat /\ MaxAnswers \in Nat
    /\ None \notin Conv

VARIABLES
    now,         \* the clock
    here,        \* link_turn: who holds each process's mutex of the link
    machine,     \* shared_turn: who holds the machine's file lock
    closedHere,  \* last_closed: each process's note of the last close
    closedDisk,  \* <key>.closed: the note every process reads
    pc,          \* where each conversation is
    deadline,    \* when its budget is over
    window,      \* the open_timeout of its current establish
    timer,       \* when its current wait is over
    attempt,     \* which attempt at sending it is
    delivered,   \* whether the wallet confirmed its request
    sends,       \* how many times it put its message on a channel
    wire,        \* its message on the current channel
    incoming,    \* the messages its channel received and it has not read
    lost,        \* the conversations whose channel died under them
    result,      \* what each call returned
    walletChan,  \* the one channel the wallet keeps for the link
    notices,     \* when the wallet will have noticed each told close
    pending,     \* the requests waiting for the person
    torn,        \* channels the wallet tore down for an earlier one's close
    closedAt     \* when a channel of the link last closed, on this side

turnVars    == <<here, machine, closedHere, closedDisk>>
sendVars    == <<attempt, delivered, sends>>
channelVars == <<wire, incoming, lost>>
walletVars  == <<walletChan, notices, pending, torn>>
vars == <<now, turnVars, pc, deadline, window, timer, sendVars, channelVars,
          result, walletVars, closedAt>>

Removed == "linkRemoved"
ChannelErrors == {"Signaling", "SignalingClosed", "WebRtc", "Crypto", "ChannelTimeout"}
Results == ChannelErrors \cup
    {"none", "ok", "notChosen", "LinkBusy", "LinkRemoved", "ConfirmationTimeout",
     "Protocol", "ResponseTimeout", "dropped", "crashed"}

Queueing   == {"queued", "polling"}
HoldsTurn  == {"turn", "settling", "connecting", "negotiating", "grace", "sending", "listening"}
HasChannel == {"grace", "sending", "listening"}
Sends(c)   == Kind[c] \in {"request", "racing", "notice"}

Init ==
    /\ now = 0
    /\ here = [p \in Proc |-> None]
    /\ machine = None
    /\ closedHere = [p \in Proc |-> -WALLET_SETTLE]
    /\ closedDisk = -WALLET_SETTLE
    /\ pc = [c \in Conv |-> "idle"]
    /\ deadline = [c \in Conv |-> 0]
    /\ window = [c \in Conv |-> 0]
    /\ timer = [c \in Conv |-> 0]
    /\ attempt = [c \in Conv |-> 1]
    /\ delivered = [c \in Conv |-> ~Sends(c)]
    /\ sends = [c \in Conv |-> 0]
    /\ wire = [c \in Conv |-> "empty"]
    /\ incoming = [c \in Conv |-> <<>>]
    /\ lost = {}
    /\ result = [c \in Conv |-> "none"]
    /\ walletChan = None
    /\ notices = {}
    /\ pending = {}
    /\ torn = {}
    /\ closedAt = -WALLET_SETTLE

-----------------------------------------------------------------------------
(* What is left to wait, and what closing leaves behind *)

Later(a, b) == IF a > b THEN a ELSE b

\* MUTANT of SettledAt: another process's closes are not looked at.
SettledAtHere(c) == closedHere[ProcOf[c]] + WALLET_SETTLE

\* settle_wait: the moment the wallet is settled, from this process's note
\* of the last close and the machine's.
SettledAt(c) ==
    LET noted == IF SharedDir THEN Later(closedHere[ProcOf[c]], closedDisk)
                              ELSE closedHere[ProcOf[c]]
    IN  noted + WALLET_SETTLE

\* MUTANT of TimeForAnother: any time left will do.
AnyTimeLeft(c) == deadline[c] > now

\* Whether there is time for another channel: settle, and RESEND_MARGIN on
\* top (CONFIRM_TIMEOUT for a notice).
TimeForAnother(c) ==
    LET margin == IF Kind[c] = "notice" THEN CONFIRM_TIMEOUT ELSE RESEND_MARGIN
    IN  deadline[c] - now > WALLET_SETTLE + margin

\* Dropping ClosesLink: this process's note, and the machine's.
NoteClosed(c) ==
    /\ closedHere' = [closedHere EXCEPT ![ProcOf[c]] = now]
    /\ closedDisk' = IF SharedDir THEN now ELSE closedDisk

\* Channel::close (or its Drop): the wallet is told, unless it ended the
\* channel itself.  The messages in its queue go with it.
CloseChannel(c) ==
    LET open == pc[c] \in HasChannel /\ c \notin lost
    IN  /\ notices' = IF open THEN notices \cup {now + WALLET_NOTICE} ELSE notices
        /\ closedAt' = IF open THEN now ELSE closedAt
        /\ lost' = lost \ {c}
        /\ wire' = [wire EXCEPT ![c] = "empty"]
        /\ incoming' = [incoming EXCEPT ![c] = <<>>]
        /\ UNCHANGED <<walletChan, pending, torn>>

\* MUTANT of ReleaseTurn: the machine's lock is not unlocked.
ReleaseHereOnly(c) ==
    here' = [p \in Proc |-> IF here[p] = c THEN None ELSE here[p]] /\ machine' = machine

\* Dropping Turn: the process's mutex, then the machine's lock.
ReleaseTurn(c) ==
    /\ here' = [p \in Proc |-> IF here[p] = c THEN None ELSE here[p]]
    /\ machine' = IF machine = c THEN None ELSE machine

\* The call returns r: the channel closes, the close is noted, the turn is
\* released, in that order (locals drop in reverse).
Finish(c, r) ==
    /\ pc' = [pc EXCEPT ![c] = "done"]
    /\ result' = [result EXCEPT ![c] = r]
    /\ CloseChannel(c)
    /\ NoteClosed(c)
    /\ ReleaseTurn(c)
    /\ UNCHANGED <<now, deadline, window, timer, sendVars>>

\* MUTANT of Again: the close is not noted before the next channel.
AgainUnnoted(c) ==
    /\ pc' = [pc EXCEPT ![c] = "turn"]
    /\ CloseChannel(c)
    /\ UNCHANGED <<now, turnVars, deadline, window, timer, result>>

\* Around the loop again: the channel closes, the close is noted, and the
\* turn is kept.
Again(c) ==
    /\ pc' = [pc EXCEPT ![c] = "turn"]
    /\ CloseChannel(c)
    /\ NoteClosed(c)
    /\ UNCHANGED <<now, here, machine, deadline, window, timer, result>>

-----------------------------------------------------------------------------
(* Taking the turn *)

\* A caller starts: take_turn's budget runs from here.
Start(c) ==
    /\ pc[c] = "idle" /\ now <= LastStart
    /\ pc' = [pc EXCEPT ![c] = "queued"]
    /\ deadline' = [deadline EXCEPT ![c] = now + Budget]
    /\ UNCHANGED <<now, turnVars, window, timer, sendVars, channelVars, result,
                   walletVars, closedAt>>

\* turn.lock_owned(): the process's mutex of this link.
TakeHere(c) ==
    /\ pc[c] = "queued" /\ here[ProcOf[c]] = None
    /\ here' = [here EXCEPT ![ProcOf[c]] = c]
    /\ pc' = [pc EXCEPT ![c] = "polling"]
    /\ UNCHANGED <<now, machine, closedHere, closedDisk, deadline, window, timer,
                   sendVars, channelVars, result, walletVars, closedAt>>

\* MUTANT of MachineFree: only this process's mutex is respected.
NoMachineLock == TRUE

\* try_lock_exclusive succeeded, or there is no shared directory.
MachineFree == SharedDir => machine = None

\* shared_turn::take, with time left for the request itself.
TakeMachine(c) ==
    /\ pc[c] = "polling" /\ MachineFree /\ now < deadline[c]
    /\ machine' = IF SharedDir THEN c ELSE machine
    /\ pc' = [pc EXCEPT ![c] = "turn"]
    /\ UNCHANGED <<now, here, closedHere, closedDisk, deadline, window, timer,
                   sendVars, channelVars, result, walletVars, closedAt>>

\* Leaving the queue without the turn: nothing was opened, nothing is noted.
LeaveQueue(c, r) ==
    /\ pc[c] \in Queueing
    /\ pc' = [pc EXCEPT ![c] = "done"]
    /\ result' = [result EXCEPT ![c] = r]
    /\ ReleaseTurn(c)
    /\ UNCHANGED <<now, closedHere, closedDisk, deadline, window, timer, sendVars,
                   channelVars, walletVars, closedAt>>

\* MUTANT of QueueTimeout: the queue is waited in for as long as it takes.
QueueForever(c) == FALSE /\ LeaveQueue(c, "LinkBusy")

\* The budget ran out in the queue: LinkBusy.
QueueTimeout(c) == now >= deadline[c] /\ LeaveQueue(c, "LinkBusy")

-----------------------------------------------------------------------------
(* Opening a channel *)

\* settle: too long a wait is LinkBusy, otherwise it is slept.
Settle(c) ==
    /\ pc[c] = "turn" /\ SettledAt(c) > now /\ SettledAt(c) < deadline[c]
    /\ pc' = [pc EXCEPT ![c] = "settling"]
    /\ timer' = [timer EXCEPT ![c] = SettledAt(c)]
    /\ UNCHANGED <<now, turnVars, deadline, window, sendVars, channelVars, result,
                   walletVars, closedAt>>

SettleBusy(c) ==
    /\ pc[c] = "turn" /\ SettledAt(c) > now /\ SettledAt(c) >= deadline[c]
    /\ Finish(c, "LinkBusy")

\* establish begins with what is left of the budget as its open_timeout.
Establish(c) ==
    /\ \/ pc[c] = "turn" /\ SettledAt(c) <= now
       \/ pc[c] = "settling" /\ timer[c] <= now
    /\ LET left == Later(deadline[c] - now, 0)
       IN  /\ window' = [window EXCEPT ![c] = left]
           /\ timer' = [timer EXCEPT ![c] = now + left]
    /\ pc' = [pc EXCEPT ![c] = "connecting"]
    /\ UNCHANGED <<now, turnVars, deadline, sendVars, channelVars, result,
                   walletVars, closedAt>>

\* The deadline of the negotiation: open_timeout from now, whatever
\* connecting to signaling already took of it.
NegotiationEnd(c) == now + window[c]

SignalingConnected(c) ==
    /\ pc[c] = "connecting" /\ now < timer[c]
    /\ timer' = [timer EXCEPT ![c] = NegotiationEnd(c)]
    /\ pc' = [pc EXCEPT ![c] = "negotiating"]
    /\ UNCHANGED <<now, turnVars, deadline, window, sendVars, channelVars, result,
                   walletVars, closedAt>>

\* Signaling does not answer in time, or it or the negotiation fails.
EstablishFails(c) ==
    \/ /\ pc[c] = "connecting"
       /\ \E e \in {"Signaling", "Crypto"} : Finish(c, e)
    \/ /\ pc[c] = "negotiating"
       /\ \E e \in {"SignalingClosed", "WebRtc"} : Finish(c, e)
    \/ /\ pc[c] = "negotiating" /\ now >= timer[c]
       /\ Finish(c, "ChannelTimeout")

\* MUTANT of ChannelOpens: a channel reopened only to listen sends again.
OpensToSend(c) ==
    /\ pc[c] = "negotiating"
    /\ pc' = [pc EXCEPT ![c] = "grace"]
    /\ walletChan' = c
    /\ UNCHANGED <<now, turnVars, deadline, window, timer, sendVars, channelVars,
                   result, notices, pending, torn, closedAt>>

\* The data channel opens: it replaces the one the wallet kept.
ChannelOpens(c) ==
    /\ pc[c] = "negotiating"
    /\ pc' = [pc EXCEPT ![c] = IF delivered[c] /\ Kind[c] # "probe"
                               THEN "listening" ELSE "grace"]
    /\ walletChan' = c
    /\ UNCHANGED <<now, turnVars, deadline, window, timer, sendVars, channelVars,
                   result, notices, pending, torn, closedAt>>

-----------------------------------------------------------------------------
(* Sending *)

Holds(c, m) == \E i \in DOMAIN incoming[c] : incoming[c][i] = m

\* A removal the wallet announced: the end of a request, and what a notice
\* wanted.
RemovalOutcome(c) == IF Kind[c] = "notice" THEN "ok" ELSE "LinkRemoved"

RemovedInGrace(c) ==
    /\ pc[c] = "grace" /\ Kind[c] # "probe" /\ Holds(c, Removed)
    /\ Finish(c, RemovalOutcome(c))

ProbeEnds(c) == pc[c] = "grace" /\ Kind[c] = "probe" /\ Finish(c, "ok")

\* `chosen` said no: another link carries the request.  Once it said yes it
\* says yes again.
NotChosen(c) ==
    /\ pc[c] = "grace" /\ Kind[c] = "racing" /\ attempt[c] = 1
    /\ ~Holds(c, Removed)
    /\ Finish(c, "notChosen")

\* SEND_GRACE is over: the message goes on the channel.
Send(c) ==
    /\ pc[c] = "grace" /\ Sends(c) /\ ~Holds(c, Removed)
    /\ pc' = [pc EXCEPT ![c] = "sending"]
    /\ timer' = [timer EXCEPT ![c] =
           IF Kind[c] = "notice" /\ deadline[c] - now < CONFIRM_TIMEOUT
           THEN Later(deadline[c], now) ELSE now + CONFIRM_TIMEOUT]
    /\ sends' = [sends EXCEPT ![c] = @ + 1]
    /\ wire' = [wire EXCEPT ![c] = IF c \in lost THEN "empty" ELSE "message"]
    /\ UNCHANGED <<now, turnVars, deadline, window, attempt, delivered, incoming,
                   lost, result, walletVars, closedAt>>

\* MUTANT of Confirmed: it listens without having recorded the delivery.
ConfirmedUnrecorded(c) ==
    /\ pc[c] = "sending" /\ wire[c] \in {"confirmation", "arrived"}
    /\ pc' = [pc EXCEPT ![c] = "listening"]
    /\ wire' = [wire EXCEPT ![c] = "empty"]
    /\ UNCHANGED <<now, turnVars, deadline, window, timer, sendVars, incoming, lost,
                   result, walletVars, closedAt>>

\* The wallet's confirmation is read: Delivered.
Confirmed(c) ==
    /\ pc[c] = "sending" /\ wire[c] \in {"confirmation", "arrived"}
    /\ IF Kind[c] = "notice"
       THEN Finish(c, "ok")
       ELSE /\ pc' = [pc EXCEPT ![c] = "listening"]
            /\ delivered' = [delivered EXCEPT ![c] = TRUE]
            /\ wire' = [wire EXCEPT ![c] = "empty"]
            /\ UNCHANGED <<now, turnVars, deadline, window, timer, attempt, sends,
                           incoming, lost, result, walletVars, closedAt>>

\* How sending fails: no confirmation in time, or the channel died.  A
\* confirmation that arrived is read first.
SendErrors(c) ==
    {e \in {"ConfirmationTimeout", "SignalingClosed", "WebRtc"} :
        /\ wire[c] # "arrived"
        /\ IF e = "ConfirmationTimeout" THEN now >= timer[c] ELSE c \in lost}

\* MUTANT of Retries: attempts are not counted.
RetriesWhileTime(c) == TimeForAnother(c)

Retries(c) == TimeForAnother(c) /\ (Kind[c] # "notice" => attempt[c] < SEND_ATTEMPTS)

Resend(c) ==
    /\ pc[c] = "sending" /\ SendErrors(c) # {}
    /\ ~Holds(c, Removed) /\ Retries(c)
    /\ attempt' = [attempt EXCEPT ![c] = IF Kind[c] = "notice" THEN @ ELSE @ + 1]
    /\ Again(c)
    /\ UNCHANGED <<delivered, sends>>

SendFails(c) ==
    /\ pc[c] = "sending"
    /\ \/ /\ SendErrors(c) # {} /\ Holds(c, Removed)
          /\ Finish(c, RemovalOutcome(c))
       \/ /\ ~Holds(c, Removed) /\ ~Retries(c)
          /\ \E e \in SendErrors(c) : Finish(c, e)
       \/ /\ ~Holds(c, Removed) /\ wire[c] = "refused"
          /\ Finish(c, "Protocol")
       \/ /\ Holds(c, Removed) /\ wire[c] = "refused"
          /\ Finish(c, RemovalOutcome(c))

-----------------------------------------------------------------------------
(* Listening *)

\* listen reads a message: the answer wanted, a removal, or another
\* request's answer, reported as OtherMessage.
Listen(c) ==
    /\ pc[c] = "listening" /\ incoming[c] # <<>>
    /\ LET m == Head(incoming[c])
           rest == Tail(incoming[c])
       IN  \/ m = Want[c] /\ Finish(c, "ok")
           \/ m = Removed /\ Finish(c, "LinkRemoved")
           \/ /\ m \notin {Removed, Want[c]}
              /\ incoming' = [incoming EXCEPT ![c] = rest]
              /\ UNCHANGED <<now, turnVars, pc, deadline, window, timer, sendVars, wire,
                             lost, result, walletVars, closedAt>>

\* The channel died under a request that is on the phone: another is opened
\* to keep listening, while there is time.
Reconnect(c) ==
    /\ pc[c] = "listening" /\ incoming[c] = <<>> /\ c \in lost
    /\ TimeForAnother(c)
    /\ Again(c)
    /\ UNCHANGED sendVars

ListenFails(c) ==
    /\ pc[c] = "listening" /\ incoming[c] = <<>>
    /\ \/ c \in lost /\ ~TimeForAnother(c) /\ Finish(c, "WebRtc")
       \/ now >= deadline[c] /\ Finish(c, "ResponseTimeout")

-----------------------------------------------------------------------------
(* The caller and the processes *)

\* The caller drops the future, wherever it is.
Drop(c) ==
    \/ LeaveQueue(c, "dropped")
    \/ pc[c] \in HoldsTurn /\ Finish(c, "dropped")

\* MUTANT of Crash: the machine's lock is a file that outlives its process.
CrashKeepsLock(p) ==
    LET dead == {c \in Conv : ProcOf[c] = p /\ pc[c] \notin {"idle", "done"}}
    IN  /\ Crashes /\ dead # {}
        /\ pc' = [c \in Conv |-> IF c \in dead THEN "done" ELSE pc[c]]
        /\ result' = [c \in Conv |-> IF c \in dead THEN "crashed" ELSE result[c]]
        /\ here' = [here EXCEPT ![p] = None]
        /\ UNCHANGED <<now, machine, closedHere, closedDisk, deadline, window, timer,
                       sendVars, channelVars, walletVars, closedAt>>

\* A process is killed: nothing is dropped, so nothing is noted and the wallet
\* is not told; the system releases the file lock.
Crash(p) ==
    LET dead == {c \in Conv : ProcOf[c] = p /\ pc[c] \notin {"idle", "done"}}
    IN  /\ Crashes /\ dead # {}
        /\ pc' = [c \in Conv |-> IF c \in dead THEN "done" ELSE pc[c]]
        /\ result' = [c \in Conv |-> IF c \in dead THEN "crashed" ELSE result[c]]
        /\ here' = [here EXCEPT ![p] = None]
        /\ machine' = IF machine \in dead THEN None ELSE machine
        /\ closedHere' = [closedHere EXCEPT ![p] = -WALLET_SETTLE]
        /\ closedAt' = IF \E c \in dead \ lost : pc[c] \in HasChannel THEN now ELSE closedAt
        /\ notices' = IF \E c \in dead \ lost : pc[c] \in HasChannel
                      THEN notices \cup {now + WALLET_NOTICE} ELSE notices
        /\ lost' = lost \ dead
        /\ incoming' = [c \in Conv |-> IF c \in dead THEN <<>> ELSE incoming[c]]
        /\ wire' = [c \in Conv |-> IF c \in dead THEN "empty" ELSE wire[c]]
        /\ UNCHANGED <<now, closedDisk, deadline, window, timer, sendVars, walletChan, pending, torn>>

-----------------------------------------------------------------------------
(* The wallet *)

\* c's channel is up on both sides, and is the one the wallet keeps.
Live(c) == walletChan = c /\ c \in Conv /\ pc[c] \in HasChannel /\ c \notin lost

\* The wallet receives the message on its channel and confirms it; or it was
\* not reading yet and loses it; or it refuses it (hash mismatch).
WalletReceives(c) ==
    /\ Live(c) /\ wire[c] = "message"
    /\ \/ /\ wire' = [wire EXCEPT ![c] = "confirmation"]
          /\ pending' = IF Kind[c] = "notice" THEN pending ELSE pending \cup {c}
       \/ /\ wire' = [wire EXCEPT ![c] = "empty"]
          /\ UNCHANGED pending
       \/ /\ wire' = [wire EXCEPT ![c] = "refused"]
          /\ UNCHANGED pending
    /\ UNCHANGED <<now, turnVars, pc, deadline, window, timer, sendVars, incoming, lost,
                   result, walletChan, notices, torn, closedAt>>

\* A message of the wallet arrives on c's channel, behind its confirmation.
Arrives(c, m) ==
    /\ incoming' = [incoming EXCEPT ![c] = Append(@, m)]
    /\ wire' = [wire EXCEPT ![c] = IF @ = "confirmation" THEN "arrived" ELSE @]

\* The person decides on a pending request: its answer goes to whatever
\* channel the link has then.
PersonDecides(c) ==
    /\ Live(c) /\ Len(incoming[c]) < MaxAnswers
    /\ \E i \in pending : Arrives(c, i) /\ pending' = pending \ {i}
    /\ UNCHANGED <<now, turnVars, pc, deadline, window, timer, sendVars, lost, result, walletChan, notices, torn, closedAt>>

\* A wallet that removed the link says so on its channel, and closes it.
PersonRemovesLink(c) ==
    /\ Live(c)
    /\ Arrives(c, Removed)
    /\ lost' = lost \cup {c}
    /\ walletChan' = None
    /\ closedAt' = now
    /\ UNCHANGED <<now, turnVars, pc, deadline, window, timer, sendVars, result, notices, pending, torn>>

\* The wallet's app goes away, with its queue or not, or the connection fails.
WalletDrops(c) ==
    /\ Live(c)
    /\ lost' = lost \cup {c}
    /\ walletChan' = None
    /\ closedAt' = now
    /\ pending' \in {pending, {}}
    /\ UNCHANGED <<now, turnVars, pc, deadline, window, timer, sendVars, wire, incoming,
                   result, notices, torn>>

\* The wallet notices that a connection went away: it tears down whatever
\* channel the link has at that moment.
WalletNotices(t) ==
    /\ notices' = notices \ {t}
    /\ LET hit == {c \in Conv : Live(c)}
       IN  /\ torn' = torn \cup hit
           /\ lost' = lost \cup hit
           /\ closedAt' = IF hit = {} THEN closedAt ELSE now
    /\ walletChan' = None
    /\ UNCHANGED <<now, turnVars, pc, deadline, window, timer, sendVars, wire, incoming,
                   result, pending>>

-----------------------------------------------------------------------------
(* Time: it passes while nothing that is due waits to be done *)

Due(c) ==
    \/ pc[c] = "queued" /\ (here[ProcOf[c]] = None \/ deadline[c] <= now)
    \/ pc[c] = "polling" /\ (MachineFree \/ deadline[c] <= now)
    \/ pc[c] \in {"turn", "grace"}
    \/ pc[c] \in {"settling", "connecting", "negotiating"} /\ timer[c] <= now
    \/ pc[c] = "sending" /\ (timer[c] <= now \/ c \in lost \/ wire[c] \in {"arrived", "refused"})
    \/ pc[c] = "listening" /\ (deadline[c] <= now \/ c \in lost \/ incoming[c] # <<>>)

AllReturned == \A c \in Conv : pc[c] \in {"idle", "done"}

Tick ==
    /\ \A c \in Conv : ~Due(c)
    /\ \A t \in notices : now < t
    /\ now <= LastStart \/ ~AllReturned \/ notices # {}
    /\ now' = now + 1
    /\ UNCHANGED <<turnVars, pc, deadline, window, timer, sendVars, channelVars, result,
                   walletVars, closedAt>>

\* Every call returned and no more will start.
Ended == AllReturned /\ now > LastStart /\ notices = {} /\ UNCHANGED vars

CallStep(c) ==
    \/ TakeHere(c) \/ TakeMachine(c) \/ QueueTimeout(c)
    \/ Settle(c) \/ SettleBusy(c) \/ Establish(c) \/ SignalingConnected(c)
    \/ EstablishFails(c) \/ ChannelOpens(c)
    \/ RemovedInGrace(c) \/ ProbeEnds(c) \/ NotChosen(c) \/ Send(c)
    \/ Confirmed(c) \/ Resend(c) \/ SendFails(c)
    \/ Listen(c) \/ Reconnect(c) \/ ListenFails(c)

WalletStep(c) ==
    WalletReceives(c) \/ PersonDecides(c) \/ PersonRemovesLink(c) \/ WalletDrops(c)

Next ==
    \/ \E c \in Conv : Start(c) \/ CallStep(c) \/ Drop(c) \/ WalletStep(c)
    \/ \E p \in Proc : Crash(p)
    \/ \E t \in notices : WalletNotices(t)
    \/ Tick
    \/ Ended

Spec == Init /\ [][Next]_vars

\* The runtime polls every call that is ready, and time passes.
FairSpec == Spec /\ (\A c \in Conv : WF_vars(CallStep(c))) /\ WF_vars(Tick)
                 /\ WF_vars(\E t \in notices : WalletNotices(t))

-----------------------------------------------------------------------------
(* Properties *)

Wires == {"empty", "message", "confirmation", "arrived", "refused"}

\* Every variable holds a value of its kind.
TypeOK ==
    /\ now \in Nat
    /\ here \in [Proc -> Conv \cup {None}]
    /\ machine \in Conv \cup {None}
    /\ closedHere \in [Proc -> Int] /\ closedDisk \in Int /\ closedAt \in Int
    /\ pc \in [Conv -> {"idle", "done"} \cup Queueing \cup HoldsTurn]
    /\ deadline \in [Conv -> Nat] /\ window \in [Conv -> Nat] /\ timer \in [Conv -> Int]
    /\ attempt \in [Conv -> 1..SEND_ATTEMPTS]
    /\ delivered \in [Conv -> BOOLEAN]
    /\ sends \in [Conv -> Nat]
    /\ wire \in [Conv -> Wires]
    /\ incoming \in [Conv -> Seq(Conv \cup {Removed})]
    /\ lost \subseteq Conv /\ torn \subseteq Conv /\ pending \subseteq Conv
    /\ result \in [Conv -> Results]
    /\ walletChan \in Conv \cup {None}
    /\ notices \subseteq Int

\* The conversations with a channel open on both sides.
OpenChannels == {c \in Conv : pc[c] \in HasChannel /\ c \notin lost}

\* One conversation at a time is past take_turn, in all the processes of the
\* machine: two of them race on the same rendezvous and the second dies.
OneConversation ==
    \A c, d \in Conv : pc[c] \in HoldsTurn /\ pc[d] \in HoldsTurn => c = d

\* The wallet's late teardown for a closed channel never falls on a channel
\* opened after it: what WALLET_SETTLE, its notes and the turn are for.
NoChannelTorn == torn = {}

\* LinkBusy is only ever answered before anything was put on a channel: the
\* margin a retry needs leaves it time to settle.
BusyMeansNothingSent == \A c \in Conv : result[c] = "LinkBusy" => sends[c] = 0

\* A request the wallet confirmed stays confirmed and is never put on a
\* channel again, however often the channel is lost and reopened; one it did
\* not confirm is sent SEND_ATTEMPTS times at most.
NothingConfirmedIsResent ==
    [][\A c \in Conv :
          /\ delivered[c] => delivered'[c] /\ sends'[c] = sends[c]
          /\ Kind[c] # "notice" => sends'[c] <= SEND_ATTEMPTS]_vars

\* One channel at a time, each opened WALLET_SETTLE after the last closed.
Settled == INSTANCE SettledLink WITH open <- OpenChannels
OneSettledChannel == Settled!Spec

\* Every call returns, whatever the wallet and the other calls do.
EveryCallReturns == \A c \in Conv : pc[c] = "queued" ~> pc[c] = "done"

\* The link's turn is never left taken by a call that returned.
TurnIsFreed ==
    \A c \in Conv : pc[c] \in {"idle", "queued", "done"} =>
        machine # c /\ (\A p \in Proc : here[p] # c)
=============================================================================
