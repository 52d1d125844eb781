------------------------------ MODULE IrohLink ------------------------------
(***************************************************************************)
(* The calls on ONE running iroh session of a link:                        *)
(* crates/connect-iroh/src/mobile, the requests of mod.rs, the reader of   *)
(* link.rs and the inbox of inbox.rs.  Who runs the session is LinkHold's. *)
(*                                                                         *)
(* The session (an external library) and the wallet beyond it are their    *)
(* interface: a connection that comes and goes, messages in order on it,   *)
(* and a send that is confirmed, refused, lost or never started.  The      *)
(* library queues what happens as events, which one task reads; a message  *)
(* is confirmed to the wallet when it is read.                             *)
(*                                                                         *)
(* A wallet links over a LINKING connection of its own, which confirms and *)
(* drops whatever else arrives on it; its regular connection follows.      *)
(***************************************************************************)
EXTENDS Naturals, Sequences, FiniteSets, SequencesExt

CONSTANTS Calls,          \* the calls on the link
          Pair,           \* the one that pairs the link
          Ids,            \* interactions
          Scenarios,      \* what each of the others may be: a kind ("exchange",
                          \* "await" or "notice") and the interaction it is about
          None,
          UNCLAIMED_MAX,  \* answers nobody waited for that are kept
          Connections,    \* bound: connections the wallet makes
          MaxEvents       \* bound: events not read yet

Asks == Calls \ {Pair}

ASSUME IrohLinkAssumption ==
    /\ Pair \in Calls
    /\ Scenarios \subseteq [Asks -> [kind : {"exchange", "await", "notice"}, id : Ids]]
    /\ UNCLAIMED_MAX \in Nat \ {0}
    /\ Connections \in Nat /\ MaxEvents \in Nat

VARIABLES
    scenario,   \* what each call is
    conn,       \* the wallet's connection: the session's own state
    made,       \* how many it made
    phone,      \* requests the wallet shows
    removed,    \* whether the wallet removed the link
    events,     \* what the session queued for the reader
    counted,    \* a state change the reader counted and did not publish yet
    changes,    \* Link::state_changes
    status,     \* Shared.status
    told,       \* Shared.removed_by_wallet
    waiting,    \* Inbox.waiting: the call that waits for each interaction
    unclaimed,  \* Inbox.unclaimed, oldest first
    old,        \* how many of the oldest of those are past their time
    pc, result, \* where each call is and what it returned
    got,        \* calls whose waiter holds the answer
    hears,      \* calls subscribed to what nobody claims
    notice,     \* subscribed calls that have a linkRemoved to read
    sure,       \* calls whose request was confirmed
    taken,      \* how many times the wallet was given each request (no notice)
    dropped,    \* the linking connections that took a request, and dropped it
    linkedOn,   \* the connection the linkClient was sent on
    linkedAt,   \* state_changes when the linkClient was read
    grace       \* whether LINKING_GRACE passed

wallet == <<scenario, conn, made, phone, removed, linkedOn>>
reader == <<events, counted, changes, status, told>>
inbox == <<waiting, unclaimed, old>>
callers == <<pc, result, got, hears, notice, sure, taken, dropped, linkedAt, grace>>
vars == <<wallet, reader, inbox, callers>>

Kind(c) == scenario[c].kind
Id(c) == scenario[c].id
Ended == status = "ended"
Event == {"up", "down", "end", "removed", "client", "forged"} \cup Ids
Outcomes == {"answer", "told", "paired", "removed", "protocol", "closed",
             "unreachable", "unconfirmed", "unanswered", "refused", "forged"}

Init ==
    /\ scenario \in Scenarios
    /\ conn = "none" /\ made = 0 /\ phone = {} /\ removed = FALSE
    /\ events = <<>> /\ counted = None /\ changes = 0
    /\ status = "waiting" /\ told = FALSE
    /\ waiting = [i \in Ids |-> None] /\ unclaimed = <<>> /\ old = 0
    /\ pc = [c \in Calls |-> IF c = Pair THEN "pairing" ELSE "idle"]
    /\ result = [c \in Calls |-> None]
    /\ got = {} /\ hears = {Pair} /\ notice = {} /\ sure = {}
    /\ taken = [c \in Asks |-> 0] /\ dropped = {}
    /\ linkedOn = 0 /\ linkedAt = 0 /\ grace = FALSE

(***************************************************************************)
(* The wallet and the session                                              *)
(***************************************************************************)

Over == Ended \/ \E i \in DOMAIN events : events[i] = "end"
Queue(e) == ~Over /\ Len(events) < MaxEvents /\ events' = Append(events, e)

Connects(kind) ==
    /\ conn = "none" /\ made < Connections
    /\ kind = "regular" => pc[Pair] \notin {"pairing"}
    /\ kind = "linking" => pc[Pair] = "pairing"
    /\ conn' = kind /\ made' = made + 1
    /\ Queue("up")
    /\ UNCHANGED <<scenario, phone, removed, linkedOn, counted, changes, status, told, inbox,
                   callers>>

Disconnects ==
    /\ conn # "none"
    /\ conn' = "none"
    /\ Queue("down")
    /\ UNCHANGED <<scenario, made, phone, removed, linkedOn, counted, changes, status, told, inbox,
                   callers>>

\* The wallet links, or somebody that scanned the QR signs wrongly.
Links ==
    /\ conn = "linking" /\ pc[Pair] = "pairing"
    /\ \A i \in DOMAIN events : events[i] \notin {"client", "forged"}
    /\ \E e \in {"client", "forged"} : Queue(e)
    /\ linkedOn' = made
    /\ UNCHANGED <<scenario, conn, made, phone, removed, counted, changes, status, told, inbox,
                   callers>>

Answers(i) ==
    /\ conn = "regular" /\ i \in phone
    /\ phone' = phone \ {i}
    /\ Queue(i)
    /\ UNCHANGED <<scenario, conn, made, removed, linkedOn, counted, changes, status, told, inbox,
                   callers>>

\* The person removes the link on the phone.
Removes ==
    /\ conn = "regular" /\ ~removed
    /\ removed' = TRUE
    /\ phone' = {}
    /\ Queue("removed")
    /\ UNCHANGED <<scenario, conn, made, linkedOn, counted, changes, status, told, inbox, callers>>

\* The session ends: closed by a call on the link, or by itself.
SessionEnds ==
    /\ Queue("end")
    /\ conn' = "none"
    /\ UNCHANGED <<scenario, made, phone, removed, linkedOn, counted, changes, status, told, inbox,
                   callers>>

(***************************************************************************)
(* read_events: one event at a time; the wallet's state is counted before  *)
(* it is published.                                                        *)
(***************************************************************************)

Reads(e) == events # <<>> /\ counted = None /\ Head(events) = e
            /\ events' = Tail(events)

\* MUTANT of CountsState: the state is published, and never counted.
PublishesState ==
    /\ \E e \in {"up", "down"} :
          Reads(e) /\ counted' = IF e = "up" THEN "connected" ELSE "waiting"
    /\ UNCHANGED <<wallet, changes, status, told, inbox, callers>>

\* Shared::on_state
CountsState ==
    /\ \E e \in {"up", "down"} :
          Reads(e) /\ counted' = IF e = "up" THEN "connected" ELSE "waiting"
    /\ changes' = changes + 1
    /\ UNCHANGED <<wallet, status, told, inbox, callers>>

Publishes ==
    /\ counted # None
    /\ status' = counted /\ counted' = None
    /\ UNCHANGED <<wallet, events, changes, told, inbox, callers>>

\* Shared::on_message of what answers nothing: to whoever hears.
ReadsRemoved ==
    /\ Reads("removed")
    /\ told' = TRUE
    /\ notice' = hears
    /\ UNCHANGED <<wallet, counted, changes, status, inbox, pc, result, got, hears,
                   sure, taken, dropped, linkedAt, grace>>

\* await_link_client takes the linkClient, and its connection's number with it.
ReadsClient ==
    /\ \E e \in {"client", "forged"} :
         /\ Reads(e)
         /\ IF pc[Pair] # "pairing" THEN UNCHANGED <<pc, linkedAt, result>>
            ELSE IF e = "client"
            THEN /\ pc' = [pc EXCEPT ![Pair] = "linked"]
                 /\ linkedAt' = changes
                 /\ UNCHANGED result
            ELSE /\ pc' = [pc EXCEPT ![Pair] = "failing"]
                 /\ result' = [result EXCEPT ![Pair] = "forged"]
                 /\ UNCHANGED linkedAt
    /\ UNCHANGED <<wallet, counted, changes, status, told, inbox, got, hears,
                   notice, sure, taken, dropped, grace>>

\* Inbox::expire: the oldest go while they are past their time.
Fresh(q) == SubSeq(q, old + 1, Len(q))

\* Inbox::keep: a second answer replaces the first, and the oldest make room.
Keep(q, i) ==
    LET all == Append(RemoveFirst(Fresh(q), i), i)
    IN  IF Len(all) > UNCLAIMED_MAX THEN Tail(all) ELSE all

\* Inbox::deliver
ReadsAnswer(i) ==
    /\ Reads(i)
    /\ IF waiting[i] # None
       THEN /\ got' = got \cup {waiting[i]}
            /\ waiting' = [waiting EXCEPT ![i] = None]
            /\ UNCHANGED <<unclaimed, old>>
       ELSE /\ unclaimed' = Keep(unclaimed, i)
            /\ old' = 0
            /\ UNCHANGED <<got, waiting>>
    /\ UNCHANGED <<wallet, counted, changes, status, told, pc, result, hears, notice,
                   sure, taken, dropped, linkedAt, grace>>

\* Shared::end: every waiter is woken, and nothing more is kept.
ReadsEnd ==
    /\ Reads("end")
    /\ waiting' = [i \in Ids |-> None]
    /\ unclaimed' = <<>> /\ old' = 0
    /\ status' = "ended"
    /\ UNCHANGED <<wallet, counted, changes, told, callers>>

\* Half an hour passes since some of the oldest came.
Ages ==
    /\ old' \in (old + 1)..Len(unclaimed)
    /\ UNCHANGED <<wallet, reader, waiting, unclaimed, callers>>

(***************************************************************************)
(* pair_on                                                                 *)
(***************************************************************************)

\* MUTANT of LinkingIsOver: the pairing returns with the linkClient.
LinkedIsOver == pc[Pair] = "linked"

LinkingIsOver == changes # linkedAt \/ Ended

\* await_linking_closed: over once the connection it linked over is gone, the
\* session ended, or the grace period did.
LinkingCloses ==
    /\ pc[Pair] = "linked"
    /\ LinkingIsOver
    /\ pc' = [pc EXCEPT ![Pair] = "done"]
    /\ result' = [result EXCEPT ![Pair] = "paired"]
    /\ UNCHANGED <<wallet, reader, inbox, got, hears, notice, sure, taken, dropped,
                   linkedAt, grace>>

GracePasses ==
    /\ pc[Pair] = "linked"
    /\ grace' = TRUE
    /\ pc' = [pc EXCEPT ![Pair] = "done"]
    /\ result' = [result EXCEPT ![Pair] = "paired"]
    /\ UNCHANGED <<wallet, reader, inbox, got, hears, notice, sure, taken, dropped,
                   linkedAt>>

\* No wallet linked in time, or the session ended.
PairingFails ==
    /\ pc[Pair] = "pairing"
    /\ pc' = [pc EXCEPT ![Pair] = "failing"]
    /\ result' = [result EXCEPT ![Pair] =
                    IF Ended THEN "closed"
                    ELSE IF changes > 0 THEN "unanswered" ELSE "unreachable"]
    /\ UNCHANGED <<wallet, reader, inbox, got, hears, notice, sure, taken, dropped,
                   linkedAt, grace>>

\* The session of a pairing that failed is closed.
PairingCloses ==
    /\ pc[Pair] = "failing"
    /\ pc' = [pc EXCEPT ![Pair] = "done"]
    /\ conn' = "none"
    /\ IF Over THEN UNCHANGED events
       ELSE events' = Append(events, "end")
    /\ UNCHANGED <<scenario, made, phone, removed, linkedOn, counted, changes, status, told, inbox,
                   result, got, hears, notice, sure, taken, dropped, linkedAt, grace>>

(***************************************************************************)
(* exchange, await_response and notify_link_removed                        *)
(***************************************************************************)

\* A call returns: its waiter is dropped with it, and what it heard.
Return(c, r) ==
    /\ pc' = [pc EXCEPT ![c] = "done"]
    /\ result' = [result EXCEPT ![c] = r]
    /\ waiting' = [i \in Ids |-> IF waiting[i] = c THEN None ELSE waiting[i]]
    /\ hears' = hears \ {c} /\ notice' = notice \ {c}

Goes(c, where) ==
    /\ pc' = [pc EXCEPT ![c] = where]
    /\ UNCHANGED <<result, waiting, hears, notice>>

\* The link is there: pairing gave its password, and the session runs.
Begin(c) ==
    /\ pc[c] = "idle" /\ result[Pair] = "paired" /\ pc[Pair] = "done"
    /\ IF told
       THEN Return(c, IF Kind(c) = "notice" THEN "told" ELSE "removed")
       ELSE Goes(c, IF Kind(c) = "notice" THEN "wallet" ELSE "register")
    /\ UNCHANGED <<wallet, reader, unclaimed, old, got, sure, taken, dropped,
                   linkedAt, grace>>

\* MUTANT of Registers: an answer that is already there is not looked for.
RegistersAnew(c) ==
    /\ pc[c] = "register" /\ ~Ended /\ waiting[Id(c)] = None
    /\ waiting' = [waiting EXCEPT ![Id(c)] = c]
    /\ pc' = [pc EXCEPT ![c] = "subscribe"]
    /\ UNCHANGED <<wallet, reader, unclaimed, old, result, got, hears, notice, sure,
                   taken, dropped, linkedAt, grace>>

\* Inbox::register
Registers(c) ==
    LET kept == Fresh(unclaimed)
        there == \E k \in DOMAIN kept : kept[k] = Id(c)
    IN  /\ pc[c] = "register"
        /\ \/ /\ Ended
              /\ Return(c, "closed")
              /\ UNCHANGED <<unclaimed, old>>
           \/ /\ ~Ended /\ there
              /\ Return(c, "answer")
              /\ unclaimed' = RemoveFirst(kept, Id(c)) /\ old' = 0
           \/ /\ ~Ended /\ ~there /\ waiting[Id(c)] # None
              /\ Return(c, "protocol")
              /\ unclaimed' = kept /\ old' = 0
           \/ /\ ~Ended /\ ~there /\ waiting[Id(c)] = None
              /\ waiting' = [waiting EXCEPT ![Id(c)] = c]
              /\ pc' = [pc EXCEPT ![c] = "subscribe"]
              /\ unclaimed' = kept /\ old' = 0
              /\ UNCHANGED <<result, hears, notice>>
        /\ UNCHANGED <<wallet, reader, got, sure, taken, dropped, linkedAt, grace>>

Subscribes(c) ==
    /\ pc[c] = "subscribe"
    /\ hears' = hears \cup {c}
    /\ pc' = [pc EXCEPT ![c] = IF Kind(c) = "await" THEN "listen" ELSE "wallet"]
    /\ sure' = IF Kind(c) = "await" THEN sure \cup {c} ELSE sure
    /\ UNCHANGED <<wallet, reader, inbox, result, got, notice, taken, dropped,
                   linkedAt, grace>>

\* Request::wait_for_wallet, and a removal the notice finds done.
WaitsForWallet(c) ==
    /\ pc[c] = "wallet"
    /\ \/ /\ Kind(c) = "notice" /\ told
          /\ Return(c, "told")
       \/ /\ conn # "none"
          /\ Goes(c, "send")
       \/ /\ conn = "none" /\ Ended
          /\ Return(c, "closed")
    /\ UNCHANGED <<wallet, reader, unclaimed, old, got, sure, taken, dropped,
                   linkedAt, grace>>

\* Session::send: a connection that is gone by now sends nothing, and the call
\* waits for the wallet again.
Sends(c) ==
    /\ pc[c] = "send"
    /\ \/ conn # "none" /\ Goes(c, "sending")
       \/ conn = "none" /\ ~Over /\ Goes(c, "wallet")
       \/ Over /\ Return(c, "closed")
       \/ conn # "none" /\ Return(c, "refused")
    /\ UNCHANGED <<wallet, reader, unclaimed, old, got, sure, taken, dropped,
                   linkedAt, grace>>

\* The wallet takes what is being sent, on whichever connection it is.
WalletTakes(c) ==
    /\ pc[c] = "sending"
    /\ \/ /\ conn = "regular"
          /\ taken' = IF Kind(c) = "notice" THEN taken ELSE [taken EXCEPT ![c] = @ + 1]
          /\ phone' = IF Kind(c) = "exchange" /\ ~removed THEN phone \cup {Id(c)}
                      ELSE phone
          /\ UNCHANGED dropped
       \/ /\ conn = "linking"
          /\ dropped' = dropped \cup {made}
          /\ UNCHANGED <<taken, phone>>
    /\ pc' = [pc EXCEPT ![c] = "sent"]
    /\ UNCHANGED <<scenario, conn, made, removed, linkedOn, reader, inbox, result, got, hears, notice,
                   sure, linkedAt, grace>>

Confirmed(c) ==
    /\ pc[c] = "sent" /\ conn # "none"
    /\ IF Kind(c) = "notice" THEN Return(c, "told") ELSE Goes(c, "listen")
    /\ sure' = sure \cup {c}
    /\ UNCHANGED <<wallet, reader, unclaimed, old, got, taken, dropped, linkedAt, grace>>

\* MUTANT of AfterUncertain: a send that may have arrived is made again.
SendsAgain(c) == Goes(c, "wallet")

\* AfterSend::Uncertain: only the notice, which may arrive twice, is sent again.
AfterUncertain(c) == Goes(c, IF Kind(c) = "notice" THEN "wallet" ELSE "listen")

\* The connection was lost, or the confirmation did not come in its time.
Unconfirmed(c) ==
    /\ pc[c] \in {"sending", "sent"}
    /\ AfterUncertain(c)
    /\ UNCHANGED <<wallet, reader, unclaimed, old, got, sure, taken, dropped,
                   linkedAt, grace>>

\* Request::listen: the answer first, then a removal it heard of.
Listens(c) ==
    /\ pc[c] = "listen"
    /\ \/ c \in got /\ Return(c, "answer")
       \/ c \notin got /\ waiting[Id(c)] # c /\ Return(c, "closed")
       \/ c \notin got /\ waiting[Id(c)] = c /\ c \in notice /\ Return(c, "removed")
    /\ UNCHANGED <<wallet, reader, unclaimed, old, got, sure, taken, dropped,
                   linkedAt, grace>>

\* The deadline passes, in whatever the call awaits.
Deadline(c) ==
    /\ pc[c] \in {"wallet", "sending", "sent", "listen"}
    /\ pc[c] = "listen" => c \notin got
    /\ Return(c, CASE pc[c] = "wallet" -> "unreachable"
                   [] pc[c] = "listen" /\ c \in sure -> "unanswered"
                   [] OTHER -> "unconfirmed")
    /\ UNCHANGED <<wallet, reader, unclaimed, old, got, sure, taken, dropped,
                   linkedAt, grace>>

Next ==
    \/ \E kind \in {"linking", "regular"} : Connects(kind)
    \/ Disconnects \/ Links \/ Removes \/ SessionEnds
    \/ \E i \in Ids : Answers(i) \/ ReadsAnswer(i)
    \/ CountsState \/ Publishes \/ ReadsRemoved \/ ReadsClient \/ ReadsEnd \/ Ages
    \/ LinkingCloses \/ GracePasses \/ PairingFails \/ PairingCloses
    \/ \E c \in Asks :
         \/ Begin(c) \/ Registers(c) \/ Subscribes(c) \/ WaitsForWallet(c)
         \/ Sends(c) \/ WalletTakes(c) \/ Confirmed(c) \/ Unconfirmed(c)
         \/ Listens(c) \/ Deadline(c)

\* Tasks are run and deadlines pass.  Nothing is asked of the wallet, nor of
\* the grace period: a pairing must not need it.
Fairness ==
    /\ WF_vars(CountsState) /\ WF_vars(Publishes) /\ WF_vars(ReadsRemoved)
    /\ WF_vars(ReadsClient) /\ WF_vars(ReadsEnd)
    /\ \A i \in Ids : WF_vars(ReadsAnswer(i))
    /\ WF_vars(LinkingCloses) /\ WF_vars(PairingFails) /\ WF_vars(PairingCloses)
    /\ \A c \in Asks :
         /\ WF_vars(Registers(c)) /\ WF_vars(Subscribes(c))
         /\ WF_vars(Sends(c)) /\ WF_vars(Listens(c)) /\ SF_vars(Deadline(c))

Spec == Init /\ [][Next]_vars /\ Fairness

(***************************************************************************)
(* Properties                                                              *)
(***************************************************************************)

\* A person is asked once: no call gives the wallet its request twice, through
\* lost connections, sends that were refused and confirmations that never came
\* (AfterSend, mod.rs).  Only the notice of a removal may arrive again.
AskedOnce == \A c \in Asks : taken[c] <= 1

\* A call never waits for an answer that is already here: an interaction that
\* is waited for has no answer kept, in whatever order they came (inbox.rs).
WaitedForIsNotKept ==
    \A i \in Ids : waiting[i] # None => \A k \in DOMAIN unclaimed : unclaimed[k] # i

\* A request is not lost on the connection the wallet linked over, unless the
\* wallet kept that one open for longer than the grace period (mod.rs).
NotOverTheLinking == linkedOn \in dropped => grace

\* Every call returns; and a pairing returns once the connection it linked over
\* is gone, without the grace period: no change of state is missed.
CallsReturn ==
    /\ \A c \in Asks : (pc[c] \notin {"idle", "done"}) ~> (pc[c] = "done")
    /\ (pc[Pair] = "linked" /\ conn # "linking") ~> (pc[Pair] = "done")

\* What inbox.rs says: an answer is never dropped, since the wallet will not
\* send it again.  No call that was given one returns something else.
NoAnswerDiesWithItsWaiter ==
    \A c \in got : pc[c] = "done" => result[c] = "answer"
=============================================================================
