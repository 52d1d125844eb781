-------------------------------- MODULE Outbox --------------------------------
(***************************************************************************)
(* What a connector has sent to one wallet and what became of it: the      *)
(* record crates/connector-mcp/src/outbox.rs (requests.json, shared by the *)
(* connector processes of a machine) and the calls that keep it,           *)
(* crates/connector-mcp/src/exchange.rs (interact, await_response,         *)
(* cancel_request).  A process is one thread: its tasks take turns, and a  *)
(* change of the file is a read and a rename with no lock, between which   *)
(* only OTHER processes may run.  The transport below a call is seen by    *)
(* its steps and its end; Converse, Race and FirstOf model it.             *)
(***************************************************************************)
EXTENDS Sequences

CONSTANTS
    Process,
    Request,
    Sender,      \* the process that sends each request
    Awaiter,     \* the process that may wait for its answer later
    Clearer,     \* the requests that cancel_request is called for, ...
    ClearedBy,   \* ... and by which process
    AtFirst,     \* the processes that run from the start; the others after them
    Mortal,      \* the processes that may be killed
    Routes,      \* the transports the wallet may be reached over
    EarlyAwait,  \* whether await_response comes before the sending call ends
    NoCall

Calls == Request \X {"send", "await"}
Of(c) == c[1]
At(c) == IF c[2] = "send" THEN Sender[Of(c)] ELSE Awaiter[Of(c)]

ASSUME OutboxAssumption ==
    /\ Sender \in [Request -> Process] /\ Awaiter \in [Request -> Process]
    /\ Clearer \subseteq Request /\ ClearedBy \in [Clearer -> Process]
    /\ AtFirst \subseteq Process /\ Mortal \subseteq Process
    /\ Routes \subseteq {"iroh", "webrtc"} /\ EarlyAwait \in BOOLEAN
    /\ NoCall \notin Calls \cup Request
    /\ Request \cap {"delivered", "unconfirmed"} = {}

VARIABLES
    route,     \* Route: the transport this wallet is reached over
    disk,      \* requests.json: the state of each request, or "none"
    todo,      \* the changes each process is making to it, in order
    snap,      \* the file as the process read it for the first of them
    life,      \* each process: later, up or dead
    inflight,  \* App::inflight: the call cancel_request would stop
    stage,     \* where each call is
    knows,     \* `delivered`: the calls that know the wallet has the request
    steps,     \* the progress each call's transport reported and it has not read
    confirmed, \* the calls whose transport had the wallet's confirmation
    uncertain, \* those whose transport reported that it may have it
    got,       \* those whose transport has the answer
    result,    \* how each call ended
    phone,     \* each request in the wallet: none, queued, decided, told
    cancelled  \* the requests cancel_request was called for

OverIroh == route = "iroh"

file == <<disk, todo, snap>>
transport == <<steps, confirmed, uncertain, got>>
vars == <<route, file, life, inflight, stage, knows, transport, result, phone, cancelled>>

Init ==
    /\ route \in Routes
    /\ disk = [r \in Request |-> "none"]
    /\ todo = [p \in Process |-> <<>>] /\ snap = [p \in Process |-> <<>>]
    /\ life = [p \in Process |-> IF p \in AtFirst THEN "up" ELSE "later"]
    /\ inflight = [p \in Process |-> [r \in Request |-> NoCall]]
    /\ stage = [c \in Calls |-> "idle"]
    /\ knows = {} /\ steps = [c \in Calls |-> <<>>]
    /\ confirmed = {} /\ uncertain = {} /\ got = {}
    /\ result = [c \in Calls |-> "none"]
    /\ phone = [r \in Request |-> "none"]
    /\ cancelled = {}

-----------------------------------------------------------------------------
(* Outbox: the file *)

\* Outbox::modify_file, in two halves: read, ...
Load(p) ==
    /\ todo[p] # <<>> /\ snap[p] = <<>>
    /\ snap' = [snap EXCEPT ![p] = <<disk>>]
    /\ UNCHANGED <<route, disk, todo, life, inflight, stage, knows, transport, result, phone, cancelled>>

\* Outbox::set on a request the file does not have changes nothing.
Changed(f, change) ==
    [r \in Request |->
        IF r = change.of /\ (f[r] # "none" \/ change.insert) THEN change.to ELSE f[r]]

\* ... then written beside and renamed over.
Save(p) ==
    /\ snap[p] # <<>>
    /\ disk' = Changed(snap[p][1], Head(todo[p]))
    /\ todo' = [todo EXCEPT ![p] = Tail(@)]
    /\ snap' = [snap EXCEPT ![p] = <<>>]
    /\ UNCHANGED <<route, life, inflight, stage, knows, transport, result, phone, cancelled>>

Set(r, s)    == <<[of |-> r, to |-> s, insert |-> FALSE]>>
Insert(r)    == <<[of |-> r, to |-> "sending", insert |-> TRUE]>>
\* Outbox::mark_link_closed: the requests are written back as they were read.
MarkClosed   == <<[of |-> NoCall, to |-> "none", insert |-> FALSE]>>
ClosesLink   == IF OverIroh THEN <<>> ELSE MarkClosed

Does(p, changes) == todo' = [todo EXCEPT ![p] = @ \o changes] /\ UNCHANGED <<disk, snap>>

\* MUTANT of IsOpen: a process that died is still sending.
IsOpenForEver(r) == disk[r] \in {"delivered", "unconfirmed", "sending"}

\* Record::is_open: it may be in the wallet's queue.  A process that died is
\* not sending.  That a record stops counting with age is not modelled.
IsOpen(r) ==
    \/ disk[r] \in {"delivered", "unconfirmed"}
    \/ disk[r] = "sending" /\ life[Sender[r]] = "up"

-----------------------------------------------------------------------------
(* The tasks of a process *)

Started == {"started", "talking"}
Running == {"settling", "ending"} \cup Started

\* The process's thread is free: no task is between two awaits.
Idle(p) ==
    /\ life[p] = "up" /\ todo[p] = <<>>
    /\ \A c \in Calls : At(c) = p => stage[c] # "ending"

Moves(c, s) == stage' = [stage EXCEPT ![c] = s]

\* interact: the guard, then the dApp check is awaited.
Guard(c) ==
    /\ c[2] = "send" /\ stage[c] = "idle" /\ Idle(At(c))
    /\ IF \E r \in Request : IsOpen(r)
       THEN Moves(c, "ended") /\ result' = [result EXCEPT ![c] = "refused"]
       ELSE Moves(c, "checking") /\ UNCHANGED result
    /\ UNCHANGED <<route, file, life, inflight, knows, transport, phone, cancelled>>

\* MUTANT of StartCall: the request stands for its call.
StartRequest(c) ==
    /\ inflight' = [inflight EXCEPT ![At(c)][Of(c)] = Of(c)]
    /\ knows' = IF c[2] = "send" THEN knows ELSE knows \cup {c}

\* start_call: the call is the one cancel_request stops, in the place of any
\* other call for the same request.
StartCall(c) ==
    /\ inflight' = [inflight EXCEPT ![At(c)][Of(c)] = c]
    /\ knows' = IF c[2] = "send" THEN knows ELSE knows \cup {c}

\* run: over WebRTC the link settles first, and only then the call starts.
Run(c) ==
    IF OverIroh THEN Moves(c, "started") /\ StartCall(c)
                ELSE Moves(c, "settling") /\ UNCHANGED <<inflight, knows>>

\* interact: the dApp was checked; the request is recorded and run.
Record(c) ==
    /\ stage[c] = "checking" /\ Idle(At(c))
    /\ Does(At(c), Insert(Of(c)))
    /\ Run(c)
    /\ UNCHANGED <<route, life, transport, result, phone, cancelled>>

\* await_response and collect: wait for an answer, sending nothing.
Await(c) ==
    /\ c[2] = "await" /\ stage[c] = "idle" /\ Idle(At(c))
    /\ disk[Of(c)] \notin {"none", "answered"}
    /\ EarlyAwait \/ stage[<<Of(c), "send">>] = "ended"
    /\ Run(c)
    /\ UNCHANGED <<route, file, life, transport, result, phone, cancelled>>

\* settle_across_processes is over.
Settled(c) ==
    /\ stage[c] = "settling" /\ Idle(At(c))
    /\ Moves(c, "started") /\ StartCall(c)
    /\ UNCHANGED <<route, file, life, transport, result, phone, cancelled>>

-----------------------------------------------------------------------------
(* The transport below a call *)

\* Over WebRTC one call of the machine has the link's turn; over iroh one
\* process has the link, and one call of it waits for each request.
Connects(c) ==
    /\ stage[c] = "started" /\ Idle(At(c))
    /\ \A d \in Calls : stage[d] = "talking" =>
          OverIroh /\ At(d) = At(c) /\ Of(d) # Of(c)
    /\ Moves(c, "talking")
    /\ UNCHANGED <<route, file, life, inflight, knows, transport, result, phone, cancelled>>

Talking(c) == stage[c] = "talking"
Sends(c)   == Talking(c) /\ c[2] = "send"

WalletReceives(c) ==
    /\ Sends(c) /\ phone[Of(c)] = "none"
    /\ phone' = [phone EXCEPT ![Of(c)] = "queued"]
    /\ UNCHANGED <<route, file, life, inflight, stage, knows, transport, result, cancelled>>

\* Progress::Delivered.
Confirms(c) ==
    /\ Sends(c) /\ Idle(At(c)) /\ phone[Of(c)] # "none" /\ c \notin confirmed \cup uncertain
    /\ confirmed' = confirmed \cup {c}
    /\ steps' = [steps EXCEPT ![c] = Append(@, "delivered")]
    /\ UNCHANGED <<route, file, life, inflight, stage, knows, uncertain, got, result, phone, cancelled>>

\* Progress::Unconfirmed, over iroh: it is never sent again.
LosesTrack(c) ==
    /\ OverIroh /\ Sends(c) /\ Idle(At(c)) /\ c \notin confirmed \cup uncertain
    /\ uncertain' = uncertain \cup {c}
    /\ steps' = [steps EXCEPT ![c] = Append(@, "unconfirmed")]
    /\ UNCHANGED <<route, file, life, inflight, stage, knows, confirmed, got, result, phone, cancelled>>

Decides(r) ==
    /\ phone[r] = "queued"
    /\ phone' = [phone EXCEPT ![r] = "decided"]
    /\ UNCHANGED <<route, file, life, inflight, stage, knows, transport, result, cancelled>>

\* The answer goes to the call that waits for it, ...
AnswerArrives(c) ==
    /\ Talking(c) /\ phone[Of(c)] = "decided"
    /\ c[2] = "await" \/ c \in confirmed \cup uncertain
    /\ got' = got \cup {c}
    /\ phone' = [phone EXCEPT ![Of(c)] = "told"]
    /\ UNCHANGED <<route, file, life, inflight, stage, knows, steps, confirmed, uncertain, result, cancelled>>

\* ... or is read on the channel of others: Progress::OtherMessage.
LateAnswerArrives(r) ==
    /\ phone[r] = "decided"
    /\ \E c \in Calls : Talking(c)
    /\ \A c \in Calls : Talking(c) => Of(c) # r
    /\ steps' = [c \in Calls |-> IF Talking(c) THEN Append(steps[c], r) ELSE steps[c]]
    /\ phone' = [phone EXCEPT ![r] = "told"]
    /\ UNCHANGED <<route, file, life, inflight, stage, knows, confirmed, uncertain, got, result, cancelled>>

-----------------------------------------------------------------------------
(* The bookkeeping of a call *)

\* on_step, on_iroh_step and late_answer: what a step changes in the file.
Changes(c, step) ==
    CASE step = "delivered"   -> Set(Of(c), "delivered")
      [] step = "unconfirmed" -> Set(Of(c), "unconfirmed")
      [] OTHER -> IF disk[step] \in {"none", "answered"} THEN <<>> ELSE Set(step, "answered")

\* A step is read as it arrives, or when the call ended.
ReadStep(c) ==
    /\ steps[c] # <<>> /\ todo[At(c)] = <<>>
    /\ stage[c] = "ending" \/ (stage[c] = "talking" /\ Idle(At(c)))
    /\ knows' = IF Head(steps[c]) = "delivered" THEN knows \cup {c} ELSE knows
    /\ Does(At(c), Changes(c, Head(steps[c])))
    /\ steps' = [steps EXCEPT ![c] = Tail(@)]
    /\ UNCHANGED <<route, life, inflight, stage, confirmed, uncertain, got, result, phone, cancelled>>

\* The select! of run_webrtc and run_iroh: the exchange ended, or its stop
\* was sent or dropped.
Stopped(c) == inflight[At(c)][Of(c)] # c

Ends(c) ==
    /\ stage[c] \in Started /\ Idle(At(c))
    /\ \/ c \in got /\ result' = [result EXCEPT ![c] = "answer"]
       \/ c \notin got /\ result' = [result EXCEPT ![c] = "failed"]
       \/ /\ OverIroh /\ Sends(c) /\ c \notin got \cup confirmed
          /\ result' = [result EXCEPT ![c] = "notConfirmed"]
    /\ Moves(c, "ending")
    /\ UNCHANGED <<route, file, life, inflight, knows, transport, phone, cancelled>>

IsStopped(c) ==
    /\ stage[c] \in Started /\ Idle(At(c)) /\ Stopped(c)
    /\ result' = [result EXCEPT ![c] = "stopped"]
    /\ Moves(c, "ending")
    /\ UNCHANGED <<route, file, life, inflight, knows, transport, phone, cancelled>>

\* What a call that ended writes.  run_webrtc, auto_state and iroh_state say
\* which state a failure leaves; one that only waited leaves it as it was.
Concluded(c) ==
    CASE result[c] = "answer" -> Set(Of(c), "answered")
      [] result[c] = "notConfirmed" -> Set(Of(c), "unconfirmed")
      [] result[c] = "failed" /\ c[2] = "send" ->
            Set(Of(c), IF c \in knows THEN "delivered" ELSE "notDelivered")
      [] OTHER -> <<>>

\* conclude, once no step is left; then Unfinished, and over WebRTC
\* MarksLink, are dropped.
Conclude(c) ==
    /\ stage[c] = "ending" /\ steps[c] = <<>> /\ todo[At(c)] = <<>>
    /\ Does(At(c), Concluded(c) \o ClosesLink)
    /\ inflight' = [inflight EXCEPT ![At(c)][Of(c)] = NoCall]
    /\ Moves(c, "ended")
    /\ UNCHANGED <<route, life, knows, transport, result, phone, cancelled>>

\* MUTANTS of Unfinished: what the call knew is not looked at, or nothing is
\* recorded.
UnfinishedAnyhow(c) == IF c[2] = "send" THEN Set(Of(c), "notDelivered") ELSE <<>>
UnfinishedNever(c)  == IF c \in Calls THEN <<>> ELSE MarkClosed

\* Unfinished::drop, of a call that did not end by itself.
Unfinished(c) ==
    IF c[2] = "send" /\ c \notin knows THEN Set(Of(c), "notDelivered") ELSE <<>>

\* The client cancels the call: its future is dropped where it is, with what
\* its Unfinished does once the call started.
Abort(c) ==
    /\ stage[c] \in {"checking", "settling"} \cup Started /\ Idle(At(c))
    /\ IF stage[c] \in Started
       THEN /\ Does(At(c), Unfinished(c) \o ClosesLink)
            /\ inflight' = [inflight EXCEPT ![At(c)][Of(c)] = NoCall]
       ELSE UNCHANGED <<file, inflight>>
    /\ result' = [result EXCEPT ![c] = "abandoned"]
    /\ steps' = [steps EXCEPT ![c] = <<>>]
    /\ Moves(c, "ended")
    /\ UNCHANGED <<route, life, knows, confirmed, uncertain, got, phone, cancelled>>

\* MUTANT of Clears: an answered one is cleared too.
ClearsAnything(r) == Set(r, "cancelled")

Clears(r) == IF disk[r] \in {"none", "answered"} THEN <<>> ELSE Set(r, "cancelled")

\* cancel_request for one request: the call that runs here is stopped, and
\* the record is cleared unless it was answered.
CancelRequest(r) ==
    LET p       == ClearedBy[r]
        running == inflight[p][r] # NoCall
        was     == disk[r]
    IN  /\ r \in Clearer \ cancelled /\ Idle(p)
        /\ was # "none" \/ running
        /\ inflight' = [inflight EXCEPT ![p][r] = NoCall]
        /\ Does(p, Clears(r))
        /\ cancelled' = cancelled \cup {r}
        /\ UNCHANGED <<route, life, stage, knows, transport, result, phone>>

\* A process is killed: nothing of it is dropped.
Dies(p) ==
    /\ p \in Mortal /\ life[p] = "up"
    /\ life' = [life EXCEPT ![p] = "dead"]
    /\ todo' = [todo EXCEPT ![p] = <<>>] /\ snap' = [snap EXCEPT ![p] = <<>>]
    /\ stage' = [c \in Calls |-> IF At(c) = p THEN "ended" ELSE stage[c]]
    /\ steps' = [c \in Calls |-> IF At(c) = p THEN <<>> ELSE steps[c]]
    /\ UNCHANGED <<route, disk, inflight, knows, confirmed, uncertain, got, result, phone, cancelled>>

\* The connector is started again: another process.
Starts(p) ==
    /\ life[p] = "later" /\ \A q \in Process : life[q] # "up"
    /\ life' = [life EXCEPT ![p] = "up"]
    /\ UNCHANGED <<route, file, inflight, stage, knows, transport, result, phone, cancelled>>

\* Nothing is left to do: the calls a run makes have all ended.
Quiet ==
    /\ \A p \in Process : life[p] = "up" => Idle(p)
    /\ \A c \in Calls : stage[c] \in {"idle", "ended"}
    /\ UNCHANGED vars

Advances(c) ==
    \/ Guard(c) \/ Record(c) \/ Await(c) \/ Settled(c)
    \/ ReadStep(c) \/ Ends(c) \/ IsStopped(c) \/ Conclude(c)

Next ==
    \/ \E p \in Process : Load(p) \/ Save(p) \/ Dies(p) \/ Starts(p)
    \/ \E c \in Calls :
          \/ Advances(c) \/ Connects(c) \/ WalletReceives(c) \/ Confirms(c) \/ LosesTrack(c)
          \/ AnswerArrives(c) \/ Abort(c)
    \/ \E r \in Request : Decides(r) \/ LateAnswerArrives(r)
    \/ \E r \in Clearer : CancelRequest(r)
    \/ Quiet

Spec == Init /\ [][Next]_vars

-----------------------------------------------------------------------------
(* Properties *)

States == {"none", "sending", "delivered", "unconfirmed", "answered", "notDelivered", "cancelled"}

\* Every variable holds a value of its kind.
TypeOK ==
    /\ route \in Routes
    /\ disk \in [Request -> States]
    /\ \A p \in Process : snap[p] = <<>> \/ snap[p][1] \in [Request -> States]
    /\ life \in [Process -> {"later", "up", "dead"}]
    /\ inflight \in [Process -> [Request -> Calls \cup {NoCall}]]
    /\ stage \in [Calls -> {"idle", "checking", "ended"} \cup Running]
    /\ knows \subseteq Calls /\ confirmed \subseteq Calls
    /\ uncertain \subseteq Calls /\ got \subseteq Calls
    /\ \A c \in Calls : \A i \in DOMAIN steps[c] :
          steps[c][i] \in {"delivered", "unconfirmed"} \cup Request
    /\ result \in [Calls -> {"none", "refused", "answer", "failed", "notConfirmed",
                            "stopped", "abandoned"}]
    /\ phone \in [Request -> {"none", "queued", "decided", "told"}]
    /\ cancelled \subseteq Request

\* What a call learned of the phone is not forgotten, however it ended: a
\* request the wallet confirmed is recorded as delivered until it is answered
\* or cleared.
DeliveryIsRecorded ==
    \A r \in Request :
        <<r, "send">> \in knows /\ Idle(Sender[r]) => disk[r] \in {"delivered", "answered", "cancelled"}

\* An answer that a call returned is what the record says from then on.
AnswerIsRecorded ==
    \A c \in Calls :
        result[c] = "answer" /\ stage[c] = "ended" /\ Idle(At(c)) => disk[Of(c)] = "answered"

\* A record says "sending" only while a call is sending: nothing else ever
\* moves it, and it stops every other request.
SendingIsBeingSent ==
    \A r \in Request :
        disk[r] = "sending" /\ Idle(Sender[r]) => stage[<<r, "send">>] \in Running

\* Over iroh that is so: nothing is awaited between the record and the guard
\* that settles it.  (Over WebRTC it is not: see the README.)
SendingOverIroh == OverIroh => SendingIsBeingSent

\* Nothing stops new requests without cause: over iroh, a request the record
\* says may be in the wallet's queue is being sent by a process that lives, or
\* the wallet has seen it, or its transport could not tell.
OpenHasACause ==
    OverIroh => \A r \in Request :
        LET c == <<r, "send">>
        IN  IsOpen(r) =>
               \/ life[Sender[r]] = "up" /\ (stage[c] \in Running \/ ~Idle(Sender[r]))
               \/ phone[r] # "none"
               \/ c \in uncertain \/ result[c] = "notConfirmed"

-----------------------------------------------------------------------------
(* What comments of the code say, and the code does not always do *)

\* exchange.rs, Ended::Cancelled: "`cancel_request` stopped it."
OnlyCancelStops ==
    \A c \in Calls : result[c] = "stopped" => Of(c) \in cancelled

\* exchange.rs, interact: "refuses to send while an earlier request may still
\* be waiting in the wallet's queue".
OneInTheQueue == \A r, s \in Request : phone[r] = "queued" /\ phone[s] = "queued" => r = s
=============================================================================
