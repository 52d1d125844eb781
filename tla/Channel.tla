------------------------------- MODULE Channel -------------------------------
(***************************************************************************)
(* The messages of one direction of an SDK-to-SDK channel:                 *)
(* crates/connect-iroh/src/channel.rs.  Every message has a QUIC stream of *)
(* its own; the receiver answers on it with one status byte.               *)
(*                                                                         *)
(* A message is three pieces, its length, its body and the end of its      *)
(* stream, which arrive as they are written.  Both calls may be cancelled  *)
(* at any await: a send that did not finish its stream resets it, a        *)
(* receive keeps what has arrived.  QUIC delivers what is sent in order on *)
(* a stream, until the connection goes.                                    *)
(***************************************************************************)
EXTENDS Naturals, Sequences, FiniteSets

CONSTANT Messages     \* bound: messages sent

\* A message of this SDK that both ends or only one end has room for, and what
\* another implementation may send: longer or shorter than it announces, or no
\* JSON document.
Kinds == {"fits", "large", "long", "short", "garbage"}

VARIABLES stream,     \* the stream of each message
          opened,     \* how many were opened
          sending,    \* the message being sent, or 0
          sent,       \* what send_message returned for each
          inbound,    \* Inbound: the stream being read, what was read, the verdict
          next,       \* the next stream to accept
          handed,     \* messages handed to the receiver's caller
          last,       \* the message last_answer confirms, or 0
          conn,       \* "open", "closing", "closed" by the receiver, or "lost"
          hurried     \* whether closing gave up waiting for the confirmation

channel == <<stream, opened, sending, sent, inbound, next, handed, last, conn, hurried>>

Nothing == [at |-> 0, read |-> 0, verdict |-> "none"]

ChannelInit ==
    /\ stream = [i \in 1..Messages |->
                   [kind |-> "fits", written |-> 0, end |-> "open", stop |-> "none",
                    answer |-> "none", arrived |-> FALSE]]
    /\ opened = 0 /\ sending = 0
    /\ sent = [i \in 1..Messages |-> "none"]
    /\ inbound = Nothing /\ next = 1
    /\ handed = <<>> /\ last = 0
    /\ conn = "open" /\ hurried = FALSE

\* The pieces of a message before the end of its stream.
Pieces(i) == CASE stream[i].kind = "long" -> 3
               [] stream[i].kind = "short" -> 1
               [] OTHER -> 2

Up == conn \in {"open", "closing"}

(***************************************************************************)
(* send_message and deliver                                                *)
(***************************************************************************)

Return(i, r) == sending' = 0 /\ sent' = [sent EXCEPT ![i] = r]

Open(k) ==
    /\ sending = 0 /\ opened < Messages
    /\ Up
    /\ opened' = opened + 1
    /\ sending' = opened + 1
    /\ stream' = [stream EXCEPT ![opened + 1].kind = k]
    /\ UNCHANGED <<sent, inbound, next, handed, last, conn, hurried>>

\* Guarded::write_all, which the receiver's stop ends.
Write ==
    LET i == sending IN
    /\ i # 0 /\ Up /\ stream[i].end = "open"
    /\ \/ /\ stream[i].stop = "none" /\ stream[i].written < Pieces(i)
          /\ stream' = [stream EXCEPT ![i].written = @ + 1]
          /\ UNCHANGED <<sending, sent>>
       \/ /\ stream[i].stop # "none"
          /\ Return(i, IF stream[i].stop = "abandoned" THEN "lost" ELSE "refused")
          /\ stream' = [stream EXCEPT ![i].end = "reset"]
    /\ UNCHANGED <<opened, inbound, next, handed, last, conn, hurried>>

\* Guarded::finish: from here on the message is whole.
Finish ==
    LET i == sending IN
    /\ i # 0 /\ Up /\ stream[i].end = "open" /\ stream[i].written = Pieces(i)
    /\ stream' = [stream EXCEPT ![i].end = "finished"]
    /\ UNCHANGED <<opened, sending, sent, inbound, next, handed, last, conn, hurried>>

\* Guarded, dropped.
Abandon(i) == stream' = [stream EXCEPT ![i].end = IF @ = "open" THEN "reset" ELSE @]

\* The call is cancelled, or message_timeout passes.
SendEnds ==
    /\ sending # 0
    /\ Abandon(sending)
    /\ Return(sending, "timeout")
    /\ UNCHANGED <<opened, inbound, next, handed, last, conn, hurried>>

\* The status byte and the end of the answer arrive: read_to_end.
AnswerArrives ==
    /\ Up
    /\ \E k \in 1..opened : stream[k].answer # "none" /\ ~stream[k].arrived
         /\ stream' = [stream EXCEPT ![k].arrived = TRUE]
    /\ UNCHANGED <<opened, sending, sent, inbound, next, handed, last, conn, hurried>>

SendAnswered ==
    LET i == sending IN
    /\ i # 0 /\ stream[i].end = "finished" /\ stream[i].arrived
    /\ Return(i, CASE stream[i].answer = "taken" -> "ok"
                   [] stream[i].answer = "reset" -> "lost"
                   [] OTHER -> "refused")
    /\ UNCHANGED <<stream, opened, inbound, next, handed, last, conn, hurried>>

SendLosesConnection ==
    LET i == sending IN
    /\ i # 0 /\ ~Up
    /\ stream[i].end = "finished" => ~stream[i].arrived
    /\ Return(i, "lost")
    /\ Abandon(i)
    /\ UNCHANGED <<opened, inbound, next, handed, last, conn, hurried>>

(***************************************************************************)
(* recv_message: one stream after the other                                *)
(***************************************************************************)

Accept ==
    /\ conn = "open" /\ inbound.at = 0 /\ next <= opened
    /\ inbound' = [Nothing EXCEPT !.at = next]
    /\ next' = next + 1
    /\ UNCHANGED <<stream, opened, sending, sent, handed, last, conn, hurried>>

Reading == conn = "open" /\ inbound.at # 0 /\ inbound.verdict = "none"

\* A chunk: the length, judged before anything else; the body; or more.
ReadPiece ==
    LET i == inbound.at
        n == inbound.read + 1
        refuses == CASE n = 1 /\ stream[i].kind = "large" -> "tooLarge"
                     [] n = 3 -> "malformed"
                     [] OTHER -> "none"
    IN  /\ Reading /\ stream[i].end # "reset" /\ inbound.read < stream[i].written
        /\ inbound' = [inbound EXCEPT !.read = n, !.verdict = refuses]
        /\ stream' = IF refuses = "none" THEN stream
                     ELSE [stream EXCEPT ![i].stop = refuses]
        /\ UNCHANGED <<opened, sending, sent, next, handed, last, conn, hurried>>

\* MUTANT of Whole: the end of the stream is taken for the end of the message.
AnyEnd == inbound.read \in 0..3

\* The body has arrived, all that the length announced.
Whole == inbound.read = 2

\* The end of the stream right after the body: decide_body.
ReadEnd ==
    LET i == inbound.at IN
    /\ Reading /\ stream[i].end = "finished" /\ inbound.read = stream[i].written
    /\ Whole
    /\ inbound' = [inbound EXCEPT !.verdict =
                     IF stream[i].kind = "garbage" THEN "malformed" ELSE "taken"]
    /\ UNCHANGED <<stream, opened, sending, sent, next, handed, last, conn, hurried>>

\* Reset, or ended before it was complete: dropped without an answer.
ReadAbandoned ==
    LET i == inbound.at IN
    /\ Reading
    /\ \/ stream[i].end = "reset"
       \/ stream[i].end = "finished" /\ inbound.read = stream[i].written /\ ~Whole
    /\ inbound' = Nothing
    /\ stream' = [stream EXCEPT ![i].answer = "reset"]
    /\ UNCHANGED <<opened, sending, sent, next, handed, last, conn, hurried>>

\* The status byte is written and the verdict handed over.
Answer ==
    LET i == inbound.at IN
    /\ conn = "open" /\ inbound.verdict # "none"
    /\ stream' = [stream EXCEPT ![i].answer = inbound.verdict]
    /\ handed' = IF inbound.verdict = "taken" THEN Append(handed, i) ELSE handed
    /\ last' = i
    /\ inbound' = Nothing
    /\ UNCHANGED <<opened, sending, sent, next, conn, hurried>>

\* The message did not arrive whole in its time, decided or not.
ReceiveTimesOut ==
    LET i == inbound.at IN
    /\ conn = "open" /\ i # 0
    /\ inbound' = Nothing
    /\ stream' = [stream EXCEPT ![i].answer = "reset", ![i].stop = "abandoned"]
    /\ UNCHANGED <<opened, sending, sent, next, handed, last, conn, hurried>>

(***************************************************************************)
(* The connection                                                          *)
(***************************************************************************)

\* close, or the channel dropped: no message is received any more.
Close ==
    /\ conn = "open"
    /\ conn' = "closing"
    /\ UNCHANGED <<stream, opened, sending, sent, inbound, next, handed, last, hurried>>

\* MUTANT of LastArrived: the connection is closed at once.
AtOnce == last \in 0..Messages

\* answer.stopped(): the peer has our confirmation of the last message.
LastArrived == last # 0 => stream[last].arrived

Closed ==
    /\ conn = "closing"
    /\ LastArrived
    /\ conn' = "closed"
    /\ UNCHANGED <<stream, opened, sending, sent, inbound, next, handed, last, hurried>>

\* close_timeout passes first.
ClosedInAHurry ==
    /\ conn = "closing" /\ ~LastArrived
    /\ conn' = "closed" /\ hurried' = TRUE
    /\ UNCHANGED <<stream, opened, sending, sent, inbound, next, handed, last>>

ConnectionLost ==
    /\ Up
    /\ conn' = "lost"
    /\ UNCHANGED <<stream, opened, sending, sent, inbound, next, handed, last, hurried>>

ChannelNext ==
    \/ \E k \in Kinds : Open(k)
    \/ Write \/ Finish \/ SendEnds \/ AnswerArrives \/ SendAnswered
    \/ SendLosesConnection
    \/ Accept \/ ReadPiece \/ ReadEnd \/ ReadAbandoned \/ Answer \/ ReceiveTimesOut
    \/ Close \/ Closed \/ ClosedInAHurry \/ ConnectionLost

(***************************************************************************)
(* Properties                                                              *)
(***************************************************************************)

\* What a send returns is what became of the message: confirmed when the peer's
\* caller has it, refused when it never will; and a message is handed over only
\* whole, once, in the order of sending, whoever cancelled what (channel.rs).
SendTellsTheTruth ==
    LET Has(i) == \E k \in DOMAIN handed : handed[k] = i IN
    /\ \A i \in 1..Messages :
         /\ sent[i] = "ok" => Has(i)
         /\ sent[i] = "refused" => ~Has(i)
         /\ Has(i) => stream[i].kind = "fits" /\ stream[i].written = Pieces(i)
                      /\ stream[i].end = "finished"
    /\ \A j, k \in DOMAIN handed : j < k => handed[j] < handed[k]

\* Closing a channel right after a message does not make its sender believe it
\* lost: only a connection that goes by itself, or a confirmation slower than
\* close_timeout, does.
ClosingConfirms ==
    \A k \in DOMAIN handed :
        sent[handed[k]] = "lost" => conn = "lost" \/ hurried
=============================================================================
