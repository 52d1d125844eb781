----------------------------- MODULE OutboxProofs -----------------------------
(***************************************************************************)
(* What the record of requests promises, for any number of requests,       *)
(* processes and calls: an answer that a call returned stays recorded,     *)
(* what a call knows of the phone is recorded, and over iroh a record that *)
(* says "sending" is of a call that is sending.  All of it as long as one  *)
(* connector process runs at a time: requests.json is read and renamed     *)
(* with no lock, and two processes lose each other's changes.              *)
(***************************************************************************)
EXTENDS Outbox, Naturals, SequenceTheorems, TLAPS

\* One connector process of the machine runs at a time: another is started when
\* the one before it is gone.
OneAtATime == \A p, q \in AtFirst : p = q

Change == [of : Request \cup {NoCall}, to : States, insert : BOOLEAN]
Steps == {"delivered", "unconfirmed"} \cup Request
Results == {"none", "refused", "answer", "failed", "notConfirmed", "stopped", "abandoned"}

Send(r) == <<r, "send">>
Wait(r) == <<r, "await">>

StepsOf(c) == {steps[c][i] : i \in 1..Len(steps[c])}

OutboxTypes ==
    /\ life \in [Process -> {"later", "up", "dead"}]
    /\ inflight \in [Process -> [Request -> Calls \cup {NoCall}]]
    /\ stage \in [Calls -> {"idle", "checking", "ended"} \cup Running]
    /\ steps \in [Calls -> Seq(Steps)]
    /\ result \in [Calls -> Results]
    /\ phone \in [Request -> {"none", "queued", "decided", "told"}]

\* One process runs, its thread is in one place, and one call of it is ending.
OneThread ==
    /\ \A p, q \in Process : life[p] = "up" /\ life[q] = "up" => p = q
    /\ \A c \in Calls : /\ life[At(c)] = "later" => stage[c] = "idle"
                        /\ life[At(c)] = "dead" => stage[c] = "ended"
    /\ \A c, d \in Calls : stage[c] = "ending" /\ stage[d] = "ending" => c = d

\* What a request's record is about to say: the first change queued applied.
Soon(p, r) == IF todo[p] # <<>> /\ Head(todo[p]).of = r THEN Head(todo[p]).to ELSE disk[r]

\* One change of a request is queued, made from what the file says, and it takes
\* no answer back.
QueueInv ==
    \A p \in Process :
        /\ snap[p] # <<>> => snap[p] = <<disk>> /\ todo[p] # <<>>
        /\ todo[p] # <<>> =>
             LET x == Head(todo[p]) IN
             /\ Tail(todo[p]) \in {<<>>, MarkClosed}
             /\ x.of \in Request => /\ x.insert <=> disk[x.of] = "none"
                                    /\ x.to = "sending" <=> x.insert
                                    /\ x.to # "none"
                                    /\ disk[x.of] = "answered" => x.to = "answered"

\* Nothing is queued or read by a process that is gone.
FileInv ==
    /\ disk \in [Request -> States]
    /\ todo \in [Process -> Seq(Change)]
    /\ snap \in [Process -> {<<>>} \cup {<<f>> : f \in [Request -> States]}]
    /\ \A p \in Process : life[p] # "up" => todo[p] = <<>> /\ snap[p] = <<>>
    /\ QueueInv

\* Where the call that sends a request is, and what its record is about to say.
RecordInv(r) ==
    LET c == Send(r) IN
    /\ \A p \in Process :
         /\ stage[c] \in {"idle", "checking"} => Soon(p, r) = "none"
         /\ Soon(p, r) = "answered" => stage[c] = "ended"
         /\ stage[Wait(r)] \in Running => Soon(p, r) # "none"
    /\ stage[c] \in Running => Soon(Sender[r], r) # "none"
    /\ phone[r] # "none" => stage[c] \in {"talking", "ending", "ended"}
    /\ stage[c] # "talking" \/ stage[Wait(r)] # "talking"
    /\ Wait(r) \in got => stage[c] \in {"ending", "ended"}

\* What a call has been told by its transport, and what it told of its end.
CallInv(c) ==
    /\ "delivered" \in StepsOf(c) => c \in confirmed
    /\ "unconfirmed" \in StepsOf(c) => c \in uncertain
    /\ \A r \in Request \cap StepsOf(c) : r # Of(c) /\ stage[Send(r)] \in {"ending", "ended"}
    /\ c \in confirmed => c[2] = "send" /\ c \notin uncertain
                          /\ stage[c] \in {"talking", "ending", "ended"}
    /\ c \in uncertain => c[2] = "send"
    /\ stage[c] = "checking" => c[2] = "send"
    /\ stage[c] \in {"idle", "checking", "settling", "started", "talking"} => result[c] = "none"
    /\ stage[c] = "ending" => result[c] \in {"answer", "failed", "notConfirmed", "stopped"}
    /\ result[c] = "answer" => c \in got
    /\ result[c] = "notConfirmed" => c[2] = "send" /\ c \notin confirmed
    /\ result[c] = "answer" /\ stage[c] = "ended" /\ life[At(c)] = "up" =>
         Soon(At(c), Of(c)) = "answered"

\* What a sending call knows of the phone is what its record is about to say.
DeliveredInv(r) ==
    LET c == Send(r) IN
    c \in knows => /\ c \in confirmed
                   /\ life[Sender[r]] = "up" =>
                        Soon(Sender[r], r) \in {"delivered", "answered", "cancelled"}

\* Over iroh, a record that is about to say "sending" is of a call that is
\* sending, and one that was stopped was cleared.
SendingInv(r) ==
    LET c == Send(r) IN
    OverIroh /\ ~EarlyAwait =>
        /\ stage[c] # "settling" /\ stage[Wait(r)] # "settling"
        /\ stage[Wait(r)] \in Running => stage[c] = "ended"
        /\ life[Sender[r]] = "up" /\ Soon(Sender[r], r) = "sending" => stage[c] \in Running
        /\ /\ life[Sender[r]] = "up" /\ stage[c] \in Started \cup {"ending"}
           /\ inflight[Sender[r]][r] # c \/ result[c] = "stopped"
           => Soon(Sender[r], r) # "sending"

OutboxInv ==
    /\ OutboxTypes /\ OneThread /\ FileInv
    /\ \A r \in Request : RecordInv(r) /\ DeliveredInv(r) /\ SendingInv(r)
    /\ \A c \in Calls : CallInv(c)

-----------------------------------------------------------------------------
(* Calls, requests and sequences of steps *)

\* The two calls of a request.
LEMMA RequestIs ==
  ASSUME NEW r \in Request
  PROVE  /\ Send(r) \in Calls /\ Of(Send(r)) = r /\ At(Send(r)) = Sender[r] /\ Send(r)[2] = "send"
         /\ Wait(r) \in Calls /\ Of(Wait(r)) = r /\ At(Wait(r)) = Awaiter[r]
         /\ Wait(r)[2] = "await" /\ Sender[r] \in Process /\ Awaiter[r] \in Process
  BY OutboxAssumption DEF Send, Wait, Calls, Of, At

\* A call is one of the two of its request.
LEMMA CallIs ==
  ASSUME NEW c \in Calls
  PROVE  /\ Of(c) \in Request /\ At(c) \in Process
         /\ \/ c[2] = "send" /\ c = Send(Of(c)) /\ At(c) = Sender[Of(c)]
            \/ c[2] = "await" /\ c = Wait(Of(c)) /\ At(c) = Awaiter[Of(c)]
  <1>1. PICK r \in Request, way \in {"send", "await"} : c = <<r, way>>
    BY DEF Calls
  <1> QED BY <1>1, OutboxAssumption DEF Send, Wait, Of, At

\* What a sequence with one more holds, ...
LEMMA ValuesOfAppend ==
  ASSUME NEW S, NEW s \in Seq(S), NEW x \in S
  PROVE  /\ Append(s, x) \in Seq(S)
         /\ {Append(s, x)[i] : i \in 1..Len(Append(s, x))} = {s[i] : i \in 1..Len(s)} \cup {x}
  <1> DEFINE t == Append(s, x)
  <1>1. /\ t \in Seq(S) /\ Len(s) \in Nat /\ Len(t) = Len(s) + 1 /\ t[Len(s) + 1] = x
        /\ \A i \in 1..Len(s) : t[i] = s[i]
    OBVIOUS
  <1>2. \A i \in 1..Len(t) : i \in 1..Len(s) \/ i = Len(s) + 1
    BY <1>1
  <1>3. 1..Len(s) \subseteq 1..Len(t) /\ Len(s) + 1 \in 1..Len(t)
    BY <1>1
  <1> HIDE DEF t
  <1> QED BY <1>1, <1>2, <1>3 DEF t

\* ... and one without its first.
LEMMA ValuesOfTail ==
  ASSUME NEW S, NEW s \in Seq(S), s # <<>>
  PROVE  /\ Tail(s) \in Seq(S) /\ Head(s) \in S
         /\ Head(s) \in {s[i] : i \in 1..Len(s)}
         /\ {Tail(s)[i] : i \in 1..Len(Tail(s))} \subseteq {s[i] : i \in 1..Len(s)}
  <1>1. /\ Tail(s) \in Seq(S) /\ Len(s) \in Nat \ {0} /\ Len(Tail(s)) = Len(s) - 1
        /\ Head(s) = s[1] /\ s[1] \in S /\ \A i \in 1..Len(Tail(s)) : Tail(s)[i] = s[i + 1]
    OBVIOUS
  <1>2. 1 \in 1..Len(s) /\ \A i \in 1..Len(Tail(s)) : i + 1 \in 1..Len(s)
    BY <1>1
  <1> QED BY <1>1, <1>2

\* A sequence of one.
LEMMA OneOf ==
  ASSUME NEW S, NEW x \in S
  PROVE  <<x>> \in Seq(S) /\ <<x>> # <<>> /\ Head(<<x>>) = x /\ Tail(<<x>>) = <<>>
  OBVIOUS

\* A sequence with one put before it.
LEMMA FirstOfMore ==
  ASSUME NEW S, NEW x \in S, NEW s \in Seq(S)
  PROVE  LET t == <<x>> \o s IN
         t \in Seq(S) /\ t # <<>> /\ Head(t) = x /\ Tail(t) = s
  <1> DEFINE t == <<x>> \o s
  <1>1. <<x>> \in Seq(S)
    OBVIOUS
  <1>2. /\ t \in Seq(S) /\ Len(t) = 1 + Len(s) /\ Len(s) \in Nat
        /\ \A i \in 1..(1 + Len(s)) : t[i] = IF i <= 1 THEN <<x>>[i] ELSE s[i - 1]
    BY <1>1, ConcatProperties
  <1>3. t # <<>> /\ Head(t) = x
    BY <1>2
  <1>4. /\ Tail(t) \in Seq(S) /\ Len(Tail(t)) = Len(s)
        /\ \A i \in 1..Len(s) : Tail(t)[i] = t[i + 1]
    BY <1>2, <1>3, HeadTailProperties
  <1>5. \A i \in 1..Len(s) : Tail(t)[i] = s[i]
    BY <1>2, <1>4
  <1> QED BY <1>2, <1>3, <1>4, <1>5, SeqEqual

-----------------------------------------------------------------------------
(* The file and the changes queued *)

\* A step that leaves the file alone leaves what it is about to say.
LEMMA FileStays ==
  ASSUME FileInv, UNCHANGED <<file, life>>
  PROVE  /\ FileInv'
         /\ \A p \in Process, r \in Request : Soon(p, r)' = Soon(p, r)
  BY DEF FileInv, QueueInv, Soon, file

\* A process that is up and has nothing queued finds in the file what is.
LEMMA SoonIsNow ==
  ASSUME FileInv, OneThread, NEW p \in Process, life[p] = "up", todo[p] = <<>>
  PROVE  \A q \in Process : todo[q] = <<>> /\ \A r \in Request : Soon(q, r) = disk[r]
  BY DEF FileInv, OneThread, Soon

\* mark_link_closed changes no request's record.
LEMMA MarkClosedIs ==
  /\ MarkClosed \in Seq(Change) /\ MarkClosed # <<>>
  /\ Head(MarkClosed).of \notin Request /\ Tail(MarkClosed) = <<>>
  <1> DEFINE m == [of |-> NoCall, to |-> "none", insert |-> FALSE]
  <1>1. m \in Change /\ m.of \notin Request
    BY OutboxAssumption DEF Change, States
  <1> QED BY <1>1, OneOf DEF MarkClosed

\* A process that has nothing queued queues no change of a request.
LEMMA QueueNothing ==
  ASSUME FileInv, OneThread, NEW p \in Process, life[p] = "up",
         todo[p] = <<>>, NEW changes \in {<<>>, MarkClosed}, Does(p, changes), UNCHANGED life
  PROVE  /\ FileInv'
         /\ \A q \in Process, r \in Request : Soon(q, r)' = disk[r] /\ Soon(q, r) = disk[r]
  <1>1. /\ changes \in Seq(Change)
        /\ changes # <<>> => Head(changes).of \notin Request /\ Tail(changes) = <<>>
    BY MarkClosedIs, EmptySeq
  <1>2. /\ UNCHANGED <<disk, snap>> /\ snap[p] = <<>> /\ todo'[p] = changes
        /\ \A q \in Process : q # p => todo'[q] = todo[q]
        /\ todo' \in [Process -> Seq(Change)]
    <2>1. todo \in [Process -> Seq(Change)] /\ todo' = [todo EXCEPT ![p] = todo[p] \o changes]
          /\ UNCHANGED <<disk, snap>>
      BY DEF FileInv, Does
    <2>2. <<>> \o changes = changes
      BY <1>1, ConcatEmptySeq
    <2>3. snap[p] = <<>>
      BY DEF FileInv, QueueInv
    <2> QED BY <1>1, <2>1, <2>2, <2>3
  <1>3. QueueInv'
    BY <1>1, <1>2 DEF FileInv, QueueInv
  <1>4. FileInv'
    BY <1>2, <1>3 DEF FileInv
  <1>5. ASSUME NEW q \in Process, NEW r \in Request
        PROVE  Soon(q, r)' = disk[r] /\ Soon(q, r) = disk[r]
    <2>1. Soon(q, r) = disk[r] /\ todo[q] = <<>>
      BY SoonIsNow
    <2> QED BY <1>1, <1>2, <2>1 DEF Soon
  <1> QED BY <1>4, <1>5

\* It queues one change of a request, made from what the file says.
LEMMA QueueOne ==
  ASSUME FileInv, OneThread, NEW p \in Process, life[p] = "up",
         todo[p] = <<>>, UNCHANGED life,
         NEW x \in Change, x.of \in Request, x.insert <=> disk[x.of] = "none",
         x.to = "sending" <=> x.insert, x.to # "none",
         disk[x.of] = "answered" => x.to = "answered",
         NEW rest \in {<<>>, MarkClosed}, Does(p, <<x>> \o rest)
  PROVE  /\ FileInv'
         /\ \A q \in Process, r \in Request :
               /\ Soon(q, r) = disk[r]
               /\ Soon(q, r)' = IF q = p /\ r = x.of THEN x.to ELSE disk[r]
  <1>2. LET t == <<x>> \o rest IN
        t \in Seq(Change) /\ t # <<>> /\ Head(t) = x /\ Tail(t) = rest
    <2>1. rest \in Seq(Change)
      BY MarkClosedIs, EmptySeq
    <2> QED BY <2>1, FirstOfMore
  <1>3. /\ UNCHANGED <<disk, snap>> /\ snap[p] = <<>> /\ todo'[p] # <<>>
        /\ Head(todo'[p]) = x /\ Tail(todo'[p]) = rest
        /\ \A q \in Process : q # p => todo'[q] = todo[q]
        /\ todo' \in [Process -> Seq(Change)]
    <2>1. todo \in [Process -> Seq(Change)] /\ UNCHANGED <<disk, snap>>
          /\ todo' = [todo EXCEPT ![p] = todo[p] \o (<<x>> \o rest)]
      BY DEF FileInv, Does
    <2>2. todo[p] \o (<<x>> \o rest) = <<x>> \o rest
      BY <1>2, ConcatEmptySeq
    <2>3. snap[p] = <<>>
      BY DEF FileInv, QueueInv
    <2> QED BY <1>2, <2>1, <2>2, <2>3
  <1>4. QueueInv'
    <2>1. QueueInv
      BY DEF FileInv
    <2>2. UNCHANGED disk /\ \A q \in Process : q # p => todo'[q] = todo[q] /\ snap'[q] = snap[q]
      BY <1>3
    <2>3. /\ snap'[p] = <<>> /\ Tail(todo'[p]) \in {<<>>, MarkClosed} /\ Head(todo'[p]) = x
      BY <1>3
    <2> QED BY <2>1, <2>2, <2>3 DEF QueueInv
  <1>5. FileInv'
    BY <1>3, <1>4 DEF FileInv
  <1>6. ASSUME NEW q \in Process, NEW r \in Request
        PROVE  /\ Soon(q, r) = disk[r]
               /\ Soon(q, r)' = IF q = p /\ r = x.of THEN x.to ELSE disk[r]
    <2>1. Soon(q, r) = disk[r] /\ todo[q] = <<>>
      BY SoonIsNow
    <2> QED BY <1>3, <2>1 DEF Soon
  <1> QED BY <1>5, <1>6

\* The record of r is about to say s, and no other changes.
OnlySays(p, r, s) ==
    \A q \in Process, t \in Request :
       /\ Soon(q, t) = disk[t]
       /\ Soon(q, t)' = IF q = p /\ t = r THEN s ELSE disk[t]

\* A recorded request gets another state; an answer is not taken back.
LEMMA QueueSet ==
  ASSUME FileInv, OneThread, NEW p \in Process, life[p] = "up",
         todo[p] = <<>>, UNCHANGED life,
         NEW r \in Request, NEW s \in States \ {"none", "sending"}, disk[r] # "none",
         disk[r] = "answered" => s = "answered",
         NEW rest \in {<<>>, MarkClosed}, Does(p, Set(r, s) \o rest)
  PROVE  FileInv' /\ OnlySays(p, r, s)
  <1> DEFINE x == [of |-> r, to |-> s, insert |-> FALSE]
  <1>1. /\ x \in Change /\ x.of = r /\ x.to = s /\ x.insert = FALSE
        /\ Does(p, <<x>> \o rest)
    <2>1. x \in Change
      BY DEF Change
    <2> QED BY <2>1 DEF Set
  <1> HIDE DEF x
  <1>2. x.of \in Request /\ (x.insert <=> disk[x.of] = "none") /\ (x.to = "sending" <=> x.insert)
    BY <1>1
  <1>3. x.to # "none" /\ (disk[x.of] = "answered" => x.to = "answered")
    BY <1>1
  <1>4. /\ FileInv'
        /\ \A q \in Process, t \in Request :
              /\ Soon(q, t) = disk[t]
              /\ Soon(q, t)' = IF q = p /\ t = x.of THEN x.to ELSE disk[t]
    BY <1>1, <1>2, <1>3, QueueOne
  <1> QED BY <1>1, <1>4 DEF OnlySays

\* A change alone in the queue.
LEMMA SetAlone ==
  ASSUME NEW r \in Request, NEW s \in States
  PROVE  Set(r, s) = Set(r, s) \o <<>>
  <1>1. [of |-> r, to |-> s, insert |-> FALSE] \in Change
    BY DEF Change
  <1> QED BY <1>1, OneOf, ConcatEmptySeq DEF Set

-----------------------------------------------------------------------------
(* Load and Save *)

calls == <<route, life, inflight, stage, knows, transport, result, phone, cancelled>>

\* The file is read or written, and the calls stay where they are.
LEMMA CallsStay ==
  ASSUME OutboxInv, UNCHANGED calls, FileInv', NEW p \in Process, life[p] = "up",
         \A r \in Request : Soon(p, r)' = Soon(p, r),
         \A q \in Process, r \in Request : Soon(q, r)' \in {Soon(q, r), Soon(p, r)}
  PROVE  OutboxInv'
  <1>1. OutboxTypes' /\ OneThread'
    BY DEF OutboxInv, OutboxTypes, OneThread, calls, transport
  <1>2. /\ \A q \in Process : life[q] = "up" => q = p
        /\ \A c \in Calls : stage[c] \in Running => At(c) = p
    <2>1. \A q \in Process : life[q] = "up" => q = p
      BY DEF OutboxInv, OneThread
    <2>2. ASSUME NEW c \in Calls, stage[c] \in Running PROVE At(c) = p
      <3>1. At(c) \in Process /\ life[At(c)] \in {"later", "up", "dead"}
        BY CallIs DEF OutboxInv, OutboxTypes
      <3>2. life[At(c)] = "up"
        BY <2>2, <3>1 DEF OutboxInv, OneThread, Running, Started
      <3> QED BY <2>1, <3>1, <3>2
    <2> QED BY <2>1, <2>2
  <1>3. \A c \in Calls : StepsOf(c)' = StepsOf(c)
    BY DEF StepsOf, calls, transport
  <1>4. ASSUME NEW r \in Request
        PROVE  RecordInv(r)' /\ DeliveredInv(r)' /\ SendingInv(r)'
    <2>1. /\ RecordInv(r) /\ DeliveredInv(r) /\ SendingInv(r) /\ Send(r) \in Calls
          /\ Sender[r] \in Process /\ At(Send(r)) = Sender[r]
      BY RequestIs DEF OutboxInv
    <2>2. RecordInv(r)'
      BY <1>2, <2>1 DEF RecordInv, calls, transport
    <2>3. DeliveredInv(r)'
      BY <1>2, <2>1 DEF DeliveredInv, calls, transport
    <2>4. SendingInv(r)'
      BY <1>2, <2>1 DEF SendingInv, calls, transport, OverIroh
    <2> QED BY <2>2, <2>3, <2>4
  <1>5. ASSUME NEW c \in Calls PROVE CallInv(c)'
    BY <1>2, <1>3, CallIs DEF OutboxInv, CallInv, calls, transport
  <1> QED BY <1>1, <1>4, <1>5 DEF OutboxInv

\* Outbox::modify_file, read and renamed.
LEMMA LoadKeeps ==
  ASSUME OutboxInv, NEW p \in Process, Load(p)
  PROVE  OutboxInv'
  <1>1. /\ life[p] = "up" /\ UNCHANGED <<disk, todo, calls>> /\ snap' = [snap EXCEPT ![p] = <<disk>>]
        /\ todo[p] # <<>>
    BY DEF OutboxInv, FileInv, Load, calls
  <1>2. FileInv'
    <2>1. snap' \in [Process -> {<<>>} \cup {<<f>> : f \in [Request -> States]}]
      BY <1>1 DEF OutboxInv, FileInv
    <2>2. QueueInv'
      BY <1>1 DEF OutboxInv, FileInv, QueueInv
    <2> QED BY <1>1, <2>1, <2>2 DEF OutboxInv, FileInv, calls
  <1>3. \A q \in Process, r \in Request : Soon(q, r)' = Soon(q, r)
    BY <1>1 DEF Soon
  <1> QED BY <1>1, <1>2, <1>3, CallsStay

\* ... and renamed over: the file says what it was about to say.
LEMMA SaveKeeps ==
  ASSUME OutboxInv, NEW p \in Process, Save(p)
  PROVE  OutboxInv'
  <1> DEFINE x == Head(todo[p])
  <1>1. /\ life[p] = "up" /\ UNCHANGED calls /\ snap[p] = <<disk>> /\ todo[p] # <<>>
        /\ disk' = Changed(disk, x) /\ todo' = [todo EXCEPT ![p] = Tail(todo[p])]
        /\ snap' = [snap EXCEPT ![p] = <<>>]
    BY DEF OutboxInv, FileInv, QueueInv, Save, calls
  <1>2. /\ todo \in [Process -> Seq(Change)] /\ disk \in [Request -> States] /\ x \in Change
        /\ Tail(todo[p]) \in {<<>>, MarkClosed} /\ Tail(todo[p]) \in Seq(Change)
        /\ x.of \in Request => /\ x.insert <=> disk[x.of] = "none"
                               /\ x.to # "none"
    BY <1>1, HeadTailProperties DEF OutboxInv, FileInv, QueueInv
  <1>3. \A q \in Process : q # p => todo[q] = <<>> /\ snap[q] = <<>>
    BY <1>1 DEF OutboxInv, OneThread, FileInv
  <1>4. /\ disk' \in [Request -> States]
        /\ \A r \in Request : disk'[r] = Soon(p, r)
    BY <1>1, <1>2 DEF Changed, Soon, Change
  <1>5. todo'[p] # <<>> => Head(todo'[p]).of \notin Request /\ Tail(todo'[p]) = <<>>
    BY <1>1, <1>2, MarkClosedIs
  <1>6. FileInv'
    <2>1. todo' \in [Process -> Seq(Change)]
      BY <1>1, <1>2
    <2>2. snap' \in [Process -> {<<>>} \cup {<<f>> : f \in [Request -> States]}]
          /\ \A q \in Process : snap'[q] = <<>>
      BY <1>1, <1>3 DEF OutboxInv, FileInv
    <2>3. \A q \in Process : q # p => todo'[q] = <<>>
      BY <1>1, <1>2, <1>3
    <2>4. QueueInv'
      BY <1>5, <2>2, <2>3 DEF QueueInv
    <2> QED BY <1>1, <1>4, <2>1, <2>2, <2>3, <2>4 DEF FileInv, calls
  <1>7. \A q \in Process, r \in Request : Soon(q, r)' = Soon(p, r)
    <2>1. \A q \in Process : todo'[q] # <<>> => Head(todo'[q]).of \notin Request
      BY <1>1, <1>2, <1>3, <1>5
    <2> QED BY <1>4, <2>1 DEF Soon
  <1> QED BY <1>1, <1>6, <1>7, CallsStay

-----------------------------------------------------------------------------
(* The steps of one call *)

\* Only the call c moves, and only the record of its request; of others, a late
\* answer may be recorded.
OnlyMoves(c) ==
    /\ UNCHANGED <<route, life>>
    /\ \A d \in Calls : d # c => /\ stage'[d] = stage[d] /\ steps'[d] = steps[d]
                                 /\ result'[d] = result[d]
                                 /\ d \in knows' <=> d \in knows
                                 /\ d \in confirmed' <=> d \in confirmed
                                 /\ d \in uncertain' <=> d \in uncertain
                                 /\ d \in got' <=> d \in got
    /\ \A r \in Request : r # Of(c) => phone'[r] = phone[r]
    /\ \A q \in Process, r \in Request :
          r # Of(c) => /\ inflight'[q][r] = inflight[q][r]
                       /\ \/ Soon(q, r)' = Soon(q, r)
                          \/ Soon(q, r)' = "answered" /\ stage[Send(r)] = "ended"
    /\ \A q \in Process : Soon(q, Of(c)) = "answered" => Soon(q, Of(c))' = "answered"
    /\ stage[c] \in {"ending", "ended"} => stage'[c] \in {"ending", "ended"}

\* The invariant is kept by a step of one call when its own parts are.
LEMMA OneCall ==
  ASSUME OutboxInv, NEW c \in Calls, OnlyMoves(c), OutboxTypes', OneThread', FileInv',
         RecordInv(Of(c))', DeliveredInv(Of(c))', SendingInv(Of(c))', CallInv(c)'
  PROVE  OutboxInv'
  <1>1. ASSUME NEW r \in Request, r # Of(c)
        PROVE  RecordInv(r)' /\ DeliveredInv(r)' /\ SendingInv(r)'
    <2>1. /\ Send(r) \in Calls /\ Wait(r) \in Calls /\ Send(r) # c /\ Wait(r) # c
          /\ Sender[r] \in Process /\ RecordInv(r) /\ DeliveredInv(r) /\ SendingInv(r)
      BY <1>1, RequestIs DEF OutboxInv
    <2>2. /\ stage'[Send(r)] = stage[Send(r)] /\ stage'[Wait(r)] = stage[Wait(r)]
          /\ result'[Send(r)] = result[Send(r)] /\ (Wait(r) \in got' <=> Wait(r) \in got)
          /\ Send(r) \in knows' <=> Send(r) \in knows
          /\ Send(r) \in confirmed' <=> Send(r) \in confirmed
          /\ phone'[r] = phone[r] /\ \A q \in Process : inflight'[q][r] = inflight[q][r]
          /\ \A q \in Process : \/ Soon(q, r)' = Soon(q, r)
                                \/ Soon(q, r)' = "answered" /\ stage[Send(r)] = "ended"
      BY <1>1, <2>1 DEF OnlyMoves
    <2>3. RecordInv(r)'
      BY <2>1, <2>2 DEF RecordInv, Running, Started
    <2>4. DeliveredInv(r)'
      BY <2>1, <2>2 DEF DeliveredInv, OnlyMoves
    <2>5. SendingInv(r)'
      BY <2>1, <2>2 DEF SendingInv, OnlyMoves, OverIroh
    <2> QED BY <2>3, <2>4, <2>5
  <1>2. ASSUME NEW d \in Calls, d # c PROVE CallInv(d)'
    <2>1. /\ CallInv(d) /\ Of(d) \in Request /\ At(d) \in Process
          /\ stage'[d] = stage[d] /\ result'[d] = result[d] /\ StepsOf(d)' = StepsOf(d)
          /\ d \in confirmed' <=> d \in confirmed
          /\ d \in uncertain' <=> d \in uncertain
          /\ d \in got' <=> d \in got
      BY <1>2, CallIs DEF OutboxInv, OnlyMoves, StepsOf
    <2>2. \A r \in Request :
             stage[Send(r)] \in {"ending", "ended"} => stage'[Send(r)] \in {"ending", "ended"}
      BY RequestIs DEF OnlyMoves
    <2>3. Soon(At(d), Of(d)) = "answered" => Soon(At(d), Of(d))' = "answered"
      BY <2>1 DEF OnlyMoves
    <2>4. UNCHANGED life
      BY DEF OnlyMoves
    <2> QED BY <2>1, <2>2, <2>3, <2>4 DEF CallInv
  <1> QED
    BY <1>1, <1>2, CallIs DEF OutboxInv

\* The thread of a process is free: what its tasks find.
LEMMA IdleIs ==
  ASSUME OutboxInv, NEW p \in Process, Idle(p)
  PROVE  /\ life[p] = "up" /\ todo[p] = <<>>
         /\ \A q \in Process, r \in Request : Soon(q, r) = disk[r]
         /\ \A q \in Process : life[q] = "up" => q = p
         /\ \A c \in Calls : stage[c] # "ending"
  <1>1. life[p] = "up" /\ todo[p] = <<>> /\ \A c \in Calls : At(c) = p => stage[c] # "ending"
    BY DEF Idle
  <1>2. \A q \in Process : life[q] = "up" => q = p
    BY <1>1 DEF OutboxInv, OneThread
  <1>3. ASSUME NEW c \in Calls, stage[c] = "ending" PROVE FALSE
    <2>1. At(c) \in Process /\ life[At(c)] \in {"later", "up", "dead"}
      BY CallIs DEF OutboxInv, OutboxTypes
    <2>2. life[At(c)] = "up"
      BY <1>3, <2>1 DEF OutboxInv, OneThread
    <2> QED BY <1>1, <1>2, <1>3, <2>1, <2>2
  <1> QED BY <1>1, <1>2, <1>3, SoonIsNow DEF OutboxInv

\* Where a call may be found says whether its process runs.
LEMMA RunningIsUp ==
  ASSUME OutboxInv, NEW c \in Calls, stage[c] \notin {"idle", "ended"}
  PROVE  life[At(c)] = "up"
  <1>1. At(c) \in Process /\ life[At(c)] \in {"later", "up", "dead"}
    BY CallIs DEF OutboxInv, OutboxTypes
  <1> QED BY <1>1 DEF OutboxInv, OneThread

\* A call moves on while its process runs; two of them are never ending.
LEMMA MovesKeeps ==
  ASSUME OutboxInv, NEW c \in Calls, life[At(c)] = "up", UNCHANGED life,
         NEW to, Moves(c, to), to \in {"idle", "checking", "ended"} \cup Running,
         to = "ending" => \A d \in Calls : stage[d] # "ending"
  PROVE  /\ stage' \in [Calls -> {"idle", "checking", "ended"} \cup Running]
         /\ stage'[c] = to /\ \A d \in Calls : d # c => stage'[d] = stage[d]
         /\ OneThread'
  <1>1. /\ stage' \in [Calls -> {"idle", "checking", "ended"} \cup Running]
        /\ stage'[c] = to /\ \A d \in Calls : d # c => stage'[d] = stage[d]
    BY DEF OutboxInv, OutboxTypes, Moves
  <1> QED BY <1>1 DEF OutboxInv, OneThread

\* interact's guard, connecting, and the end of the exchange: the file, what is
\* known and what runs here stay as they are.
LEMMA AdvanceKeeps ==
  ASSUME OutboxInv, NEW c \in Calls, Guard(c) \/ Connects(c) \/ Ends(c) \/ IsStopped(c)
  PROVE  OutboxInv'
  <1> DEFINE r == Of(c)
  <1>1. /\ r \in Request /\ At(c) \in Process /\ Send(r) \in Calls /\ Wait(r) \in Calls
        /\ Send(r) # Wait(r) /\ At(Send(r)) = Sender[r] /\ Sender[r] \in Process
        /\ Send(r)[2] = "send" /\ Wait(r)[2] = "await"
        /\ c = Send(r) \/ c = Wait(r)
    BY CallIs, RequestIs
  <1>2. Idle(At(c)) /\ UNCHANGED <<route, file, life, inflight, knows, transport, phone, cancelled>>
    BY DEF Guard, Connects, Ends, IsStopped
  <1>3. PICK to \in {"ended", "checking", "talking", "ending"} :
          /\ Moves(c, to)
          /\ \/ to = "checking" /\ stage[c] = "idle" /\ c[2] = "send" /\ UNCHANGED result
             \/ to = "ended" /\ stage[c] = "idle" /\ c[2] = "send"
                /\ result' = [result EXCEPT ![c] = "refused"]
             \/ to = "talking" /\ stage[c] = "started" /\ UNCHANGED result
                /\ \A d \in Calls : stage[d] = "talking" => Of(d) # r
             \/ /\ to = "ending" /\ stage[c] \in {"started", "talking"}
                /\ \/ result' = [result EXCEPT ![c] = "answer"] /\ c \in got
                   \/ result' = [result EXCEPT ![c] = "failed"]
                   \/ result' = [result EXCEPT ![c] = "notConfirmed"]
                      /\ c[2] = "send" /\ c \notin confirmed
                   \/ result' = [result EXCEPT ![c] = "stopped"] /\ inflight[At(c)][r] # c
    <2>1. CASE Guard(c)
      BY <2>1 DEF Guard
    <2>2. CASE Connects(c)
      BY <2>2 DEF Connects
    <2>3. CASE Ends(c)
      BY <2>3 DEF Ends, Sends, Started
    <2>4. CASE IsStopped(c)
      BY <2>4 DEF IsStopped, Stopped, Started
    <2> QED BY <2>1, <2>2, <2>3, <2>4
  <1>4. /\ life[At(c)] = "up" /\ \A d \in Calls : stage[d] # "ending"
        /\ \A q \in Process : life[q] = "up" => q = At(c)
    BY <1>1, <1>2, IdleIs
  <1>5. /\ stage' \in [Calls -> {"idle", "checking", "ended"} \cup Running]
        /\ stage'[c] = to /\ \A d \in Calls : d # c => stage'[d] = stage[d]
        /\ OneThread'
    BY <1>2, <1>3, <1>4, MovesKeeps DEF Running, Started
  <1>6. /\ result' \in [Calls -> Results] /\ \A d \in Calls : d # c => result'[d] = result[d]
        /\ to \in {"checking", "talking"} => result'[c] = result[c]
        /\ to = "ended" => result'[c] = "refused"
        /\ to = "ending" => /\ result'[c] \in {"answer", "failed", "notConfirmed", "stopped"}
                            /\ result'[c] = "answer" => c \in got
                            /\ result'[c] = "notConfirmed" => c[2] = "send" /\ c \notin confirmed
                            /\ result'[c] = "stopped" => inflight[At(c)][r] # c
    <2>1. result \in [Calls -> Results]
      BY DEF OutboxInv, OutboxTypes
    <2> QED BY <1>3, <2>1 DEF Results
  <1>7. FileInv' /\ \A q \in Process, s \in Request : Soon(q, s)' = Soon(q, s)
    BY <1>2, FileStays DEF OutboxInv
  <1>8. OutboxTypes' /\ OnlyMoves(c) /\ StepsOf(c)' = StepsOf(c)
    <2>1. OutboxTypes'
      BY <1>2, <1>5, <1>6 DEF OutboxInv, OutboxTypes, transport
    <2>2. OnlyMoves(c)
      BY <1>1, <1>2, <1>3, <1>5, <1>6, <1>7 DEF OnlyMoves, transport
    <2> QED BY <1>2, <2>1, <2>2 DEF StepsOf, transport
  <1>9. /\ RecordInv(r) /\ DeliveredInv(r) /\ SendingInv(r) /\ CallInv(c)
        /\ UNCHANGED <<life, inflight, knows, confirmed, uncertain, got, phone, route>>
    BY <1>1, <1>2 DEF OutboxInv, transport
  <1>10. RecordInv(r)'
    <2>1. CASE c = Send(r)
      BY <1>1, <1>3, <1>5, <1>7, <1>9, <2>1, RequestIs DEF RecordInv, Running, Started
    <2>2. CASE c = Wait(r)
      BY <1>1, <1>3, <1>5, <1>7, <1>9, <2>2, RequestIs DEF RecordInv, Running, Started
    <2> QED BY <1>1, <2>1, <2>2
  <1>11. DeliveredInv(r)'
    BY <1>1, <1>7, <1>9 DEF DeliveredInv
  <1>12. SendingInv(r)'
    <2>1. CASE c = Send(r)
      BY <1>1, <1>3, <1>4, <1>5, <1>6, <1>7, <1>9, <2>1 DEF SendingInv, RecordInv, Running, Started, OverIroh
    <2>2. CASE c = Wait(r)
      BY <1>1, <1>3, <1>5, <1>6, <1>7, <1>9, <2>2 DEF SendingInv, Running, Started, OverIroh
    <2> QED BY <1>1, <2>1, <2>2
  <1>13. CallInv(c)'
    <2>1. \A s \in Request \cap StepsOf(c) : stage'[Send(s)] \in {"ending", "ended"}
      <3> SUFFICES ASSUME NEW s \in Request \cap StepsOf(c)
                   PROVE  stage'[Send(s)] \in {"ending", "ended"}
        OBVIOUS
      <3>1. s # r /\ stage[Send(s)] \in {"ending", "ended"} /\ Send(s) # c /\ Send(s) \in Calls
        BY <1>9, RequestIs DEF CallInv
      <3> QED BY <1>5, <3>1
    <2> QED BY <1>3, <1>5, <1>6, <1>7, <1>8, <1>9, <2>1 DEF CallInv
  <1> QED BY <1>5, <1>7, <1>8, <1>10, <1>11, <1>12, <1>13, OneCall

\* await_response begins, or the settling of its link is over.
LEMMA StartKeeps ==
  ASSUME OutboxInv, NEW c \in Calls, Await(c) \/ Settled(c)
  PROVE  OutboxInv'
  <1> DEFINE r == Of(c)
  <1>1. /\ r \in Request /\ At(c) \in Process /\ Send(r) \in Calls /\ Wait(r) \in Calls
        /\ Send(r) # Wait(r) /\ At(Send(r)) = Sender[r] /\ Sender[r] \in Process
        /\ Send(r)[2] = "send" /\ Wait(r)[2] = "await"
        /\ c = Send(r) \/ c = Wait(r)
    BY CallIs, RequestIs
  <1>2. Idle(At(c)) /\ UNCHANGED <<route, file, life, transport, result, phone, cancelled>>
    BY DEF Await, Settled
  <1>3. /\ life[At(c)] = "up" /\ \A d \in Calls : stage[d] # "ending"
        /\ \A q \in Process, s \in Request : Soon(q, s) = disk[s]
    BY <1>1, <1>2, IdleIs
  <1>4. PICK to \in {"started", "settling"} :
          /\ Moves(c, to)
          /\ to = "settling" => ~OverIroh
          /\ \/ /\ c = Wait(r) /\ stage[c] = "idle" /\ disk[r] # "none"
                /\ EarlyAwait \/ stage[Send(r)] = "ended"
             \/ stage[c] = "settling"
          /\ \/ UNCHANGED <<inflight, knows>>
             \/ /\ inflight' = [inflight EXCEPT ![At(c)][r] = c]
                /\ knows' = IF c[2] = "send" THEN knows ELSE knows \cup {c}
    <2>1. CASE Await(c)
      BY <1>1, <2>1 DEF Await, Run, StartCall, Send
    <2>2. CASE Settled(c)
      BY <2>2 DEF Settled, StartCall
    <2> QED BY <2>1, <2>2
  <1>5. /\ stage' \in [Calls -> {"idle", "checking", "ended"} \cup Running]
        /\ stage'[c] = to /\ \A d \in Calls : d # c => stage'[d] = stage[d]
        /\ OneThread'
    BY <1>2, <1>3, <1>4, MovesKeeps DEF Running, Started
  <1>6. /\ inflight' \in [Process -> [Request -> Calls \cup {NoCall}]]
        /\ \A q \in Process, s \in Request : s # r => inflight'[q][s] = inflight[q][s]
        /\ \A d \in Calls : d # c => (d \in knows' <=> d \in knows)
        /\ Send(r) \in knows' <=> Send(r) \in knows
    <2>1. inflight \in [Process -> [Request -> Calls \cup {NoCall}]]
      BY DEF OutboxInv, OutboxTypes
    <2>2. CASE UNCHANGED <<inflight, knows>>
      BY <2>1, <2>2
    <2>3. CASE /\ inflight' = [inflight EXCEPT ![At(c)][r] = c]
               /\ knows' = IF c[2] = "send" THEN knows ELSE knows \cup {c}
      BY <1>1, <2>1, <2>3
    <2> QED BY <1>4, <2>2, <2>3
  <1>7. FileInv' /\ \A q \in Process, s \in Request : Soon(q, s)' = Soon(q, s)
    BY <1>2, FileStays DEF OutboxInv
  <1>8. OutboxTypes' /\ OnlyMoves(c) /\ StepsOf(c)' = StepsOf(c)
    <2>1. OutboxTypes'
      BY <1>2, <1>5, <1>6 DEF OutboxInv, OutboxTypes, transport
    <2>2. OnlyMoves(c)
      BY <1>1, <1>2, <1>4, <1>5, <1>6, <1>7 DEF OnlyMoves, transport
    <2> QED BY <1>2, <2>1, <2>2 DEF StepsOf, transport
  <1>9. /\ RecordInv(r) /\ DeliveredInv(r) /\ SendingInv(r) /\ CallInv(c)
        /\ UNCHANGED <<life, confirmed, uncertain, got, phone, route, result>>
    BY <1>1, <1>2 DEF OutboxInv, transport
  <1>10. RecordInv(r)'
    <2>1. CASE c = Send(r)
      BY <1>1, <1>4, <1>5, <1>7, <1>9, <2>1 DEF RecordInv, Running, Started
    <2>2. CASE c = Wait(r)
      BY <1>1, <1>3, <1>4, <1>5, <1>7, <1>9, <2>2 DEF RecordInv, Running, Started
    <2> QED BY <1>1, <2>1, <2>2
  <1>11. DeliveredInv(r)'
    BY <1>1, <1>6, <1>7, <1>9 DEF DeliveredInv
  <1>12. SendingInv(r)'
    <2> SUFFICES ASSUME OverIroh, ~EarlyAwait PROVE SendingInv(r)'
      BY <1>9 DEF SendingInv, OverIroh
    <2>1. c = Wait(r) /\ stage[Send(r)] = "ended" /\ to = "started"
      BY <1>1, <1>4, <1>9 DEF SendingInv
    <2> QED
      BY <1>1, <1>5, <1>7, <1>9, <2>1 DEF SendingInv, Running, Started, OverIroh
  <1>13. CallInv(c)'
    <2>1. \A s \in Request \cap StepsOf(c) : stage'[Send(s)] \in {"ending", "ended"}
      <3> SUFFICES ASSUME NEW s \in Request \cap StepsOf(c)
                   PROVE  stage'[Send(s)] \in {"ending", "ended"}
        OBVIOUS
      <3>1. s # r /\ stage[Send(s)] \in {"ending", "ended"} /\ Send(s) # c /\ Send(s) \in Calls
        BY <1>9, RequestIs DEF CallInv
      <3> QED BY <1>5, <3>1
    <2> QED BY <1>4, <1>5, <1>7, <1>8, <1>9, <2>1 DEF CallInv
  <1> QED BY <1>5, <1>7, <1>8, <1>10, <1>11, <1>12, <1>13, OneCall

\* interact, once the dApp was checked: the request is recorded.
LEMMA RecordKeeps ==
  ASSUME OutboxInv, NEW c \in Calls, Record(c)
  PROVE  OutboxInv'
  <1> DEFINE r == Of(c)
             x == [of |-> r, to |-> "sending", insert |-> TRUE]
  <1>1. /\ r \in Request /\ At(c) \in Process /\ Send(r) \in Calls /\ Wait(r) \in Calls
        /\ Send(r) # Wait(r) /\ Sender[r] \in Process /\ c = Send(r) /\ At(c) = Sender[r]
        /\ c[2] = "send" /\ stage[c] = "checking"
    BY CallIs, RequestIs DEF Record, OutboxInv, CallInv
  <1>2. Idle(At(c)) /\ UNCHANGED <<route, life, transport, result, phone, cancelled>>
    BY DEF Record
  <1>3. /\ life[At(c)] = "up" /\ todo[At(c)] = <<>> /\ \A d \in Calls : stage[d] # "ending"
        /\ \A q \in Process, s \in Request : Soon(q, s) = disk[s]
        /\ \A q \in Process : life[q] = "up" => q = At(c)
    BY <1>1, <1>2, IdleIs
  <1>4. PICK to \in {"started", "settling"} :
          /\ Moves(c, to) /\ (to = "settling" <=> ~OverIroh) /\ UNCHANGED knows
          /\ \/ to = "settling" /\ UNCHANGED inflight
             \/ to = "started" /\ inflight' = [inflight EXCEPT ![At(c)][r] = c]
    BY <1>1 DEF Record, Run, StartCall
  <1>5. /\ stage' \in [Calls -> {"idle", "checking", "ended"} \cup Running]
        /\ stage'[c] = to /\ \A d \in Calls : d # c => stage'[d] = stage[d]
        /\ OneThread'
    BY <1>2, <1>3, <1>4, MovesKeeps DEF Running, Started
  <1>6. /\ inflight' \in [Process -> [Request -> Calls \cup {NoCall}]]
        /\ \A q \in Process, s \in Request : s # r => inflight'[q][s] = inflight[q][s]
        /\ to = "started" => inflight'[At(c)][r] = c
    <2>1. inflight \in [Process -> [Request -> Calls \cup {NoCall}]]
      BY DEF OutboxInv, OutboxTypes
    <2> QED BY <1>1, <1>4, <2>1
  <1>7. /\ RecordInv(r) /\ DeliveredInv(r) /\ SendingInv(r) /\ CallInv(c)
        /\ UNCHANGED <<life, confirmed, uncertain, got, phone, route, result>>
    BY <1>1, <1>2 DEF OutboxInv, transport
  <1>8. /\ FileInv' /\ disk[r] = "none"
        /\ \A q \in Process, s \in Request :
              Soon(q, s)' = IF q = At(c) /\ s = r THEN "sending" ELSE disk[s]
    <2>1. disk[r] = "none"
      BY <1>1, <1>3, <1>7 DEF RecordInv
    <2>2. /\ x \in Change /\ x.of = r /\ x.insert = TRUE /\ x.to = "sending"
          /\ Does(At(c), <<x>> \o <<>>) /\ FileInv /\ OneThread
      <3>1. x \in Change
        BY <1>1 DEF Change, States
      <3>2. <<x>> \o <<>> = <<x>>
        BY <3>1, OneOf, ConcatEmptySeq
      <3> QED BY <3>1, <3>2 DEF Record, Insert, OutboxInv
    <2> HIDE DEF x
    <2>3. x.insert <=> disk[x.of] = "none"
      BY <2>1, <2>2
    <2>4. UNCHANGED life /\ x.of \in Request /\ (x.to = "sending" <=> x.insert) /\ x.to # "none"
          /\ (disk[x.of] = "answered" => x.to = "answered")
      BY <1>1, <1>2, <2>1, <2>2
    <2> QED BY <1>1, <1>3, <2>1, <2>2, <2>3, <2>4, QueueOne
  <1>9. OutboxTypes' /\ OnlyMoves(c) /\ StepsOf(c)' = StepsOf(c)
    <2>1. OutboxTypes'
      BY <1>2, <1>5, <1>6 DEF OutboxInv, OutboxTypes, transport
    <2>2. OnlyMoves(c)
      BY <1>1, <1>2, <1>3, <1>4, <1>5, <1>6, <1>8 DEF OnlyMoves, transport
    <2> QED BY <1>2, <2>1, <2>2 DEF StepsOf, transport
  <1>10. RecordInv(r)'
    BY <1>1, <1>3, <1>5, <1>7, <1>8 DEF RecordInv, Running, Started
  <1>11. DeliveredInv(r)'
    BY <1>1, <1>3, <1>4, <1>7, <1>8 DEF DeliveredInv, RecordInv, CallInv
  <1>12. SendingInv(r)'
    BY <1>1, <1>4, <1>5, <1>6, <1>7, <1>8 DEF SendingInv, CallInv, Running, Started, OverIroh
  <1>13. CallInv(c)'
    <2>1. \A s \in Request \cap StepsOf(c) : stage'[Send(s)] \in {"ending", "ended"}
      <3> SUFFICES ASSUME NEW s \in Request \cap StepsOf(c)
                   PROVE  stage'[Send(s)] \in {"ending", "ended"}
        OBVIOUS
      <3>1. s # r /\ stage[Send(s)] \in {"ending", "ended"} /\ Send(s) # c /\ Send(s) \in Calls
        BY <1>7, RequestIs DEF CallInv
      <3> QED BY <1>5, <3>1
    <2> QED BY <1>1, <1>4, <1>5, <1>7, <1>9, <2>1 DEF CallInv
  <1> QED BY <1>1, <1>5, <1>8, <1>9, <1>10, <1>11, <1>12, <1>13, OneCall

-----------------------------------------------------------------------------
(* The transport below a call *)

\* The request reaches the wallet, its owner decides, and the answer arrives at
\* the call that waits for it; or the transport tells what it knows of it.
LEMMA TransportKeeps ==
  ASSUME OutboxInv, NEW c \in Calls,
         \/ WalletReceives(c) \/ Confirms(c) \/ LosesTrack(c) \/ AnswerArrives(c)
         \/ c[2] = "send" /\ Decides(Of(c))
  PROVE  OutboxInv'
  <1> DEFINE r == Of(c)
  <1>1. /\ r \in Request /\ At(c) \in Process /\ Send(r) \in Calls /\ Wait(r) \in Calls
        /\ Send(r) # Wait(r) /\ Sender[r] \in Process
        /\ Send(r)[2] = "send" /\ Wait(r)[2] = "await"
        /\ c = Send(r) \/ c = Wait(r)
    BY CallIs, RequestIs
  <1>2. UNCHANGED <<route, file, life, inflight, stage, knows, result, cancelled>>
    BY DEF WalletReceives, Confirms, LosesTrack, AnswerArrives, Decides, transport
  <1>3. /\ steps \in [Calls -> Seq(Steps)] /\ phone \in [Request -> {"none", "queued", "decided", "told"}]
        /\ RecordInv(r) /\ DeliveredInv(r) /\ SendingInv(r) /\ CallInv(c)
    BY <1>1 DEF OutboxInv, OutboxTypes
  <1>4. FileInv' /\ \A q \in Process, s \in Request : Soon(q, s)' = Soon(q, s)
    BY <1>2, FileStays DEF OutboxInv
  <1>5. OneThread'
    BY <1>2 DEF OutboxInv, OneThread
  <1>6. ASSUME NEW step \in Steps, step \notin Request,
               steps' = [steps EXCEPT ![c] = Append(@, step)]
        PROVE  /\ steps' \in [Calls -> Seq(Steps)] /\ StepsOf(c)' = StepsOf(c) \cup {step}
               /\ \A d \in Calls : d # c => steps'[d] = steps[d]
               /\ Request \cap StepsOf(c)' = Request \cap StepsOf(c)
    <2>1. /\ Append(steps[c], step) \in Seq(Steps) /\ steps' = [steps EXCEPT ![c] = Append(steps[c], step)]
          /\ {Append(steps[c], step)[i] : i \in 1..Len(Append(steps[c], step))}
               = {steps[c][i] : i \in 1..Len(steps[c])} \cup {step}
      BY <1>3, <1>6, ValuesOfAppend
    <2>2. steps' \in [Calls -> Seq(Steps)] /\ steps'[c] = Append(steps[c], step)
          /\ \A d \in Calls : d # c => steps'[d] = steps[d]
      BY <1>3, <2>1
    <2>3. StepsOf(c)' = StepsOf(c) \cup {step}
      BY <2>1, <2>2 DEF StepsOf
    <2> QED BY <1>6, <2>2, <2>3
  <1>7. ASSUME phone' \in [Request -> {"none", "queued", "decided", "told"}],
               steps' \in [Calls -> Seq(Steps)],
               \A d \in Calls : d # c => /\ steps'[d] = steps[d]
                                         /\ d \in confirmed' <=> d \in confirmed
                                         /\ d \in uncertain' <=> d \in uncertain
                                         /\ d \in got' <=> d \in got,
               \A s \in Request : s # r => phone'[s] = phone[s],
               Send(r) \in knows => Send(r) \in confirmed',
               phone'[r] # "none" => stage[Send(r)] \in {"talking", "ending", "ended"},
               Wait(r) \in got' => stage[Send(r)] \in {"ending", "ended"}, CallInv(c)'
        PROVE  OutboxInv'
    <2>1. OutboxTypes'
      <3>1. OutboxTypes
        BY DEF OutboxInv
      <3>2. /\ phone' \in [Request -> {"none", "queued", "decided", "told"}]
            /\ steps' \in [Calls -> Seq(Steps)]
        BY <1>7
      <3> QED BY <1>2, <3>1, <3>2 DEF OutboxTypes
    <2>2. OnlyMoves(c)
      <3>1. /\ UNCHANGED <<route, life, inflight, stage, knows, result>>
            /\ \A q \in Process, s \in Request : Soon(q, s)' = Soon(q, s)
        BY <1>2, <1>4
      <3>2. /\ \A q \in Process : Soon(q, r) = "answered" => Soon(q, r)' = "answered"
            /\ stage[c] \in {"ending", "ended"} => stage'[c] \in {"ending", "ended"}
        BY <1>1, <3>1
      <3>3. /\ \A s \in Request : s # r => phone'[s] = phone[s]
            /\ \A d \in Calls : d # c => /\ steps'[d] = steps[d]
                                         /\ d \in confirmed' <=> d \in confirmed
                                         /\ d \in uncertain' <=> d \in uncertain
                                         /\ d \in got' <=> d \in got
        BY <1>7
      <3> QED BY <3>1, <3>2, <3>3 DEF OnlyMoves
    <2>3. RecordInv(r)'
      BY <1>1, <1>2, <1>3, <1>4, <1>7 DEF RecordInv
    <2>4. DeliveredInv(r)'
      BY <1>1, <1>2, <1>3, <1>4, <1>7 DEF DeliveredInv
    <2>5. SendingInv(r)'
      BY <1>1, <1>2, <1>3, <1>4 DEF SendingInv, OverIroh
    <2> QED BY <1>4, <1>5, <1>7, <2>1, <2>2, <2>3, <2>4, <2>5, OneCall
  <1>8. CASE WalletReceives(c) \/ (c[2] = "send" /\ Decides(r))
    <2>1. /\ UNCHANGED transport
          /\ phone[r] # "none" \/ stage[Send(r)] = "talking"
          /\ phone' = [phone EXCEPT ![r] = "queued"] \/ phone' = [phone EXCEPT ![r] = "decided"]
      BY <1>1, <1>8 DEF WalletReceives, Decides, Sends, Talking
    <2>2. CallInv(c)'
      <3>1. UNCHANGED <<stage, steps, confirmed, uncertain, got, result, life>>
        BY <1>2, <2>1 DEF transport
      <3>2. StepsOf(c)' = StepsOf(c) /\ Soon(At(c), r)' = Soon(At(c), r) /\ CallInv(c)
        BY <1>1, <1>3, <1>4, <3>1 DEF StepsOf
      <3> QED BY <3>1, <3>2 DEF CallInv
    <2>3. /\ phone' \in [Request -> {"none", "queued", "decided", "told"}]
          /\ \A s \in Request : s # r => phone'[s] = phone[s]
      BY <1>1, <1>3, <2>1
    <2>4. /\ stage[Send(r)] \in {"talking", "ending", "ended"}
          /\ Wait(r) \in got => stage[Send(r)] \in {"ending", "ended"}
          /\ Send(r) \in knows => Send(r) \in confirmed
      BY <1>3, <2>1 DEF RecordInv, DeliveredInv
    <2> QED BY <1>3, <1>7, <2>1, <2>2, <2>3, <2>4 DEF transport
  <1>9. CASE Confirms(c)
    <2>1. /\ stage[c] = "talking" /\ c = Send(r) /\ c \notin confirmed \cup uncertain
          /\ confirmed' = confirmed \cup {c} /\ UNCHANGED <<uncertain, got, phone>>
          /\ steps' = [steps EXCEPT ![c] = Append(@, "delivered")]
      BY <1>1, <1>9 DEF Confirms, Sends, Talking
    <2>2. "delivered" \in Steps /\ "delivered" \notin Request
      BY OutboxAssumption DEF Steps
    <2>3. /\ steps' \in [Calls -> Seq(Steps)] /\ StepsOf(c)' = StepsOf(c) \cup {"delivered"}
          /\ \A d \in Calls : d # c => steps'[d] = steps[d]
          /\ Request \cap StepsOf(c)' = Request \cap StepsOf(c)
      BY <1>6, <2>1, <2>2
    <2>4. CallInv(c)'
      BY <1>1, <1>2, <1>3, <1>4, <2>1, <2>3, CallIs DEF CallInv
    <2>5. /\ phone[r] # "none" => stage[Send(r)] \in {"talking", "ending", "ended"}
          /\ Wait(r) \in got => stage[Send(r)] \in {"ending", "ended"}
      BY <1>3 DEF RecordInv
    <2> QED BY <1>1, <1>3, <1>7, <2>1, <2>3, <2>4, <2>5
  <1>10. CASE LosesTrack(c)
    <2>1. /\ stage[c] = "talking" /\ c = Send(r) /\ c \notin confirmed \cup uncertain
          /\ uncertain' = uncertain \cup {c} /\ UNCHANGED <<confirmed, got, phone>>
          /\ steps' = [steps EXCEPT ![c] = Append(@, "unconfirmed")]
      BY <1>1, <1>10 DEF LosesTrack, Sends, Talking
    <2>2. "unconfirmed" \in Steps /\ "unconfirmed" \notin Request
      BY OutboxAssumption DEF Steps
    <2>3. /\ steps' \in [Calls -> Seq(Steps)] /\ StepsOf(c)' = StepsOf(c) \cup {"unconfirmed"}
          /\ \A d \in Calls : d # c => steps'[d] = steps[d]
          /\ Request \cap StepsOf(c)' = Request \cap StepsOf(c)
      BY <1>6, <2>1, <2>2
    <2>4. CallInv(c)'
      BY <1>1, <1>2, <1>3, <1>4, <2>1, <2>3, CallIs DEF CallInv
    <2>5. /\ phone[r] # "none" => stage[Send(r)] \in {"talking", "ending", "ended"}
          /\ Wait(r) \in got => stage[Send(r)] \in {"ending", "ended"}
          /\ Send(r) \in knows => Send(r) \in confirmed
      BY <1>3 DEF RecordInv, DeliveredInv
    <2> QED BY <1>3, <1>7, <2>1, <2>3, <2>4, <2>5
  <1>11. CASE AnswerArrives(c)
    <2>1. /\ stage[c] = "talking" /\ phone[r] = "decided" /\ got' = got \cup {c}
          /\ phone' = [phone EXCEPT ![r] = "told"] /\ UNCHANGED <<steps, confirmed, uncertain>>
      BY <1>11 DEF AnswerArrives, Talking
    <2>2. stage[Send(r)] \in {"talking", "ending", "ended"}
      BY <1>3, <2>1 DEF RecordInv
    <2>3. Wait(r) \in got' => stage[Send(r)] \in {"ending", "ended"}
      BY <1>1, <1>3, <2>1, <2>2 DEF RecordInv
    <2>4. CallInv(c)'
      BY <1>2, <1>3, <1>4, <2>1, CallIs DEF CallInv, StepsOf
    <2>5. /\ phone' \in [Request -> {"none", "queued", "decided", "told"}]
          /\ \A s \in Request : s # r => phone'[s] = phone[s]
          /\ Send(r) \in knows => Send(r) \in confirmed
      BY <1>1, <1>3, <2>1 DEF DeliveredInv
    <2> QED BY <1>3, <1>7, <2>1, <2>2, <2>3, <2>4, <2>5
  <1> QED BY <1>8, <1>9, <1>10, <1>11

\* The answer to a request that no call talks about is read by the others.
LEMMA LateAnswerKeeps ==
  ASSUME OutboxInv, NEW r \in Request, LateAnswerArrives(r)
  PROVE  OutboxInv'
  <1>1. /\ UNCHANGED <<route, file, life, inflight, stage, knows, confirmed, uncertain, got,
                       result, cancelled>>
        /\ phone[r] = "decided" /\ phone' = [phone EXCEPT ![r] = "told"]
        /\ \A d \in Calls : stage[d] = "talking" => Of(d) # r
        /\ steps' = [d \in Calls |-> IF stage[d] = "talking" THEN Append(steps[d], r) ELSE steps[d]]
    BY DEF LateAnswerArrives, Talking
  <1>2. stage[Send(r)] \in {"ending", "ended"}
    BY <1>1, RequestIs DEF OutboxInv, RecordInv
  <1>3. FileInv' /\ \A q \in Process, s \in Request : Soon(q, s)' = Soon(q, s)
    BY <1>1, FileStays DEF OutboxInv
  <1>4. ASSUME NEW d \in Calls
        PROVE  /\ steps'[d] \in Seq(Steps)
               /\ \/ StepsOf(d)' = StepsOf(d)
                  \/ StepsOf(d)' = StepsOf(d) \cup {r} /\ Of(d) # r
    <2>1. steps[d] \in Seq(Steps) /\ r \in Steps
      BY DEF OutboxInv, OutboxTypes, Steps
    <2>2. CASE stage[d] = "talking"
      BY <1>1, <2>1, <2>2, ValuesOfAppend DEF StepsOf
    <2>3. CASE stage[d] # "talking"
      BY <1>1, <2>1, <2>3 DEF StepsOf
    <2> QED BY <2>2, <2>3
  <1>5. OutboxTypes' /\ OneThread'
    <2>1. steps' \in [Calls -> Seq(Steps)]
      BY <1>1, <1>4
    <2> QED BY <1>1, <2>1 DEF OutboxInv, OutboxTypes, OneThread
  <1>6. ASSUME NEW s \in Request
        PROVE  RecordInv(s)' /\ DeliveredInv(s)' /\ SendingInv(s)'
    <2>1. RecordInv(s) /\ DeliveredInv(s) /\ SendingInv(s) /\ Sender[s] \in Process
          /\ (phone'[s] # "none" => phone[s] # "none")
      BY <1>1, RequestIs DEF OutboxInv, OutboxTypes
    <2>2. RecordInv(s)'
      BY <1>1, <1>3, <2>1 DEF RecordInv
    <2>3. DeliveredInv(s)' /\ SendingInv(s)'
      BY <1>1, <1>3, <2>1 DEF DeliveredInv, SendingInv, OverIroh
    <2> QED BY <2>2, <2>3
  <1>7. ASSUME NEW d \in Calls PROVE CallInv(d)'
    <2>1. "delivered" # r /\ "unconfirmed" # r
      BY OutboxAssumption
    <2>2. CallInv(d) /\ Of(d) \in Request /\ At(d) \in Process
      BY CallIs DEF OutboxInv
    <2> QED BY <1>1, <1>2, <1>3, <1>4, <2>1, <2>2 DEF CallInv
  <1> QED BY <1>3, <1>5, <1>6, <1>7 DEF OutboxInv

-----------------------------------------------------------------------------
(* The bookkeeping of a call *)

\* on_step, on_iroh_step and late_answer: one step of a transport is read.
LEMMA ReadStepKeeps ==
  ASSUME OutboxInv, NEW c \in Calls, ReadStep(c)
  PROVE  OutboxInv'
  <1> DEFINE r == Of(c)
             h == Head(steps[c])
  <1>1. /\ r \in Request /\ At(c) \in Process /\ Send(r) \in Calls /\ Wait(r) \in Calls
        /\ Send(r) # Wait(r) /\ Sender[r] \in Process /\ At(Send(r)) = Sender[r]
        /\ Send(r)[2] = "send" /\ Wait(r)[2] = "await"
        /\ c = Send(r) \/ c = Wait(r)
    BY CallIs, RequestIs
  <1>2. /\ steps[c] # <<>> /\ todo[At(c)] = <<>> /\ stage[c] \in {"talking", "ending"}
        /\ UNCHANGED <<route, life, inflight, stage, confirmed, uncertain, got, result, phone, cancelled>>
        /\ knows' = IF h = "delivered" THEN knows \cup {c} ELSE knows
        /\ Does(At(c), Changes(c, h)) /\ steps' = [steps EXCEPT ![c] = Tail(steps[c])]
        /\ stage[c] = "talking" => Idle(At(c))
    BY DEF ReadStep
  <1>3. /\ RecordInv(r) /\ DeliveredInv(r) /\ SendingInv(r) /\ CallInv(c)
        /\ FileInv /\ OneThread /\ life[At(c)] = "up"
        /\ \A q \in Process, s \in Request : Soon(q, s) = disk[s]
    BY <1>1, <1>2, RunningIsUp, SoonIsNow DEF OutboxInv
  <1>4. /\ h \in Steps /\ h \in StepsOf(c) /\ steps' \in [Calls -> Seq(Steps)]
        /\ StepsOf(c)' \subseteq StepsOf(c) /\ \A d \in Calls : d # c => steps'[d] = steps[d]
    <2>1. steps \in [Calls -> Seq(Steps)]
      BY DEF OutboxInv, OutboxTypes
    <2>2. /\ Tail(steps[c]) \in Seq(Steps) /\ h \in Steps
          /\ h \in {steps[c][i] : i \in 1..Len(steps[c])}
          /\ {Tail(steps[c])[i] : i \in 1..Len(Tail(steps[c]))} \subseteq {steps[c][i] : i \in 1..Len(steps[c])}
      BY <1>2, <2>1, ValuesOfTail
    <2>3. steps'[c] = Tail(steps[c])
      BY <1>2, <2>1
    <2> QED BY <1>2, <2>1, <2>2, <2>3 DEF StepsOf
  <1> HIDE DEF h
  <1>5. OutboxTypes' /\ OneThread'
    BY <1>2, <1>3, <1>4 DEF OutboxInv, OutboxTypes, OneThread
  <1>6. CallInv(c)'
    <2>1. \A s \in Request \cap StepsOf(c)' : s \in Request \cap StepsOf(c)
      BY <1>4
    <2>2. UNCHANGED <<life, stage, confirmed, uncertain, got, result>> /\ stage[c] # "ended"
      BY <1>2
    <2> QED BY <1>3, <1>4, <2>1, <2>2 DEF CallInv
  <1>7. CASE h \notin Request
    <2>1. /\ h \in {"delivered", "unconfirmed"} /\ c = Send(r)
          /\ h = "delivered" => c \in confirmed
          /\ h = "unconfirmed" => c \notin confirmed
          /\ disk[r] \notin {"none", "answered"}
      <3>1. h \in {"delivered", "unconfirmed"}
        BY <1>4, <1>7 DEF Steps
      <3>2. /\ c[2] = "send" /\ h = "delivered" => c \in confirmed
            /\ c[2] = "send" /\ h = "unconfirmed" => c \notin confirmed
            /\ c[2] = "send"
        BY <1>3, <1>4, <3>1 DEF CallInv
      <3> QED BY <1>1, <1>2, <1>3, <3>1, <3>2 DEF RecordInv, Running, Started
    <2>2. Changes(c, h) = Set(r, h)
      BY <2>1 DEF Changes
    <2>3. /\ FileInv'
          /\ \A q \in Process, s \in Request :
                Soon(q, s)' = IF q = At(c) /\ s = r THEN h ELSE disk[s]
      <3>1. h \in States \ {"none", "sending"} /\ Does(At(c), Set(r, h) \o <<>>)
        BY <1>1, <1>2, <2>1, <2>2, SetAlone DEF States
      <3> QED BY <1>1, <1>2, <1>3, <2>1, <3>1, QueueSet DEF OnlySays
    <2>4. OnlyMoves(c)
      BY <1>1, <1>2, <1>3, <1>4, <2>1, <2>3 DEF OnlyMoves
    <2>5. RecordInv(r)'
      BY <1>1, <1>2, <1>3, <2>1, <2>3 DEF RecordInv
    <2>6. DeliveredInv(r)'
      BY <1>1, <1>2, <1>3, <2>1, <2>3 DEF DeliveredInv
    <2>7. SendingInv(r)'
      BY <1>1, <1>2, <1>3, <2>1, <2>3 DEF SendingInv, OverIroh
    <2> QED BY <1>5, <1>6, <2>3, <2>4, <2>5, <2>6, <2>7, OneCall
  <1>8. CASE h \in Request
    <2>1. /\ h # r /\ stage[Send(h)] = "ended" /\ h \notin {"delivered", "unconfirmed"}
          /\ UNCHANGED knows
      <3>1. h # r /\ stage[Send(h)] \in {"ending", "ended"} /\ Send(h) \in Calls /\ Of(Send(h)) = h
        BY <1>3, <1>4, <1>8, RequestIs DEF CallInv
      <3>2. h \notin {"delivered", "unconfirmed"}
        BY <1>8, OutboxAssumption
      <3>3. stage[Send(h)] # "ending"
        <4>1. CASE stage[c] = "ending"
          BY <3>1, <4>1 DEF OutboxInv, OneThread
        <4>2. CASE stage[c] = "talking"
          BY <1>1, <1>2, <3>1, <4>2, IdleIs
        <4> QED BY <1>2, <4>1, <4>2
      <3> QED BY <1>2, <3>1, <3>2, <3>3
    <2>2. ASSUME FileInv', NEW to, to = disk[h] \/ to = "answered",
                 \A q \in Process, s \in Request :
                    Soon(q, s)' = IF q = At(c) /\ s = h THEN to ELSE disk[s]
          PROVE  OutboxInv'
      <3>1. \A q \in Process, s \in Request :
               \/ Soon(q, s)' = Soon(q, s)
               \/ Soon(q, s)' = "answered" /\ s = h
        BY <1>3, <2>2
      <3>2. \A q \in Process : Soon(q, r)' = Soon(q, r)
        BY <1>1, <1>3, <2>1, <2>2
      <3>3. OnlyMoves(c)
        BY <1>1, <1>2, <1>4, <2>1, <3>1, <3>2 DEF OnlyMoves
      <3>4. RecordInv(r)' /\ DeliveredInv(r)' /\ SendingInv(r)'
        <4>1. RecordInv(r)'
          BY <1>1, <1>2, <1>3, <2>1, <3>2 DEF RecordInv
        <4>2. DeliveredInv(r)' /\ SendingInv(r)'
          BY <1>1, <1>2, <1>3, <2>1, <3>2 DEF DeliveredInv, SendingInv, OverIroh
        <4> QED BY <4>1, <4>2
      <3> QED BY <1>5, <1>6, <2>2, <3>3, <3>4, OneCall
    <2>3. CASE disk[h] \in {"none", "answered"}
      <3>1. Does(At(c), <<>>)
        BY <1>2, <2>1, <2>3 DEF Changes
      <3>2. FileInv' /\ \A q \in Process, s \in Request : Soon(q, s)' = disk[s]
        BY <1>1, <1>2, <1>3, <3>1, QueueNothing
      <3> QED BY <1>8, <2>2, <3>2
    <2>4. CASE disk[h] \notin {"none", "answered"}
      <3>1. Changes(c, h) = Set(h, "answered")
        BY <2>1, <2>4 DEF Changes
      <3>2. "answered" \in States \ {"none", "sending"} /\ Does(At(c), Set(h, "answered") \o <<>>)
        BY <1>2, <1>8, <3>1, SetAlone DEF States
      <3>3. /\ FileInv'
            /\ \A q \in Process, s \in Request :
                  Soon(q, s)' = IF q = At(c) /\ s = h THEN "answered" ELSE disk[s]
        BY <1>1, <1>2, <1>3, <1>8, <2>4, <3>2, QueueSet DEF OnlySays
      <3> QED BY <2>2, <3>3
    <2> QED BY <2>3, <2>4
  <1> QED BY <1>7, <1>8

\* The call c is over with the result v, by itself or dropped, and its record is
\* about to say `to`.
Over(c, v, to) ==
    /\ stage[c] \notin {"idle", "ended"} /\ Moves(c, "ended")
    /\ UNCHANGED <<route, life, knows, confirmed, uncertain, got, phone>>
    /\ v \in Results /\ result' = [result EXCEPT ![c] = v]
    /\ steps' \in [Calls -> Seq(Steps)] /\ steps'[c] = <<>>
    /\ \A d \in Calls : d # c => steps'[d] = steps[d]
    /\ inflight' \in [Process -> [Request -> Calls \cup {NoCall}]]
    /\ \A q \in Process, s \in Request : s # Of(c) => inflight'[q][s] = inflight[q][s]
    /\ FileInv'
    /\ OnlySays(At(c), Of(c), to)
    /\ v = "answer" => stage[c] = "ending" /\ c \in got /\ to = "answered"
    /\ v = "notConfirmed" => c[2] = "send" /\ c \notin confirmed
    /\ to = "answered" => disk[Of(c)] = "answered" \/ v = "answer"
    /\ disk[Of(c)] = "answered" => to = "answered"
    /\ to = "none" => disk[Of(c)] = "none"
    /\ c[2] = "await" => to \in {disk[Of(c)], "answered"}
    /\ c[2] = "send" /\ c \in knows => to \in {"delivered", "answered", "cancelled"}
    /\ OverIroh /\ ~EarlyAwait /\ c[2] = "send" => to # "sending"

\* A call that is over leaves the invariant as it was.
LEMMA EndKeeps ==
  ASSUME OutboxInv, NEW c \in Calls, NEW v, NEW to, Over(c, v, to)
  PROVE  OutboxInv'
  <1> DEFINE r == Of(c)
  <1> USE DEF Over, OnlySays
  <1>1. /\ r \in Request /\ At(c) \in Process /\ Send(r) \in Calls /\ Wait(r) \in Calls
        /\ Send(r) # Wait(r) /\ Sender[r] \in Process /\ At(Send(r)) = Sender[r]
        /\ Send(r)[2] = "send" /\ Wait(r)[2] = "await"
        /\ c = Send(r) \/ c = Wait(r)
    BY CallIs, RequestIs
  <1>2. life[At(c)] = "up"
    BY RunningIsUp
  <1>3. /\ stage' \in [Calls -> {"idle", "checking", "ended"} \cup Running]
        /\ stage'[c] = "ended" /\ \A d \in Calls : d # c => stage'[d] = stage[d]
        /\ OneThread'
    BY <1>2, MovesKeeps
  <1>4. /\ result' \in [Calls -> Results] /\ result'[c] = v
        /\ \A d \in Calls : d # c => result'[d] = result[d]
    BY DEF OutboxInv, OutboxTypes
  <1>5. StepsOf(c)' = {}
    BY EmptySeq DEF StepsOf
  <1>6. RecordInv(r) /\ DeliveredInv(r) /\ SendingInv(r) /\ CallInv(c)
    BY <1>1 DEF OutboxInv
  <1>7. OutboxTypes'
    BY <1>3, <1>4 DEF OutboxInv, OutboxTypes
  <1>8. OnlyMoves(c)
    <2>1. \A q \in Process, s \in Request : s # r => Soon(q, s)' = Soon(q, s)
      OBVIOUS
    <2>2. \A q \in Process : Soon(q, r) = "answered" => Soon(q, r)' = "answered"
      BY <1>1
    <2>3. UNCHANGED <<route, life, knows, confirmed, uncertain, got, phone>>
      OBVIOUS
    <2> QED BY <1>3, <1>4, <2>1, <2>2, <2>3 DEF OnlyMoves
  <1>9. c = Wait(r) /\ to = "answered" => stage[Send(r)] = "ended"
    <2>1. SUFFICES ASSUME c = Wait(r), to = "answered" PROVE stage[Send(r)] = "ended"
      OBVIOUS
    <2>2. CASE disk[r] = "answered"
      BY <1>1, <1>6, <2>2 DEF RecordInv
    <2>3. CASE v = "answer"
      <3>1. stage[c] = "ending" /\ stage[Send(r)] \in {"ending", "ended"}
        BY <1>6, <2>1, <2>3 DEF RecordInv
      <3> QED BY <1>1, <2>1, <3>1 DEF OutboxInv, OneThread
    <2> QED BY <2>1, <2>2, <2>3
  <1>10. RecordInv(r)'
    <2>1. CASE c = Send(r)
      BY <1>1, <1>3, <1>6, <2>1 DEF RecordInv, Running, Started
    <2>2. CASE c = Wait(r)
      BY <1>1, <1>3, <1>6, <1>9, <2>2 DEF RecordInv, Running, Started
    <2> QED BY <1>1, <2>1, <2>2
  <1>11. DeliveredInv(r)'
    BY <1>1, <1>6 DEF DeliveredInv
  <1>12. SendingInv(r)'
    <2> SUFFICES ASSUME OverIroh, ~EarlyAwait PROVE SendingInv(r)'
      BY DEF SendingInv, OverIroh
    <2>1. CASE c = Send(r)
      BY <1>1, <1>3, <1>6, <2>1 DEF SendingInv, Running, Started, OverIroh
    <2>2. CASE c = Wait(r)
      <3>1. stage[c] \in Running
        <4>1. stage[c] \in {"idle", "checking", "ended"} \cup Running
          BY DEF OutboxInv, OutboxTypes
        <4> QED BY <1>1, <1>6, <2>2, <4>1 DEF CallInv
      <3>2. stage[Send(r)] = "ended"
        BY <1>6, <2>2, <3>1 DEF SendingInv
      <3>3. stage'[Send(r)] = "ended" /\ stage'[Wait(r)] = "ended"
        BY <1>1, <1>3, <2>2, <3>2
      <3>4. life'[Sender[r]] = "up" => Soon(Sender[r], r)' # "sending"
        BY <1>1, <1>6, <2>2, <3>2 DEF SendingInv, Running, Started
      <3> QED BY <3>3, <3>4 DEF SendingInv, Running, Started
    <2> QED BY <1>1, <2>1, <2>2
  <1>13. CallInv(c)'
    BY <1>1, <1>3, <1>4, <1>5, <1>6 DEF CallInv
  <1> QED BY <1>3, <1>7, <1>8, <1>10, <1>11, <1>12, <1>13, OneCall

\* Over WebRTC, the end of a call is noted behind its last change.
LEMMA ClosesLinkIs ==
  ClosesLink \in {<<>>, MarkClosed} /\ ClosesLink = <<>> \o ClosesLink
  BY MarkClosedIs, EmptySeq, ConcatEmptySeq DEF ClosesLink

\* conclude, when no step is left: how the exchange ended is recorded.
LEMMA ConcludeKeeps ==
  ASSUME OutboxInv, NEW c \in Calls, Conclude(c)
  PROVE  OutboxInv'
  <1> DEFINE r == Of(c)
  <1>1. /\ r \in Request /\ At(c) \in Process /\ Sender[r] \in Process
        /\ c[2] = "send" => c = Send(r) /\ At(c) = Sender[r]
        /\ c[2] = "await" => c = Wait(r)
        /\ c[2] \in {"send", "await"}
    BY CallIs, RequestIs
  <1>2. /\ stage[c] = "ending" /\ steps[c] = <<>> /\ todo[At(c)] = <<>>
        /\ Does(At(c), Concluded(c) \o ClosesLink) /\ Moves(c, "ended")
        /\ UNCHANGED <<route, life, knows, steps, confirmed, uncertain, got, result, phone>>
    BY DEF Conclude, transport
  <1>3. /\ RecordInv(r) /\ DeliveredInv(r) /\ SendingInv(r) /\ CallInv(c)
        /\ FileInv /\ OneThread /\ life[At(c)] = "up"
        /\ \A q \in Process, s \in Request : Soon(q, s) = disk[s]
    BY <1>1, <1>2, RunningIsUp, SoonIsNow DEF OutboxInv
  <1>4. /\ result[c] \in Results /\ result' = [result EXCEPT ![c] = result[c]]
        /\ steps' \in [Calls -> Seq(Steps)] /\ steps'[c] = <<>>
        /\ \A d \in Calls : d # c => steps'[d] = steps[d]
    BY <1>2 DEF OutboxInv, OutboxTypes
  <1>5. /\ inflight' \in [Process -> [Request -> Calls \cup {NoCall}]]
        /\ \A q \in Process, s \in Request : s # r => inflight'[q][s] = inflight[q][s]
    BY <1>1 DEF OutboxInv, OutboxTypes, Conclude
  <1>6. /\ disk[r] # "none"
        /\ c[2] = "send" => disk[r] # "answered"
        /\ c[2] = "send" /\ c \in knows => c \in confirmed
        /\ c[2] = "send" /\ c \in knows => disk[r] \in {"delivered", "answered", "cancelled"}
    BY <1>1, <1>2, <1>3 DEF RecordInv, DeliveredInv, Running, Started
  <1>7. /\ result[c] \in {"answer", "failed", "notConfirmed", "stopped"}
        /\ result[c] = "answer" => c \in got
        /\ result[c] = "notConfirmed" => c[2] = "send" /\ c \notin confirmed
    BY <1>2, <1>3 DEF CallInv
  <1>8. CASE Concluded(c) = <<>> /\ result[c] \in {"failed", "stopped"}
             /\ (c[2] = "send" => result[c] = "stopped")
    <2>1. Does(At(c), ClosesLink)
      BY <1>2, <1>8, ClosesLinkIs
    <2>2. /\ FileInv'
          /\ \A q \in Process, s \in Request : Soon(q, s)' = disk[s] /\ Soon(q, s) = disk[s]
      BY <1>1, <1>2, <1>3, <2>1, QueueNothing, ClosesLinkIs
    <2>3. OverIroh /\ ~EarlyAwait /\ c[2] = "send" => disk[r] # "sending"
      BY <1>1, <1>2, <1>3, <1>8 DEF SendingInv
    <2> DEFINE to == disk[r]
    <2>4. OnlySays(At(c), r, to)
      BY <2>2 DEF OnlySays
    <2>5. /\ result[c] # "answer" /\ result[c] # "notConfirmed"
          /\ to = "answered" => disk[r] = "answered"
          /\ to = "none" => disk[r] = "none"
          /\ disk[r] = "answered" => to = "answered"
          /\ c[2] = "await" => to \in {disk[r], "answered"}
          /\ c[2] = "send" /\ c \in knows => to \in {"delivered", "answered", "cancelled"}
          /\ OverIroh /\ ~EarlyAwait /\ c[2] = "send" => to # "sending"
      BY <1>6, <1>8, <2>3
    <2> HIDE DEF to
    <2>6. Over(c, result[c], to)
      BY <1>2, <1>4, <1>5, <2>2, <2>4, <2>5 DEF Over
    <2> QED BY <2>6, EndKeeps
  <1>9. ASSUME NEW to \in States \ {"none", "sending"}, Concluded(c) = Set(r, to),
               to = "answered" <=> result[c] = "answer",
               c[2] = "await" => to = "answered",
               c \in knows /\ c[2] = "send" => to \in {"delivered", "answered"},
               disk[r] = "answered" => to = "answered"
        PROVE  OutboxInv'
    <2>1. FileInv' /\ OnlySays(At(c), r, to)
      <3>1. Does(At(c), Set(r, to) \o ClosesLink) /\ todo[At(c)] = <<>> /\ UNCHANGED life
        BY <1>2, <1>9
      <3>2. disk[r] # "none" /\ FileInv /\ OneThread /\ life[At(c)] = "up"
        BY <1>3, <1>6
      <3>3. PICK rest \in {<<>>, MarkClosed} : rest = ClosesLink
        BY ClosesLinkIs
      <3>4. to \in States \ {"none", "sending"} /\ (disk[r] = "answered" => to = "answered")
        BY <1>9
      <3>5. Does(At(c), Set(r, to) \o rest)
        BY <3>1, <3>3
      <3> QED BY <1>1, <3>1, <3>2, <3>4, <3>5, QueueSet
    <2>2. to # "none" /\ to # "sending"
      BY <1>9
    <2>3. Over(c, result[c], to)
      BY <1>1, <1>2, <1>4, <1>5, <1>7, <1>9, <2>1, <2>2 DEF Over
    <2> QED BY <2>3, EndKeeps
  <1>10. CASE result[c] = "answer"
    BY <1>9, <1>10 DEF Concluded, States
  <1>11. CASE result[c] = "notConfirmed"
    BY <1>1, <1>6, <1>7, <1>9, <1>11 DEF Concluded, States
  <1>12. CASE result[c] = "failed" /\ c[2] = "send"
    <2> DEFINE to == IF c \in knows THEN "delivered" ELSE "notDelivered"
    <2>1. Concluded(c) = Set(r, to)
      BY <1>12 DEF Concluded
    <2>2. to \in States \ {"none", "sending"} /\ to # "answered"
          /\ (c \in knows => to = "delivered")
      BY DEF States
    <2> HIDE DEF to
    <2> QED BY <1>1, <1>6, <1>9, <1>12, <2>1, <2>2
  <1>13. CASE result[c] = "stopped" \/ (result[c] = "failed" /\ c[2] # "send")
    BY <1>8, <1>13 DEF Concluded
  <1> QED BY <1>7, <1>10, <1>11, <1>12, <1>13

\* A call that the client drops: what its Unfinished records.
LEMMA AbortKeeps ==
  ASSUME OutboxInv, NEW c \in Calls, Abort(c)
  PROVE  OutboxInv'
  <1> DEFINE r == Of(c)
  <1>1. /\ r \in Request /\ At(c) \in Process /\ Sender[r] \in Process
        /\ c[2] = "send" => c = Send(r) /\ At(c) = Sender[r]
        /\ c[2] = "await" => c = Wait(r)
        /\ c[2] \in {"send", "await"}
    BY CallIs, RequestIs
  <1>2. /\ stage[c] \in {"checking", "settling"} \cup Started /\ Idle(At(c)) /\ Moves(c, "ended")
        /\ UNCHANGED <<route, life, knows, confirmed, uncertain, got, phone>>
        /\ result' = [result EXCEPT ![c] = "abandoned"] /\ steps' = [steps EXCEPT ![c] = <<>>]
    BY DEF Abort
  <1>3. /\ RecordInv(r) /\ DeliveredInv(r) /\ SendingInv(r) /\ CallInv(c)
        /\ FileInv /\ OneThread /\ life[At(c)] = "up" /\ todo[At(c)] = <<>>
        /\ \A q \in Process, s \in Request : Soon(q, s) = disk[s]
    BY <1>1, <1>2, IdleIs DEF OutboxInv
  <1>4. /\ "abandoned" \in Results /\ stage[c] \notin {"idle", "ended"}
        /\ steps' \in [Calls -> Seq(Steps)] /\ steps'[c] = <<>>
        /\ \A d \in Calls : d # c => steps'[d] = steps[d]
    BY <1>2, EmptySeq DEF OutboxInv, OutboxTypes, Results, Started
  <1>5. /\ inflight' \in [Process -> [Request -> Calls \cup {NoCall}]]
        /\ \A q \in Process, s \in Request : s # r => inflight'[q][s] = inflight[q][s]
    <2>1. \/ UNCHANGED inflight
          \/ inflight' = [inflight EXCEPT ![At(c)][r] = NoCall]
      BY DEF Abort
    <2>2. inflight \in [Process -> [Request -> Calls \cup {NoCall}]]
      BY DEF OutboxInv, OutboxTypes
    <2> QED BY <1>1, <2>1, <2>2
  <1>6. /\ c[2] = "send" => disk[r] # "answered"
        /\ c[2] = "send" /\ c \in knows => disk[r] \in {"delivered", "answered", "cancelled"}
    <2>1. c[2] = "send" => disk[r] # "answered"
      BY <1>1, <1>2, <1>3 DEF RecordInv, Started
    <2>2. c[2] = "send" /\ c \in knows => disk[r] \in {"delivered", "answered", "cancelled"}
      BY <1>1, <1>2, <1>3 DEF DeliveredInv
    <2> QED BY <2>1, <2>2
  <1>7. ASSUME FileInv', \A q \in Process, s \in Request : Soon(q, s)' = disk[s],
               OverIroh /\ ~EarlyAwait /\ c[2] = "send" => disk[r] # "sending"
        PROVE  OutboxInv'
    <2> DEFINE to == disk[r]
    <2>1. OnlySays(At(c), r, to)
      BY <1>3, <1>7 DEF OnlySays
    <2>2. /\ to = "answered" => disk[r] = "answered"
          /\ to = "none" => disk[r] = "none"
          /\ disk[r] = "answered" => to = "answered"
          /\ c[2] = "await" => to \in {disk[r], "answered"}
          /\ c[2] = "send" /\ c \in knows => to \in {"delivered", "answered", "cancelled"}
          /\ OverIroh /\ ~EarlyAwait /\ c[2] = "send" => to # "sending"
      BY <1>6, <1>7
    <2> HIDE DEF to
    <2>3. Over(c, "abandoned", to)
      BY <1>2, <1>4, <1>5, <1>7, <2>1, <2>2 DEF Over
    <2> QED BY <2>3, EndKeeps
  <1>8. CASE stage[c] \notin Started
    <2>1. UNCHANGED file
      BY <1>8 DEF Abort
    <2>2. FileInv' /\ \A q \in Process, s \in Request : Soon(q, s)' = disk[s]
      BY <1>2, <1>3, <2>1, FileStays
    <2>3. OverIroh /\ ~EarlyAwait /\ c[2] = "send" => disk[r] # "sending"
      BY <1>1, <1>2, <1>3, <1>8 DEF SendingInv, RecordInv
    <2> QED BY <1>7, <2>2, <2>3
  <1>9. CASE stage[c] \in Started /\ (c[2] # "send" \/ c \in knows)
    <2>1. Does(At(c), ClosesLink)
      BY <1>9, ClosesLinkIs DEF Abort, Unfinished
    <2>2. FileInv' /\ \A q \in Process, s \in Request : Soon(q, s)' = disk[s]
      BY <1>1, <1>2, <1>3, <2>1, QueueNothing, ClosesLinkIs
    <2> QED BY <1>6, <1>7, <1>9, <2>2
  <1>10. CASE stage[c] \in Started /\ c[2] = "send" /\ c \notin knows
    <2>1. Does(At(c), Set(r, "notDelivered") \o ClosesLink)
      BY <1>10 DEF Abort, Unfinished
    <2>2. PICK rest \in {<<>>, MarkClosed} : rest = ClosesLink
      BY ClosesLinkIs
    <2>3. Does(At(c), Set(r, "notDelivered") \o rest)
      BY <2>1, <2>2
    <2>4. "notDelivered" \in States \ {"none", "sending"} /\ UNCHANGED life /\ disk[r] # "none"
      BY <1>1, <1>2, <1>3, <1>10 DEF States, RecordInv, Running
    <2>5. FileInv' /\ OnlySays(At(c), r, "notDelivered")
      BY <1>1, <1>3, <1>6, <1>10, <2>3, <2>4, QueueSet
    <2>6. Over(c, "abandoned", "notDelivered")
      BY <1>1, <1>2, <1>4, <1>5, <1>6, <1>10, <2>5 DEF Over
    <2> QED BY <2>6, EndKeeps
  <1> QED BY <1>1, <1>8, <1>9, <1>10

\* cancel_request: the call is stopped, and the record cleared unless answered.
LEMMA CancelKeeps ==
  ASSUME OutboxInv, NEW r \in Clearer, CancelRequest(r)
  PROVE  OutboxInv'
  <1> DEFINE c == Send(r)
             p == ClearedBy[r]
  <1>1. /\ r \in Request /\ p \in Process /\ c \in Calls /\ Wait(r) \in Calls /\ c # Wait(r)
        /\ Of(c) = r /\ At(c) = Sender[r] /\ Sender[r] \in Process /\ c[2] = "send"
    BY OutboxAssumption, RequestIs
  <1>2. /\ Idle(p) /\ inflight' = [inflight EXCEPT ![p][r] = NoCall] /\ Does(p, Clears(r))
        /\ UNCHANGED <<route, life, stage, knows, steps, confirmed, uncertain, got, result, phone>>
    BY DEF CancelRequest, transport
  <1>3. /\ life[p] = "up" /\ todo[p] = <<>> /\ \A q \in Process : life[q] = "up" => q = p
        /\ \A q \in Process, s \in Request : Soon(q, s) = disk[s]
        /\ \A d \in Calls : stage[d] # "ending"
    BY <1>1, <1>2, IdleIs
  <1>4. /\ RecordInv(r) /\ DeliveredInv(r) /\ SendingInv(r) /\ CallInv(c) /\ FileInv /\ OneThread
    BY <1>1 DEF OutboxInv
  <1>5. /\ inflight' \in [Process -> [Request -> Calls \cup {NoCall}]]
        /\ \A q \in Process, s \in Request : s # r => inflight'[q][s] = inflight[q][s]
    BY <1>1, <1>2 DEF OutboxInv, OutboxTypes
  <1>6. PICK to \in {disk[r], "cancelled"} :
          /\ FileInv' /\ OnlySays(p, r, to)
          /\ to = disk[r] => disk[r] # "sending"
          /\ to # disk[r] => disk[r] \notin {"none", "answered"}
    <2>1. CASE disk[r] \in {"none", "answered"}
      <3>1. Does(p, <<>>)
        BY <1>2, <2>1 DEF Clears
      <3>2. FileInv' /\ \A q \in Process, s \in Request : Soon(q, s)' = disk[s]
        BY <1>1, <1>2, <1>3, <1>4, <3>1, QueueNothing
      <3>3. OnlySays(p, r, disk[r])
        BY <1>3, <3>2 DEF OnlySays
      <3> QED BY <2>1, <3>2, <3>3
    <2>2. CASE disk[r] \notin {"none", "answered"}
      <3>1. /\ Does(p, Set(r, "cancelled") \o <<>>)
            /\ "cancelled" \in States \ {"none", "sending"} /\ UNCHANGED life
        BY <1>1, <1>2, <2>2, SetAlone DEF Clears, States
      <3>2. FileInv' /\ OnlySays(p, r, "cancelled")
        BY <1>1, <1>3, <1>4, <2>2, <3>1, QueueSet
      <3> QED BY <2>2, <3>2
    <2> QED BY <2>1, <2>2
  <1>7. \A q \in Process, s \in Request : Soon(q, s)' = IF q = p /\ s = r THEN to ELSE disk[s]
    BY <1>6 DEF OnlySays
  <1>8. OutboxTypes' /\ OneThread'
    BY <1>2, <1>5 DEF OutboxInv, OutboxTypes, OneThread
  <1>9. OnlyMoves(c)
    <2>1. \A q \in Process, s \in Request : s # r => Soon(q, s)' = Soon(q, s)
      BY <1>3, <1>7
    <2>2. \A q \in Process : Soon(q, r) = "answered" => Soon(q, r)' = "answered"
      BY <1>1, <1>3, <1>6, <1>7
    <2> QED BY <1>1, <1>2, <1>5, <2>1, <2>2 DEF OnlyMoves
  <1>10. RecordInv(r)'
    BY <1>1, <1>2, <1>3, <1>4, <1>6, <1>7 DEF RecordInv
  <1>11. DeliveredInv(r)'
    BY <1>1, <1>2, <1>3, <1>4, <1>6, <1>7 DEF DeliveredInv
  <1>12. SendingInv(r)'
    BY <1>1, <1>2, <1>3, <1>4, <1>6, <1>7 DEF SendingInv, OverIroh
  <1>13. CallInv(c)'
    <2>1. StepsOf(c)' = StepsOf(c)
      BY <1>2 DEF StepsOf
    <2> QED BY <1>1, <1>2, <1>3, <1>4, <1>6, <1>7, <2>1 DEF CallInv
  <1> QED BY <1>1, <1>6, <1>8, <1>9, <1>10, <1>11, <1>12, <1>13, OneCall

\* A process is killed: its file work and its calls are gone with it.
LEMMA DiesKeeps ==
  ASSUME OutboxInv, NEW p \in Process, Dies(p)
  PROVE  OutboxInv'
  <1>1. /\ life[p] = "up" /\ life' = [life EXCEPT ![p] = "dead"]
        /\ todo' = [todo EXCEPT ![p] = <<>>] /\ snap' = [snap EXCEPT ![p] = <<>>]
        /\ stage' = [d \in Calls |-> IF At(d) = p THEN "ended" ELSE stage[d]]
        /\ steps' = [d \in Calls |-> IF At(d) = p THEN <<>> ELSE steps[d]]
        /\ UNCHANGED <<route, disk, inflight, knows, confirmed, uncertain, got, result, phone>>
    BY DEF Dies
  <1>2. /\ OutboxTypes /\ OneThread /\ FileInv
        /\ \A q \in Process : life[q] = "up" => q = p
    BY <1>1 DEF OutboxInv, OneThread
  <1>3. \A q \in Process : life'[q] # "up" /\ todo'[q] = <<>> /\ snap'[q] = <<>>
    BY <1>1, <1>2 DEF OutboxTypes, FileInv
  <1>4. /\ FileInv' /\ \A q \in Process, r \in Request : Soon(q, r)' = disk[r]
    <2>1. /\ todo' \in [Process -> Seq(Change)]
          /\ snap' \in [Process -> {<<>>} \cup {<<f>> : f \in [Request -> States]}]
      BY <1>1, <1>2, EmptySeq DEF FileInv
    <2>2. QueueInv'
      BY <1>3 DEF QueueInv
    <2> QED BY <1>1, <1>2, <1>3, <2>1, <2>2 DEF FileInv, Soon
  <1>5. \A q \in Process, r \in Request :
           /\ Soon(q, r) = "none" => disk[r] = "none"
           /\ disk[r] = "answered" => Soon(q, r) = "answered"
    BY <1>2 DEF FileInv, QueueInv, Soon
  <1>6. ASSUME NEW d \in Calls
        PROVE  /\ stage'[d] \in {"idle", "ended"}
               /\ stage'[d] = "idle" => stage[d] = "idle"
               /\ stage[d] = "ended" => stage'[d] = "ended"
               /\ steps'[d] \in {steps[d], <<>>}
               /\ life'[At(d)] = "later" => stage'[d] = "idle"
               /\ life'[At(d)] = "dead" => stage'[d] = "ended"
    <2>1. At(d) \in Process /\ life[At(d)] \in {"later", "up", "dead"}
      BY <1>2, CallIs DEF OutboxTypes
    <2>2. At(d) # p => life[At(d)] # "up" /\ life'[At(d)] = life[At(d)]
      BY <1>1, <1>2, <2>1 DEF OutboxTypes
    <2>3. life'[p] = "dead"
      BY <1>1, <1>2 DEF OutboxTypes
    <2> QED BY <1>1, <1>2, <2>1, <2>2, <2>3 DEF OneThread
  <1>7. OutboxTypes' /\ OneThread'
    <2>1. stage' \in [Calls -> {"idle", "checking", "ended"} \cup Running]
      BY <1>1, <1>2 DEF OutboxTypes
    <2>2. steps' \in [Calls -> Seq(Steps)]
      BY <1>1, <1>2, EmptySeq DEF OutboxTypes
    <2>3. life' \in [Process -> {"later", "up", "dead"}]
      BY <1>1, <1>2 DEF OutboxTypes
    <2> QED BY <1>1, <1>2, <1>3, <1>6, <2>1, <2>2, <2>3 DEF OutboxTypes, OneThread
  <1>8. ASSUME NEW r \in Request
        PROVE  RecordInv(r)' /\ DeliveredInv(r)' /\ SendingInv(r)'
    <2>1. /\ RecordInv(r) /\ DeliveredInv(r) /\ Send(r) \in Calls /\ Wait(r) \in Calls
          /\ Sender[r] \in Process
      BY RequestIs DEF OutboxInv
    <2>2. /\ stage'[Send(r)] \in {"idle", "ended"} /\ stage'[Wait(r)] \in {"idle", "ended"}
          /\ stage'[Send(r)] = "idle" => stage[Send(r)] = "idle"
      BY <1>6, <2>1
    <2>3. RecordInv(r)'
      <3>1. stage'[Send(r)] = "idle" => disk[r] = "none"
        BY <1>5, <2>1, <2>2 DEF RecordInv
      <3>2. disk[r] = "answered" => stage'[Send(r)] = "ended"
        BY <1>5, <2>1, <2>2 DEF RecordInv
      <3>3. (phone[r] # "none" \/ Wait(r) \in got) => stage'[Send(r)] = "ended"
        BY <2>1, <2>2 DEF RecordInv
      <3> QED BY <1>1, <1>4, <2>1, <2>2, <3>1, <3>2, <3>3 DEF RecordInv, Running, Started
    <2>4. DeliveredInv(r)'
      BY <1>1, <1>3, <2>1 DEF DeliveredInv
    <2>5. SendingInv(r)'
      BY <1>3, <2>1, <2>2 DEF SendingInv, Running, Started
    <2> QED BY <2>3, <2>4, <2>5
  <1>9. ASSUME NEW d \in Calls PROVE CallInv(d)'
    <2>1. CallInv(d) /\ At(d) \in Process
      BY CallIs DEF OutboxInv
    <2>2. StepsOf(d)' \subseteq StepsOf(d)
      <3>1. CASE steps'[d] = steps[d]
        BY <3>1 DEF StepsOf
      <3>2. CASE steps'[d] = <<>>
        BY <3>2, EmptySeq DEF StepsOf
      <3> QED BY <1>6, <3>1, <3>2
    <2>3. \A r \in Request \cap StepsOf(d)' : r # Of(d) /\ stage'[Send(r)] = "ended"
      <3> SUFFICES ASSUME NEW r \in Request \cap StepsOf(d)'
                   PROVE  r # Of(d) /\ stage'[Send(r)] = "ended"
        OBVIOUS
      <3>1. r # Of(d) /\ stage[Send(r)] \in {"ending", "ended"} /\ Send(r) \in Calls
        BY <2>1, <2>2, RequestIs DEF CallInv
      <3> QED BY <1>6, <3>1
    <2> QED BY <1>1, <1>3, <1>6, <2>1, <2>2, <2>3 DEF CallInv
  <1> QED BY <1>4, <1>7, <1>8, <1>9 DEF OutboxInv

\* The connector is started again: its calls have not begun.
LEMMA StartsKeeps ==
  ASSUME OutboxInv, NEW p \in Process, Starts(p)
  PROVE  OutboxInv'
  <1>1. /\ life[p] = "later" /\ life' = [life EXCEPT ![p] = "up"]
        /\ \A q \in Process : life[q] # "up"
        /\ UNCHANGED <<route, disk, todo, snap, inflight, stage, knows, steps, confirmed,
                       uncertain, got, result, phone>>
    BY DEF Starts, file, transport
  <1>2. OutboxTypes /\ OneThread /\ FileInv
    BY DEF OutboxInv
  <1>3. /\ life'[p] = "up" /\ \A q \in Process : q # p => life'[q] = life[q]
        /\ life' \in [Process -> {"later", "up", "dead"}]
        /\ \A q \in Process : life'[q] = "up" => q = p
    BY <1>1, <1>2 DEF OutboxTypes
  <1>4. FileInv' /\ \A q \in Process, r \in Request : Soon(q, r)' = Soon(q, r)
    <2>1. QueueInv'
      BY <1>1, <1>2 DEF FileInv, QueueInv
    <2> QED BY <1>1, <1>2, <1>3, <2>1 DEF FileInv, Soon
  <1>5. \A d \in Calls : At(d) = p => stage[d] = "idle"
    BY <1>1, <1>2 DEF OneThread
  <1>6. OutboxTypes' /\ OneThread'
    <2>1. OneThread'
      BY <1>1, <1>2, <1>3, <1>5, CallIs DEF OneThread
    <2> QED BY <1>1, <1>2, <1>3, <2>1 DEF OutboxTypes
  <1>7. ASSUME NEW r \in Request
        PROVE  RecordInv(r)' /\ DeliveredInv(r)' /\ SendingInv(r)'
    <2>1. /\ RecordInv(r) /\ DeliveredInv(r) /\ SendingInv(r) /\ CallInv(Send(r))
          /\ Send(r) \in Calls /\ Sender[r] \in Process /\ At(Send(r)) = Sender[r]
      BY RequestIs DEF OutboxInv
    <2>2. life'[Sender[r]] = "up" => stage[Send(r)] = "idle"
      BY <1>3, <1>5, <2>1
    <2>3. RecordInv(r)'
      BY <1>1, <1>4, <2>1 DEF RecordInv
    <2>4. DeliveredInv(r)'
      BY <1>1, <2>1, <2>2 DEF DeliveredInv, CallInv
    <2>5. SendingInv(r)'
      BY <1>1, <1>4, <2>1, <2>2 DEF SendingInv, RecordInv, OverIroh, Started
    <2> QED BY <2>3, <2>4, <2>5
  <1>8. ASSUME NEW d \in Calls PROVE CallInv(d)'
    <2>1. CallInv(d) /\ At(d) \in Process /\ StepsOf(d)' = StepsOf(d)
      BY <1>1, CallIs DEF OutboxInv, StepsOf
    <2>2. life'[At(d)] = "up" => stage[d] = "idle"
      BY <1>3, <1>5, <2>1
    <2> QED BY <1>1, <2>1, <2>2 DEF CallInv
  <1> QED BY <1>4, <1>6, <1>7, <1>8 DEF OutboxInv

-----------------------------------------------------------------------------
(* The invariant and what it says *)

\* The first process begins within the invariant.
LEMMA OutboxStarts ==
  ASSUME OneAtATime, Init
  PROVE  OutboxInv
  <1>1. /\ \A q \in Process : todo[q] = <<>> /\ snap[q] = <<>>
        /\ \A r \in Request : disk[r] = "none" /\ phone[r] = "none"
        /\ \A d \in Calls : stage[d] = "idle" /\ steps[d] = <<>> /\ result[d] = "none"
        /\ knows = {} /\ confirmed = {} /\ uncertain = {} /\ got = {}
        /\ \A q \in Process : life[q] = IF q \in AtFirst THEN "up" ELSE "later"
    BY DEF Init
  <1>2. OutboxTypes
    BY EmptySeq DEF Init, OutboxTypes, Results
  <1>3. OneThread
    BY <1>1, CallIs DEF OneThread, OneAtATime
  <1>4. FileInv /\ \A q \in Process, r \in Request : Soon(q, r) = "none"
    <2>1. QueueInv
      BY <1>1 DEF QueueInv
    <2>2. /\ disk \in [Request -> States] /\ todo \in [Process -> Seq(Change)]
          /\ snap \in [Process -> {<<>>} \cup {<<f>> : f \in [Request -> States]}]
      BY EmptySeq DEF Init, States
    <2> QED BY <1>1, <2>1, <2>2 DEF FileInv, Soon
  <1>5. \A r \in Request : RecordInv(r) /\ DeliveredInv(r) /\ SendingInv(r)
    BY <1>1, <1>4, RequestIs DEF RecordInv, DeliveredInv, SendingInv, Running, Started
  <1>6. \A d \in Calls : CallInv(d)
    <2>1. \A d \in Calls : StepsOf(d) = {}
      BY <1>1, EmptySeq DEF StepsOf
    <2> QED BY <1>1, <2>1 DEF CallInv
  <1> QED BY <1>2, <1>3, <1>4, <1>5, <1>6 DEF OutboxInv

\* Nothing happens.
LEMMA OutboxStutters ==
  ASSUME OutboxInv, UNCHANGED vars
  PROVE  OutboxInv'
  <1>1. /\ UNCHANGED <<route, disk, todo, snap, life, inflight, stage, knows, steps, confirmed,
                       uncertain, got, result, phone>>
        /\ FileInv' /\ \A q \in Process, r \in Request : Soon(q, r)' = Soon(q, r)
    BY FileStays DEF OutboxInv, vars, file, transport
  <1>2. OutboxTypes' /\ OneThread'
    BY <1>1 DEF OutboxInv, OutboxTypes, OneThread
  <1>3. ASSUME NEW r \in Request
        PROVE  RecordInv(r)' /\ DeliveredInv(r)' /\ SendingInv(r)'
    <2>1. RecordInv(r) /\ DeliveredInv(r) /\ SendingInv(r) /\ Sender[r] \in Process
      BY RequestIs DEF OutboxInv
    <2> QED BY <1>1, <2>1 DEF RecordInv, DeliveredInv, SendingInv, OverIroh
  <1>4. ASSUME NEW d \in Calls PROVE CallInv(d)'
    <2>1. CallInv(d) /\ At(d) \in Process /\ Of(d) \in Request /\ StepsOf(d)' = StepsOf(d)
      BY <1>1, CallIs DEF OutboxInv, StepsOf
    <2> QED BY <1>1, <2>1 DEF CallInv
  <1> QED BY <1>1, <1>2, <1>3, <1>4 DEF OutboxInv

\* No step of a call, of its transport or of the processes leaves it, ...
LEMMA OutboxStep ==
  ASSUME OutboxInv, [Next]_vars
  PROVE  OutboxInv'
  <1>1. ASSUME NEW p \in Process, Load(p) \/ Save(p) \/ Dies(p) \/ Starts(p) PROVE OutboxInv'
    BY <1>1, LoadKeeps, SaveKeeps, DiesKeeps, StartsKeeps
  <1>2. ASSUME NEW c \in Calls, Advances(c) PROVE OutboxInv'
    <2>1. CASE Guard(c) \/ Ends(c) \/ IsStopped(c)
      BY <2>1, AdvanceKeeps
    <2>2. CASE Await(c) \/ Settled(c)
      BY <2>2, StartKeeps
    <2>3. CASE Record(c) \/ ReadStep(c) \/ Conclude(c)
      BY <2>3, RecordKeeps, ReadStepKeeps, ConcludeKeeps
    <2> QED BY <1>2, <2>1, <2>2, <2>3 DEF Advances
  <1>3. ASSUME NEW c \in Calls,
               \/ Connects(c) \/ WalletReceives(c) \/ Confirms(c) \/ LosesTrack(c)
               \/ AnswerArrives(c) \/ Abort(c)
        PROVE  OutboxInv'
    <2>1. CASE Connects(c)
      BY <2>1, AdvanceKeeps
    <2>2. CASE WalletReceives(c) \/ Confirms(c) \/ LosesTrack(c) \/ AnswerArrives(c)
      BY <2>2, TransportKeeps
    <2>3. CASE Abort(c)
      BY <2>3, AbortKeeps
    <2> QED BY <1>3, <2>1, <2>2, <2>3
  <1>4. ASSUME NEW r \in Request, Decides(r) \/ LateAnswerArrives(r) PROVE OutboxInv'
    <2>1. CASE Decides(r)
      BY <2>1, RequestIs, TransportKeeps
    <2>2. CASE LateAnswerArrives(r)
      BY <2>2, LateAnswerKeeps
    <2> QED BY <1>4, <2>1, <2>2
  <1>5. ASSUME NEW r \in Clearer, CancelRequest(r) PROVE OutboxInv'
    BY <1>5, CancelKeeps
  <1>6. CASE Quiet \/ UNCHANGED vars
    BY <1>6, OutboxStutters DEF Quiet
  <1> QED BY <1>1, <1>2, <1>3, <1>4, <1>5, <1>6 DEF Next

\* ... so it holds throughout, as long as one process runs at a time.
LEMMA OutboxInvariance == OneAtATime => (Spec => []OutboxInv)
  <1> SUFFICES ASSUME OneAtATime PROVE Spec => []OutboxInv
    OBVIOUS
  <1>1. Init => OutboxInv
    BY OutboxStarts
  <1>2. OutboxInv /\ [Next]_vars => OutboxInv'
    BY OutboxStep
  <1> QED BY <1>1, <1>2, PTL DEF Spec

\* An answer that a call of interact or await_response returned is what
\* requests.json says from then on: conclude, late_answer, on_step and
\* cancel_request never put another state in its place, however the calls of
\* the process take turns and whenever it is killed.
THEOREM ReturnedIsRecorded == OneAtATime => (Spec => []AnswerIsRecorded)
  <1> SUFFICES ASSUME OneAtATime PROVE Spec => []AnswerIsRecorded
    OBVIOUS
  <1>1. OutboxInv => AnswerIsRecorded
    <2> SUFFICES ASSUME OutboxInv, NEW c \in Calls, result[c] = "answer", stage[c] = "ended",
                        Idle(At(c))
                 PROVE  disk[Of(c)] = "answered"
      BY DEF AnswerIsRecorded
    <2>1. /\ At(c) \in Process /\ Of(c) \in Request /\ CallInv(c)
      BY CallIs DEF OutboxInv
    <2>2. /\ life[At(c)] = "up" /\ Soon(At(c), Of(c)) = disk[Of(c)]
      BY <2>1, IdleIs
    <2> QED BY <2>1, <2>2 DEF CallInv
  <1> QED BY <1>1, OutboxInvariance, PTL

\* What a call learned of the phone is in requests.json however the call
\* ended, by its exchange, by cancel_request, or dropped with its client:
\* run, on_step, conclude and Unfinished::drop leave no other state.
THEOREM KnownIsRecorded == OneAtATime => (Spec => []DeliveryIsRecorded)
  <1> SUFFICES ASSUME OneAtATime PROVE Spec => []DeliveryIsRecorded
    OBVIOUS
  <1>1. OutboxInv => DeliveryIsRecorded
    <2> SUFFICES ASSUME OutboxInv, NEW r \in Request, <<r, "send">> \in knows, Idle(Sender[r])
                 PROVE  disk[r] \in {"delivered", "answered", "cancelled"}
      BY DEF DeliveryIsRecorded
    <2>1. Sender[r] \in Process /\ DeliveredInv(r) /\ Send(r) \in knows
      BY RequestIs DEF OutboxInv, Send
    <2>2. life[Sender[r]] = "up" /\ Soon(Sender[r], r) = disk[r]
      BY <2>1, IdleIs
    <2> QED BY <2>1, <2>2 DEF DeliveredInv
  <1> QED BY <1>1, OutboxInvariance, PTL

\* Over iroh a record that says "sending", which stops every other request, is
\* of a call of interact that is sending: nothing is awaited between the record
\* and the guard that settles it.  One process at a time, and no await_response
\* for a request whose call has not ended: it takes the place of that call in
\* App::inflight and stops it.
THEOREM SendingIsTrue == OneAtATime /\ ~EarlyAwait => (Spec => []SendingOverIroh)
  <1> SUFFICES ASSUME OneAtATime, ~EarlyAwait PROVE Spec => []SendingOverIroh
    OBVIOUS
  <1>1. OutboxInv => SendingOverIroh
    <2> SUFFICES ASSUME OutboxInv, OverIroh, NEW r \in Request, disk[r] = "sending",
                        Idle(Sender[r])
                 PROVE  stage[<<r, "send">>] \in Running
      BY DEF SendingOverIroh, SendingIsBeingSent
    <2>1. Sender[r] \in Process /\ SendingInv(r)
      BY RequestIs DEF OutboxInv
    <2>2. life[Sender[r]] = "up" /\ Soon(Sender[r], r) = disk[r]
      BY <2>1, IdleIs
    <2> QED BY <2>1, <2>2 DEF SendingInv, Send
  <1> QED BY <1>1, OutboxInvariance, PTL
=============================================================================
