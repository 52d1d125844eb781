---------------------------- MODULE IrohLinkProofs ----------------------------
(***************************************************************************)
(* The calls on one iroh session, for any calls, interactions and bounds:  *)
(* the wallet is asked once, nobody waits for an answer that is here, and  *)
(* no request is lost on the connection the wallet linked over.            *)
(* LeastNatural, of VerdictProofs, is what finds an answer in the inbox.   *)
(***************************************************************************)
EXTENDS IrohLink, VerdictProofs, SequenceTheorems

Places == {"pairing", "linked", "failing", "idle", "register", "subscribe", "wallet",
           "send", "sending", "sent", "listen", "done"}

Types ==
    /\ scenario \in Scenarios
    /\ conn \in {"none", "linking", "regular"}
    /\ made \in Nat /\ linkedOn \in Nat /\ changes \in Nat
    /\ events \in Seq(Event) /\ counted \in {None, "connected", "waiting"}
    /\ waiting \in [Ids -> Calls \cup {None}]
    /\ unclaimed \in Seq(Ids) /\ old \in 0..Len(unclaimed)
    /\ pc \in [Calls -> Places] /\ result \in [Calls -> Outcomes \cup {None}]
    /\ taken \in [Asks -> Nat]

\* A request is given to the wallet on the way from `sending` to `sent`, from
\* where only a notice goes back.
Before == {"idle", "register", "subscribe", "wallet", "send", "sending"}

AskedInv ==
    \A c \in Asks :
        /\ taken[c] \in {0, 1}
        /\ Kind(c) = "notice" => taken[c] = 0
        /\ pc[c] \in Before => taken[c] = 0

\* Whether the wallet still is on the connection it linked over.
OnIt == conn = "linking" /\ made = linkedOn

\* Nothing follows the linkClient while its connection is there, so until the
\* number of states it was read with changes, or the grace period passes, the
\* pairing does not return; and until it returns no other call begins.
LinkInv ==
    /\ linkedOn <= made
    /\ conn = "linking" => ~Over
    /\ \A c \in Asks : pc[c] # "idle" => pc[Pair] = "done" /\ result[Pair] = "paired"
    /\ pc[Pair] = "pairing" => dropped = {}
    /\ OnIt /\ pc[Pair] = "pairing" =>
          \A k \in DOMAIN events : events[k] = "client" => k = Len(events)
    /\ OnIt /\ pc[Pair] = "linked" =>
          events = <<>> /\ counted = None /\ changes = linkedAt
    /\ OnIt /\ pc[Pair] = "done" /\ result[Pair] = "paired" => grace

IInv == Types /\ AskedInv /\ WaitedForIsNotKept /\ LinkInv /\ NotOverTheLinking

-----------------------------------------------------------------------------
(* The inbox                                                               *)

\* What a sequence holds.
Held(q) == {q[k] : k \in 1..Len(q)}

\* A part of a sequence holds nothing else.
LEMMA SubSeqHeld ==
    ASSUME NEW S, NEW q \in Seq(S), NEW m \in Nat, NEW n \in Nat, 1 <= m, n <= Len(q)
    PROVE  SubSeq(q, m, n) \in Seq(S) /\ Held(SubSeq(q, m, n)) \subseteq Held(q)
  <1> DEFINE r == SubSeq(q, m, n)
  <1>1. \A i \in m..n : q[i] \in S
    OBVIOUS
  <1>2. /\ r \in Seq(S) /\ Len(r) = IF m <= n THEN n - m + 1 ELSE 0
        /\ \A i \in 1 .. n - m + 1 : r[i] = q[m + i - 1]
    BY <1>1, SubSeqProperties
  <1> HIDE DEF r
  <1>3. ASSUME NEW k \in 1..Len(r) PROVE r[k] \in Held(q)
    <2>1. m + k - 1 \in 1..Len(q) /\ r[k] = q[m + k - 1]
      BY <1>2
    <2> QED BY <2>1 DEF Held
  <1>4. Held(r) \subseteq Held(q)
    BY <1>3 DEF Held
  <1> QED BY <1>2, <1>4 DEF r

\* Two sequences in a row hold what each does.
LEMMA ConcatHeld ==
    ASSUME NEW S, NEW p \in Seq(S), NEW q \in Seq(S)
    PROVE  p \o q \in Seq(S) /\ Held(p \o q) = Held(p) \cup Held(q)
  <1> DEFINE r == p \o q
  <1>1. /\ r \in Seq(S) /\ Len(r) = Len(p) + Len(q)
        /\ \A k \in 1 .. Len(p) + Len(q) :
              r[k] = IF k <= Len(p) THEN p[k] ELSE q[k - Len(p)]
    BY ConcatProperties
  <1> HIDE DEF r
  <1>2. ASSUME NEW k \in 1..Len(r) PROVE r[k] \in Held(p) \cup Held(q)
    <2>1. CASE k <= Len(p)
      BY <1>1, <2>1 DEF Held
    <2>2. CASE ~(k <= Len(p))
      <3>1. k - Len(p) \in 1..Len(q) /\ r[k] = q[k - Len(p)]
        BY <1>1, <2>2
      <3> QED BY <3>1 DEF Held
    <2> QED BY <2>1, <2>2
  <1>3. ASSUME NEW k \in 1..Len(p) PROVE p[k] \in Held(r)
    <2>1. k \in 1..Len(r) /\ r[k] = p[k]
      BY <1>1
    <2> QED BY <2>1 DEF Held
  <1>4. ASSUME NEW k \in 1..Len(q) PROVE q[k] \in Held(r)
    <2>1. k + Len(p) \in 1..Len(r) /\ ~(k + Len(p) <= Len(p)) /\ (k + Len(p)) - Len(p) = k
      BY <1>1
    <2>2. r[k + Len(p)] = q[k]
      BY <1>1, <2>1
    <2> QED BY <2>1, <2>2 DEF Held
  <1>5. Held(r) \subseteq Held(p) \cup Held(q)
    BY <1>2 DEF Held
  <1>6. Held(p) \subseteq Held(r) /\ Held(q) \subseteq Held(r)
    BY <1>3, <1>4 DEF Held
  <1> QED BY <1>1, <1>5, <1>6 DEF r

\* Taking an answer out of the inbox adds none to it.
LEMMA RemoveFirstHeld ==
    ASSUME NEW S, NEW q \in Seq(S), NEW e
    PROVE  RemoveFirst(q, e) \in Seq(S) /\ Held(RemoveFirst(q, e)) \subseteq Held(q)
  <1>1. CASE ~ \E i \in 1..Len(q) : q[i] = e
    BY <1>1 DEF RemoveFirst
  <1>2. CASE \E i \in 1..Len(q) : q[i] = e
    <2> DEFINE I == {i \in 1..Len(q) : q[i] = e}
               n == CHOOSE x \in I : \A y \in I : x <= y
    <2>1. RemoveFirst(q, e) = SubSeq(q, 1, n - 1) \o SubSeq(q, n + 1, Len(q))
      BY <1>2 DEF RemoveFirst, RemoveAt, SelectInSeq, Min
    <2>2. n \in I
      <3>1. I \in SUBSET Nat /\ I # {}
        BY <1>2
      <3> HIDE DEF I
      <3>2. \E x \in I : \A y \in I : x <= y
        BY <3>1, LeastNatural
      <3> QED BY <3>2
    <2>3. n \in 1..Len(q)
      BY <2>2
    <2> HIDE DEF n, I
    <2> DEFINE before == SubSeq(q, 1, n - 1)
               after == SubSeq(q, n + 1, Len(q))
    <2>4. before \in Seq(S) /\ Held(before) \subseteq Held(q)
      BY <2>3, SubSeqHeld
    <2>5. after \in Seq(S) /\ Held(after) \subseteq Held(q)
      BY <2>3, SubSeqHeld
    <2>6. RemoveFirst(q, e) = before \o after
      BY <2>1
    <2> HIDE DEF before, after
    <2>7. before \o after \in Seq(S) /\ Held(before \o after) = Held(before) \cup Held(after)
      BY <2>4, <2>5, ConcatHeld
    <2> QED BY <2>4, <2>5, <2>6, <2>7
  <1> QED BY <1>1, <1>2

\* What expired goes, and what stays was there.
LEMMA FreshHeld ==
    ASSUME Types
    PROVE  Fresh(unclaimed) \in Seq(Ids) /\ Held(Fresh(unclaimed)) \subseteq Held(unclaimed)
  <1>1. unclaimed \in Seq(Ids) /\ old + 1 \in Nat /\ 1 <= old + 1 /\ Len(unclaimed) \in Nat
    BY DEF Types
  <1> QED BY <1>1, SubSeqHeld DEF Fresh

\* An answer that is kept joins the others, of which some may go.
LEMMA KeepHeld ==
    ASSUME Types, NEW i \in Ids
    PROVE  /\ Keep(unclaimed, i) \in Seq(Ids)
           /\ Held(Keep(unclaimed, i)) \subseteq Held(unclaimed) \cup {i}
  <1> DEFINE rest == RemoveFirst(Fresh(unclaimed), i)
             new == <<i>>
             all == rest \o new
  <1>1. rest \in Seq(Ids) /\ Held(rest) \subseteq Held(unclaimed)
    BY FreshHeld, RemoveFirstHeld
  <1>2. Append(rest, i) = all
    BY <1>1, AppendIsConcat
  <1>3. new \in Seq(Ids) /\ Held(new) = {i}
    BY DEF Held
  <1>4. all \in Seq(Ids) /\ Held(all) \subseteq Held(unclaimed) \cup {i}
    <2> HIDE DEF rest, new
    <2>1. all \in Seq(Ids) /\ Held(all) = Held(rest) \cup Held(new)
      BY <1>1, <1>3, ConcatHeld
    <2> QED BY <1>1, <1>3, <2>1
  <1>5. Keep(unclaimed, i) = IF Len(all) > UNCLAIMED_MAX THEN Tail(all) ELSE all
    BY <1>2 DEF Keep
  <1> HIDE DEF all
  <1>6. ASSUME Len(all) > UNCLAIMED_MAX
        PROVE  Tail(all) \in Seq(Ids) /\ Held(Tail(all)) \subseteq Held(all)
    <2>1. all # <<>>
      BY <1>4, <1>6, IrohLinkAssumption
    <2>2. Tail(all) = SubSeq(all, 2, Len(all))
      BY <1>4, <2>1, TailIsSubSeq
    <2>3. 2 \in Nat /\ 1 <= 2 /\ Len(all) \in Nat /\ Len(all) <= Len(all)
      BY <1>4
    <2> QED BY <1>4, <2>2, <2>3, SubSeqHeld
  <1> QED BY <1>4, <1>5, <1>6

-----------------------------------------------------------------------------
(* Each part of the invariant                                              *)

\* Every variable begins with a value of its kind.
LEMMA TypesInit == Init => Types
  <1> SUFFICES ASSUME Init PROVE Types
    OBVIOUS
  <1>1. events \in Seq(Event) /\ unclaimed \in Seq(Ids) /\ old \in 0..Len(unclaimed)
    BY DEF Init
  <1> QED BY <1>1, IrohLinkAssumption DEF Init, Types, Places, Asks

\* What a sequence does not hold is at none of its places.
LEMMA HeldIs ==
    ASSUME NEW S, NEW q \in Seq(S), NEW x
    PROVE  x \notin Held(q) <=> \A k \in DOMAIN q : q[k] # x
  BY DEF Held

\* What is queued comes last.
LEMMA Queued ==
    ASSUME Types, NEW e \in Event, Queue(e)
    PROVE  /\ events' \in Seq(Event) /\ ~Over
           /\ Len(events') = Len(events) + 1 /\ events'[Len(events')] = e
           /\ \A k \in DOMAIN events' : k # Len(events') =>
                 k \in DOMAIN events /\ events'[k] = events[k]
  BY DEF Types, Queue

\* What is read came first, and the others move up.
LEMMA IsRead ==
    ASSUME Types, NEW e, Reads(e)
    PROVE  /\ events' \in Seq(Event) /\ counted = None
           /\ Len(events) \in Nat \ {0} /\ events[1] = e
           /\ Len(events') = Len(events) - 1
           /\ \A k \in DOMAIN events' :
                 k + 1 \in DOMAIN events /\ events'[k] = events[k + 1]
  BY DEF Types, Reads

\* While the wallet is on the connection it linked over, nothing is read after
\* the linkClient.
LEMMA ReadOnLinking ==
    ASSUME Types, LinkInv, NEW e, Reads(e)
    PROVE  /\ OnIt => pc[Pair] # "linked"
           /\ conn = "linking" => e # "end" /\ \A k \in DOMAIN events' : events'[k] # "end"
           /\ OnIt /\ pc[Pair] = "pairing" =>
                 /\ \A k \in DOMAIN events' : events'[k] = "client" => k = Len(events')
                 /\ e = "client" => events' = <<>>
  <1>1. OnIt => pc[Pair] # "linked"
    BY IsRead DEF LinkInv
  <1>2. ASSUME conn = "linking"
        PROVE  e # "end" /\ \A k \in DOMAIN events' : events'[k] # "end"
    <2>1. \A k \in DOMAIN events : events[k] # "end"
      BY <1>2 DEF LinkInv, Over
    <2>2. 1 \in DOMAIN events
      BY IsRead DEF Types
    <2> QED BY <2>1, <2>2, IsRead
  <1>3. ASSUME OnIt, pc[Pair] = "pairing"
        PROVE  /\ \A k \in DOMAIN events' : events'[k] = "client" => k = Len(events')
               /\ e = "client" => events' = <<>>
    <2>1. \A k \in DOMAIN events : events[k] = "client" => k = Len(events)
      BY <1>3 DEF LinkInv
    <2>2. /\ Len(events) \in Nat \ {0} /\ Len(events') \in Nat /\ 1 \in DOMAIN events
          /\ DOMAIN events' = 1..Len(events')
      BY IsRead DEF Types
    <2>3. ASSUME NEW k \in DOMAIN events', events'[k] = "client" PROVE k = Len(events')
      <3>1. k + 1 = Len(events)
        BY <2>1, <2>3, IsRead
      <3> QED BY <2>2, <3>1, IsRead
    <2>4. ASSUME e = "client" PROVE events' = <<>>
      <3>1. Len(events) = 1
        BY <2>1, <2>2, <2>4, IsRead
      <3>2. Len(events') = 0
        BY <2>2, <3>1, IsRead
      <3> QED BY <3>2, IsRead
    <2> QED BY <2>3, <2>4
  <1> QED BY <1>1, <1>2, <1>3

\* A call that returns stops waiting.
LEMMA Returned ==
    ASSUME Types, NEW c \in Asks, NEW r \in Outcomes, Return(c, r)
    PROVE  /\ pc' \in [Calls -> Places] /\ result' \in [Calls -> Outcomes \cup {None}]
           /\ waiting' \in [Ids -> Calls \cup {None}]
           /\ \A i \in Ids : waiting'[i] # None => waiting[i] # None
           /\ pc'[c] = "done"
           /\ \A d \in Calls \ {c} : pc'[d] = pc[d] /\ result'[d] = result[d]
  BY DEF Types, Return, Places, Asks

\* A call that goes on: the others stay, and so does who waits.
LEMMA Went ==
    ASSUME Types, NEW c \in Asks, NEW where \in Places, Goes(c, where)
    PROVE  /\ pc' \in [Calls -> Places]
           /\ waiting' = waiting /\ result' = result
           /\ pc'[c] = where /\ \A d \in Calls \ {c} : pc'[d] = pc[d]
  BY DEF Types, Goes, Asks

\* What a step of a call other than the pairing must do.
LEMMA AskStep ==
    ASSUME IInv, NEW c \in Asks,
           pc[c] # "idle" \/ (pc[Pair] = "done" /\ result[Pair] = "paired"),
           pc' \in [Calls -> Places], result' \in [Calls -> Outcomes \cup {None}],
           waiting' \in [Ids -> Calls \cup {None}],
           unclaimed' \in Seq(Ids), old' \in 0..Len(unclaimed'),
           \A d \in Calls \ {c} : pc'[d] = pc[d] /\ result'[d] = result[d],
           pc'[c] \in Before => pc[c] \in Before \/ Kind(c) = "notice",
           \A i \in Ids : waiting'[i] # None => i \notin Held(unclaimed'),
           UNCHANGED <<wallet, reader, taken, dropped, linkedAt, grace>>
    PROVE  IInv'
  <1> USE DEF IInv, wallet, reader
  <1>1. Types'
    BY DEF Types
  <1>2. AskedInv'
    BY DEF AskedInv, Types, Asks, Kind
  <1>3. WaitedForIsNotKept'
    BY HeldIs DEF WaitedForIsNotKept
  <1>4. pc'[Pair] = pc[Pair] /\ result'[Pair] = result[Pair]
    BY IrohLinkAssumption DEF Asks
  <1>5. LinkInv' /\ NotOverTheLinking'
    <2>1. Over' <=> Over
      BY DEF Over, Ended
    <2>2. \A d \in Asks : pc'[d] # "idle" => pc'[Pair] = "done" /\ result'[Pair] = "paired"
      BY <1>4 DEF LinkInv, Asks
    <2> QED BY <1>4, <2>1, <2>2 DEF LinkInv, OnIt, NotOverTheLinking
  <1> QED BY <1>1, <1>2, <1>3, <1>5

\* A call that only moves, or that returns, and leaves the inbox's answers.
LEMMA AskMoves ==
    ASSUME IInv, NEW c \in Asks, pc[c] # "idle" \/ (pc[Pair] = "done" /\ result[Pair] = "paired"),
           \/ \E r \in Outcomes : Return(c, r)
           \/ \E where \in Places :
                 /\ Goes(c, where)
                 /\ where \in Before => pc[c] \in Before \/ Kind(c) = "notice",
           UNCHANGED <<wallet, reader, unclaimed, old, taken, dropped, linkedAt, grace>>
    PROVE  IInv'
  <1>1. \A i \in Ids : waiting[i] # None => i \notin Held(unclaimed)
    BY HeldIs DEF IInv, Types, WaitedForIsNotKept
  <1>2. unclaimed' \in Seq(Ids) /\ old' \in 0..Len(unclaimed')
    BY DEF IInv, Types
  <1>3. ASSUME NEW r \in Outcomes, Return(c, r) PROVE IInv'
    BY <1>1, <1>2, <1>3, Returned, AskStep DEF IInv, Before
  <1>4. ASSUME NEW where \in Places, Goes(c, where),
               where \in Before => pc[c] \in Before \/ Kind(c) = "notice"
        PROVE  IInv'
    <2>1. /\ waiting' \in [Ids -> Calls \cup {None}]
          /\ result' \in [Calls -> Outcomes \cup {None}]
      BY <1>4, Went DEF IInv, Types
    <2> QED BY <1>1, <1>2, <1>4, <2>1, Went, AskStep DEF IInv
  <1> QED BY <1>3, <1>4

\* The calls' steps.
LEMMA AsksKeep ==
    ASSUME IInv, NEW c \in Asks,
           \/ Begin(c) \/ Registers(c) \/ Subscribes(c) \/ WaitsForWallet(c) \/ Sends(c)
           \/ Confirmed(c) \/ Unconfirmed(c) \/ Listens(c) \/ Deadline(c)
    PROVE  IInv'
  <1>1. CASE \/ Begin(c) \/ WaitsForWallet(c) \/ Sends(c) \/ Confirmed(c) \/ Unconfirmed(c)
             \/ Listens(c) \/ Deadline(c)
    <2> SUFFICES
          /\ pc[c] # "idle" \/ (pc[Pair] = "done" /\ result[Pair] = "paired")
          /\ \/ \E r \in Outcomes : Return(c, r)
             \/ \E where \in Places :
                   /\ Goes(c, where)
                   /\ where \in Before => pc[c] \in Before \/ Kind(c) = "notice"
          /\ UNCHANGED <<wallet, reader, unclaimed, old, taken, dropped, linkedAt, grace>>
      BY AskMoves
    <2> USE DEF Outcomes, Places, Before
    <2>1. CASE Begin(c)
      BY <2>1 DEF Begin
    <2>2. CASE WaitsForWallet(c)
      BY <2>2 DEF WaitsForWallet
    <2>3. CASE Sends(c)
      BY <2>3 DEF Sends
    <2>4. CASE Confirmed(c)
      BY <2>4 DEF Confirmed
    <2>5. CASE Unconfirmed(c)
      BY <2>5 DEF Unconfirmed, AfterUncertain
    <2>6. CASE Listens(c)
      BY <2>6 DEF Listens
    <2>7. CASE Deadline(c)
      BY <2>7 DEF Deadline
    <2> QED BY <1>1, <2>1, <2>2, <2>3, <2>4, <2>5, <2>6, <2>7
  <1>2. CASE Registers(c)
    <2> DEFINE kept == Fresh(unclaimed)
    <2>1. /\ kept \in Seq(Ids) /\ Held(kept) \subseteq Held(unclaimed)
          /\ \A i \in Ids : waiting[i] # None => i \notin Held(unclaimed)
      BY FreshHeld, HeldIs DEF IInv, Types, WaitedForIsNotKept
    <2>2. /\ unclaimed \in Seq(Ids) /\ old \in 0..Len(unclaimed)
          /\ waiting \in [Ids -> Calls \cup {None}] /\ pc \in [Calls -> Places]
          /\ result \in [Calls -> Outcomes \cup {None}] /\ c \in Calls
      BY DEF IInv, Types, Asks
    <2> HIDE DEF kept
    <2> USE <1>2, <2>1, <2>2 DEF Registers
    <2>3. pc[c] = "register" /\ UNCHANGED <<wallet, reader, taken, dropped, linkedAt, grace>>
      OBVIOUS
    <2>4. CASE Ended /\ Return(c, "closed") /\ UNCHANGED <<unclaimed, old>>
      BY <2>3, <2>4, AskMoves DEF Outcomes
    <2>5. ASSUME Return(c, "answer"), unclaimed' = RemoveFirst(kept, Id(c)), old' = 0
          PROVE  IInv'
      <3>1. unclaimed' \in Seq(Ids) /\ Held(unclaimed') \subseteq Held(unclaimed)
        BY <2>5, RemoveFirstHeld
      <3>2. "answer" \in Outcomes /\ "done" \notin Before
        BY DEF Outcomes, Before
      <3>3. old' \in 0..Len(unclaimed')
        BY <2>5, <3>1
      <3>4. \A i \in Ids : waiting'[i] # None => i \notin Held(unclaimed')
        BY <2>5, <3>1, <3>2, Returned DEF IInv
      <3> QED BY <2>3, <2>5, <3>1, <3>2, <3>3, <3>4, Returned, AskStep DEF IInv
    <2>6. ASSUME Return(c, "protocol"), unclaimed' = kept, old' = 0
          PROVE  IInv'
      <3>1. "protocol" \in Outcomes /\ "done" \notin Before
        BY DEF Outcomes, Before
      <3> QED BY <2>3, <2>6, <3>1, Returned, AskStep DEF IInv
    <2>7. ASSUME \A k \in DOMAIN kept : kept[k] # Id(c),
                 waiting' = [waiting EXCEPT ![Id(c)] = c],
                 pc' = [pc EXCEPT ![c] = "subscribe"],
                 unclaimed' = kept, old' = 0, UNCHANGED result
          PROVE  IInv'
      <3>1. Id(c) \notin Held(unclaimed')
        BY <2>7, HeldIs
      <3>2. \A i \in Ids : waiting'[i] # None => i \notin Held(unclaimed')
        BY <2>7, <3>1
      <3>3. /\ pc' \in [Calls -> Places] /\ pc'[c] = "subscribe"
            /\ \A d \in Calls \ {c} : pc'[d] = pc[d] /\ result'[d] = result[d]
        BY <2>7 DEF Places
      <3>4. waiting' \in [Ids -> Calls \cup {None}] /\ result' \in [Calls -> Outcomes \cup {None}]
        BY <2>7
      <3>5. "register" \in Before /\ old' \in 0..Len(unclaimed')
        BY <2>7 DEF Before
      <3> QED BY <2>3, <2>7, <3>2, <3>3, <3>4, <3>5, AskStep
    <2> QED BY <2>4, <2>5, <2>6, <2>7 DEF kept
  <1>3. CASE Subscribes(c)
    <2>1. /\ unclaimed' \in Seq(Ids) /\ old' \in 0..Len(unclaimed')
          /\ waiting' \in [Ids -> Calls \cup {None}]
          /\ pc' \in [Calls -> Places] /\ result' \in [Calls -> Outcomes \cup {None}]
          /\ \A d \in Calls \ {c} : pc'[d] = pc[d] /\ result'[d] = result[d]
          /\ pc[c] = "subscribe" /\ "subscribe" \in Before
          /\ UNCHANGED <<wallet, reader, taken, dropped, linkedAt, grace>>
      BY <1>3 DEF Subscribes, IInv, Types, Asks, Places, Before, inbox
    <2>2. \A i \in Ids : waiting'[i] # None => i \notin Held(unclaimed')
      BY <1>3, HeldIs DEF Subscribes, IInv, Types, WaitedForIsNotKept, inbox
    <2> QED BY <2>1, <2>2, AskStep
  <1> QED BY <1>1, <1>2, <1>3

\* The wallet takes a request, over whichever connection it is on.
LEMMA WalletTakesKeeps ==
    ASSUME IInv, NEW c \in Asks, WalletTakes(c)
    PROVE  IInv'
  <1> USE DEF IInv
  <1>1. /\ pc' = [pc EXCEPT ![c] = "sent"] /\ c \in Calls /\ c # Pair
        /\ pc[c] = "sending" /\ taken[c] = 0
        /\ pc[Pair] = "done" /\ result[Pair] = "paired"
        /\ UNCHANGED <<scenario, conn, made, linkedOn, reader, inbox, result, linkedAt, grace>>
    BY IrohLinkAssumption DEF WalletTakes, LinkInv, AskedInv, Before, Asks
  <1>2. \/ taken' = taken /\ dropped' \in {dropped, dropped \cup {made}}
        \/ /\ Kind(c) # "notice" /\ taken' = [taken EXCEPT ![c] = @ + 1]
           /\ dropped' = dropped
    BY <1>1 DEF WalletTakes
  <1>3. dropped' # dropped => conn = "linking" /\ dropped' = dropped \cup {made}
    BY <1>1 DEF WalletTakes
  <1>4. taken' \in [Asks -> {0, 1}] /\ \A d \in Asks \ {c} : taken'[d] = taken[d]
    BY <1>1, <1>2 DEF Types, AskedInv
  <1>5. Types'
    <2>1. pc' \in [Calls -> Places]
      BY <1>1 DEF Types, Places
    <2>2. taken' \in [Asks -> Nat]
      BY <1>4
    <2> QED BY <1>1, <2>1, <2>2 DEF Types, reader, inbox
  <1>6. AskedInv'
    BY <1>1, <1>2, <1>4 DEF AskedInv, Types, Kind, Before
  <1>7. WaitedForIsNotKept'
    BY <1>1 DEF WaitedForIsNotKept, inbox
  <1>8. LinkInv' /\ NotOverTheLinking'
    <2>1. Over' <=> Over
      BY <1>1 DEF Over, Ended, reader
    <2>2. pc'[Pair] = "done" /\ \A d \in Asks : pc'[d] # "idle" => pc'[Pair] = "done"
      BY <1>1 DEF Types
    <2>3. LinkInv'
      BY <1>1, <2>1, <2>2 DEF LinkInv, OnIt, reader
    <2>4. NotOverTheLinking'
      BY <1>1, <1>3 DEF NotOverTheLinking, LinkInv, OnIt
    <2> QED BY <2>3, <2>4
  <1> QED BY <1>5, <1>6, <1>7, <1>8

\* A step of the wallet, the reader or the pairing, to which the calls are only
\* what they were.
LEMMA OtherStep ==
    ASSUME IInv, UNCHANGED <<scenario, taken, dropped>>, Types', WaitedForIsNotKept',
           \A c \in Asks : pc'[c] = pc[c],
           LinkInv',
           linkedOn' = linkedOn \/ dropped = {},
           linkedOn' # linkedOn \/ (grace => grace')
    PROVE  IInv'
  <1>1. AskedInv'
    BY DEF IInv, AskedInv, Kind
  <1>2. NotOverTheLinking'
    BY DEF IInv, NotOverTheLinking
  <1> QED BY <1>1, <1>2 DEF IInv

\* The wallet and the session library only queue events.
LEMMA WalletKeeps ==
    ASSUME IInv,
           \/ \E kind \in {"linking", "regular"} : Connects(kind)
           \/ Disconnects \/ Links \/ Removes \/ SessionEnds
           \/ \E i \in Ids : Answers(i)
    PROVE  IInv'
  <1> USE DEF IInv
  <1>1. \E e \in Event : Queue(e)
    BY DEF Connects, Disconnects, Links, Removes, SessionEnds, Answers, Event
  <1>2. PICK e \in Event : Queue(e)
    BY <1>1
  <1>3. UNCHANGED <<scenario, counted, changes, status, inbox, callers>>
    BY DEF Connects, Disconnects, Links, Removes, SessionEnds, Answers
  <1> USE <1>3 DEF inbox, callers
  <1>4. WaitedForIsNotKept' /\ \A c \in Asks : pc'[c] = pc[c]
    BY DEF WaitedForIsNotKept
  <1>5. ASSUME Types', NEW f \in Event, Queue(f), f # "end" PROVE ~Over'
    <2>1. ~Ended /\ \A k \in DOMAIN events : events[k] # "end"
      BY <1>5, Queued DEF Over
    <2>2. \A k \in DOMAIN events' : events'[k] # "end"
      BY <1>5, <2>1, Queued
    <2> QED BY <2>1, <2>2 DEF Over, Ended
  <1>6. ASSUME NEW kind \in {"linking", "regular"}, Connects(kind) PROVE IInv'
    <2>1. /\ made' = made + 1 /\ linkedOn' = linkedOn /\ linkedOn <= made /\ Queue("up")
          /\ "up" \in Event /\ conn' = kind
      BY <1>6 DEF Connects, LinkInv, Event
    <2>2. Types'
      BY <2>1, Queued DEF Types
    <2>3. ~OnIt' /\ ~Over' /\ linkedOn' <= made'
      BY <1>5, <2>1, <2>2 DEF OnIt, Types
    <2>4. LinkInv'
      BY <2>3 DEF LinkInv, OnIt
    <2> QED BY <1>4, <2>1, <2>2, <2>4, OtherStep
  <1>7. CASE Disconnects \/ SessionEnds
    <2>1. conn' = "none" /\ UNCHANGED <<made, linkedOn>>
      BY <1>7 DEF Disconnects, SessionEnds
    <2>2. Types'
      BY <1>2, <2>1, Queued DEF Types
    <2>3. LinkInv'
      BY <2>1 DEF LinkInv, OnIt
    <2> QED BY <1>4, <2>1, <2>2, <2>3, OtherStep
  <1>8. CASE Links
    <2>1. PICK f \in {"client", "forged"} : Queue(f)
      BY <1>8 DEF Links
    <2>2. /\ pc[Pair] = "pairing" /\ linkedOn' = made /\ UNCHANGED <<conn, made>>
          /\ \A k \in DOMAIN events : events[k] # "client"
          /\ f \in Event /\ f # "end"
      BY <1>8 DEF Links, Event
    <2>3. Types'
      BY <2>1, <2>2, Queued DEF Types
    <2>4. ~Over'
      BY <1>5, <2>1, <2>2, <2>3
    <2>5. \A k \in DOMAIN events' : events'[k] = "client" => k = Len(events')
      BY <2>1, <2>2, Queued
    <2>6. LinkInv'
      BY <2>2, <2>3, <2>4, <2>5 DEF LinkInv, OnIt, Types
    <2>7. dropped = {}
      BY <2>2 DEF LinkInv
    <2> QED BY <1>4, <2>3, <2>6, <2>7, OtherStep
  <1>9. CASE Removes \/ \E i \in Ids : Answers(i)
    <2>1. conn = "regular" /\ UNCHANGED <<conn, made, linkedOn>>
      BY <1>9 DEF Removes, Answers
    <2>2. Types'
      BY <1>2, <2>1, Queued DEF Types
    <2>3. LinkInv'
      BY <2>1 DEF LinkInv, OnIt
    <2> QED BY <1>4, <2>1, <2>2, <2>3, OtherStep
  <1> QED BY <1>6, <1>7, <1>8, <1>9

\* The reader takes an event, or publishes the state it counted.
LEMMA ReaderKeeps ==
    ASSUME IInv,
           \/ CountsState \/ Publishes \/ ReadsRemoved \/ ReadsClient \/ ReadsEnd \/ Ages
           \/ \E i \in Ids : ReadsAnswer(i)
    PROVE  IInv'
  <1> USE DEF IInv
  <1>1. ASSUME NEW e, Reads(e), UNCHANGED <<conn, made, linkedOn, dropped, status, grace>>,
               UNCHANGED pc, UNCHANGED result
        PROVE  LinkInv'
    <2>1. conn = "linking" => ~Over'
      BY <1>1, ReadOnLinking DEF LinkInv, Over, Ended
    <2>2. /\ OnIt => pc[Pair] # "linked"
          /\ OnIt /\ pc[Pair] = "pairing" =>
                \A k \in DOMAIN events' : events'[k] = "client" => k = Len(events')
      BY <1>1, ReadOnLinking
    <2> QED BY <1>1, <2>1, <2>2 DEF LinkInv, OnIt
  <1>2. CASE CountsState
    <2>1. PICK e \in {"up", "down"} :
              Reads(e) /\ counted' = IF e = "up" THEN "connected" ELSE "waiting"
      BY <1>2 DEF CountsState
    <2>2. changes' = changes + 1 /\ UNCHANGED <<wallet, status, told, inbox, callers>>
      BY <1>2 DEF CountsState
    <2>3. Types'
      BY <2>1, <2>2, IsRead DEF Types, wallet, inbox, callers
    <2>4. LinkInv'
      BY <1>1, <2>1, <2>2 DEF wallet, callers
    <2> QED
      BY <2>2, <2>3, <2>4, OtherStep DEF wallet, inbox, callers, WaitedForIsNotKept
  <1>3. CASE Publishes
    <2>1. /\ counted # None /\ status' = counted /\ counted' = None
          /\ UNCHANGED <<wallet, events, changes, inbox, callers>>
      BY <1>3 DEF Publishes
    <2>2. Types'
      BY <2>1 DEF Types, wallet, inbox, callers
    <2>3. ~Over => ~Over'
      BY <2>1 DEF Over, Ended, Types
    <2>4. LinkInv'
      BY <2>1, <2>3 DEF LinkInv, OnIt, wallet, callers
    <2> QED
      BY <2>1, <2>2, <2>4, OtherStep DEF wallet, inbox, callers, WaitedForIsNotKept
  <1>4. CASE ReadsRemoved
    <2>1. /\ Reads("removed")
          /\ UNCHANGED <<wallet, counted, changes, status, inbox, pc, result, taken, dropped,
                         linkedAt, grace>>
      BY <1>4 DEF ReadsRemoved
    <2>2. Types'
      BY <2>1, IsRead DEF Types, wallet, inbox
    <2>3. LinkInv'
      BY <1>1, <2>1 DEF wallet
    <2> QED BY <2>1, <2>2, <2>3, OtherStep DEF wallet, inbox, WaitedForIsNotKept
  <1>5. CASE ReadsClient
    <2>1. PICK e \in {"client", "forged"} :
              /\ Reads(e)
              /\ IF pc[Pair] # "pairing" THEN UNCHANGED <<pc, linkedAt, result>>
                 ELSE IF e = "client"
                 THEN /\ pc' = [pc EXCEPT ![Pair] = "linked"]
                      /\ linkedAt' = changes
                      /\ UNCHANGED result
                 ELSE /\ pc' = [pc EXCEPT ![Pair] = "failing"]
                      /\ result' = [result EXCEPT ![Pair] = "forged"]
                      /\ UNCHANGED linkedAt
      BY <1>5 DEF ReadsClient
    <2>2. UNCHANGED <<wallet, counted, changes, status, inbox, taken, dropped, grace>>
      BY <1>5 DEF ReadsClient
    <2>3. pc' \in [Calls -> Places] /\ result' \in [Calls -> Outcomes \cup {None}]
      BY <2>1 DEF Types, Places, Outcomes
    <2>4. Types'
      BY <2>1, <2>2, <2>3, IsRead DEF Types, wallet, inbox
    <2>5. \A c \in Asks : pc'[c] = pc[c]
      BY <2>1 DEF Types, Asks
    <2>6. LinkInv'
      <3>1. CASE pc[Pair] # "pairing"
        BY <1>1, <2>1, <2>2, <3>1 DEF wallet
      <3>2. CASE pc[Pair] = "pairing"
        <4>1. conn = "linking" => ~Over'
          BY <2>1, <2>2, ReadOnLinking DEF LinkInv, Over, Ended, wallet
        <4>2. \A c \in Asks : pc'[c] = "idle"
          BY <2>5, <3>2 DEF LinkInv
        <4>3. pc'[Pair] \in {"linked", "failing"}
          BY <2>1, <3>2, IrohLinkAssumption DEF Types
        <4>4. OnIt /\ pc'[Pair] = "linked" =>
                  events' = <<>> /\ counted' = None /\ changes' = linkedAt'
          <5>1. pc'[Pair] = "linked" => e = "client" /\ linkedAt' = changes
            BY <2>1, <3>2, IrohLinkAssumption DEF Types
          <5> QED BY <2>1, <2>2, <3>2, <5>1, ReadOnLinking, IsRead
        <4> QED BY <2>2, <4>1, <4>2, <4>3, <4>4 DEF LinkInv, OnIt, wallet
      <3> QED BY <3>1, <3>2
    <2> QED BY <2>2, <2>4, <2>5, <2>6, OtherStep DEF wallet, inbox, WaitedForIsNotKept
  <1>6. CASE ReadsEnd
    <2>1. /\ Reads("end") /\ waiting' = [i \in Ids |-> None] /\ unclaimed' = <<>> /\ old' = 0
          /\ UNCHANGED <<wallet, counted, changes, callers>>
      BY <1>6 DEF ReadsEnd
    <2>2. unclaimed' \in Seq(Ids) /\ Len(unclaimed') = 0
      BY <2>1
    <2>3. Types'
      BY <2>1, <2>2, IsRead DEF Types, wallet, callers
    <2>4. conn # "linking"
      BY <2>1, ReadOnLinking
    <2>5. LinkInv'
      BY <2>1, <2>4 DEF LinkInv, OnIt, wallet, callers
    <2>6. WaitedForIsNotKept'
      BY <2>1 DEF WaitedForIsNotKept
    <2> QED BY <2>1, <2>3, <2>5, <2>6, OtherStep DEF wallet, callers
  <1>7. CASE Ages
    <2>1. /\ old' \in (old + 1)..Len(unclaimed)
          /\ UNCHANGED <<wallet, reader, waiting, unclaimed, callers>>
      BY <1>7 DEF Ages
    <2>2. old' \in 0..Len(unclaimed)
      BY <2>1 DEF Types
    <2>3. Types'
      BY <2>1, <2>2 DEF Types, wallet, reader, callers
    <2>4. LinkInv'
      BY <2>1 DEF LinkInv, OnIt, Over, Ended, wallet, reader, callers
    <2> QED BY <2>1, <2>3, <2>4, OtherStep DEF wallet, callers, WaitedForIsNotKept
  <1>8. ASSUME NEW i \in Ids, ReadsAnswer(i) PROVE IInv'
    <2>1. /\ Reads(i)
          /\ UNCHANGED <<wallet, counted, changes, status, pc, result, taken, dropped, linkedAt,
                         grace>>
      BY <1>8 DEF ReadsAnswer
    <2>2. LinkInv'
      BY <1>1, <2>1 DEF wallet
    <2>3. CASE waiting[i] # None
      <3>1. waiting' = [waiting EXCEPT ![i] = None] /\ UNCHANGED <<unclaimed, old>>
        BY <1>8, <2>3 DEF ReadsAnswer
      <3>2. Types'
        BY <2>1, <3>1, IsRead DEF Types, wallet
      <3>3. WaitedForIsNotKept'
        BY <3>1 DEF WaitedForIsNotKept, Types
      <3> QED BY <2>1, <2>2, <3>2, <3>3, OtherStep DEF wallet
    <2>4. CASE waiting[i] = None
      <3>1. unclaimed' = Keep(unclaimed, i) /\ old' = 0 /\ waiting' = waiting
        BY <1>8, <2>4 DEF ReadsAnswer
      <3>2. /\ unclaimed' \in Seq(Ids) /\ Held(unclaimed') \subseteq Held(unclaimed) \cup {i}
            /\ old' \in 0..Len(unclaimed')
        BY <3>1, KeepHeld
      <3>3. Types'
        BY <2>1, <3>1, <3>2, IsRead DEF Types, wallet
      <3>4. \A j \in Ids : waiting[j] # None => j \notin Held(unclaimed)
        BY HeldIs DEF Types, WaitedForIsNotKept
      <3>5. \A j \in Ids : waiting'[j] # None => j \notin Held(unclaimed')
        BY <2>4, <3>1, <3>2, <3>4
      <3>6. WaitedForIsNotKept'
        BY <3>2, <3>5, HeldIs DEF WaitedForIsNotKept
      <3> QED BY <2>1, <2>2, <3>3, <3>6, OtherStep DEF wallet
    <2> QED BY <2>3, <2>4
  <1> QED BY <1>2, <1>3, <1>4, <1>5, <1>6, <1>7, <1>8

\* The pairing returns, or fails and closes its session.
LEMMA PairKeeps ==
    ASSUME IInv, LinkingCloses \/ GracePasses \/ PairingFails \/ PairingCloses
    PROVE  IInv'
  <1> USE IrohLinkAssumption DEF IInv
  <1>1. /\ UNCHANGED <<scenario, made, linkedOn, counted, changes, status, told, inbox, taken,
                       dropped, linkedAt>>
        /\ \A c \in Asks : pc'[c] = pc[c] /\ pc[c] = "idle"
        /\ pc' \in [Calls -> Places] /\ result' \in [Calls -> Outcomes \cup {None}]
    BY DEF LinkingCloses, GracePasses, PairingFails, PairingCloses, wallet, reader, Types,
           LinkInv, Asks, Places, Outcomes
  <1>2. ASSUME Types', LinkInv', grace => grace' PROVE IInv'
    BY <1>1, <1>2, OtherStep DEF inbox, WaitedForIsNotKept
  <1>3. CASE LinkingCloses \/ GracePasses \/ PairingFails
    <2>1. UNCHANGED <<conn, events>>
      BY <1>3 DEF LinkingCloses, GracePasses, PairingFails, wallet, reader
    <2>2. Types'
      BY <1>1, <2>1 DEF Types, inbox
    <2>3. pc'[Pair] \in {"done", "failing"} /\ (grace => grace')
      BY <1>3 DEF LinkingCloses, GracePasses, PairingFails, Types
    <2>4. OnIt /\ pc'[Pair] = "done" => grace'
      <3>1. CASE LinkingCloses
        <4>1. ~OnIt
          BY <3>1 DEF LinkingCloses, LinkingIsOver, LinkInv, OnIt, Over
        <4> QED BY <4>1
      <3>2. CASE GracePasses
        BY <3>2 DEF GracePasses
      <3>3. CASE PairingFails
        BY <3>3 DEF PairingFails, Types
      <3> QED BY <1>3, <3>1, <3>2, <3>3
    <2>5. Over' <=> Over
      BY <1>1, <2>1 DEF Over, Ended
    <2>6. LinkInv'
      BY <1>1, <2>1, <2>3, <2>4, <2>5 DEF LinkInv, OnIt
    <2> QED BY <1>2, <2>2, <2>3, <2>6
  <1>4. CASE PairingCloses
    <2>1. conn' = "none" /\ (grace => grace')
      BY <1>4 DEF PairingCloses, Types
    <2>2. events' \in Seq(Event)
      <3>1. "end" \in Event
        BY DEF Event
      <3>2. events' = events \/ events' = Append(events, "end")
        BY <1>4 DEF PairingCloses
      <3>3. events \in Seq(Event)
        BY DEF Types
      <3>4. Append(events, "end") \in Seq(Event)
        BY <3>1, <3>3
      <3> QED BY <3>2, <3>3, <3>4
    <2>3. Types'
      BY <1>1, <2>1, <2>2 DEF Types, inbox
    <2>4. pc'[Pair] = "done"
      BY <1>4 DEF PairingCloses, Types
    <2>5. LinkInv'
      BY <1>1, <2>1, <2>4 DEF LinkInv, OnIt
    <2> QED BY <1>2, <2>1, <2>3, <2>5
  <1> QED BY <1>3, <1>4

-----------------------------------------------------------------------------
(* What follows for the whole behaviour                                    *)

\* A session begins within the invariant, ...
LEMMA InitKeeps == Init => IInv
  <1> SUFFICES ASSUME Init PROVE IInv
    OBVIOUS
  <1>1. AskedInv /\ WaitedForIsNotKept /\ NotOverTheLinking
    BY DEF Init, AskedInv, WaitedForIsNotKept, NotOverTheLinking
  <1>2. LinkInv
    BY DEF Init, LinkInv, OnIt, Asks
  <1> QED BY <1>1, <1>2, TypesInit DEF IInv

\* ... no step leaves it, ...
LEMMA NextKeeps == IInv /\ [Next]_vars => IInv'
  <1> SUFFICES ASSUME IInv, [Next]_vars PROVE IInv'
    OBVIOUS
  <1>1. CASE UNCHANGED vars
    BY <1>1 DEF vars, wallet, reader, inbox, callers, IInv, Types, AskedInv, Kind,
                WaitedForIsNotKept, LinkInv, Over, Ended, OnIt, NotOverTheLinking
  <1>2. CASE Next
    BY <1>2, WalletKeeps, ReaderKeeps, PairKeeps, AsksKeep, WalletTakesKeeps DEF Next
  <1> QED BY <1>1, <1>2

\* ... so it holds throughout.
LEMMA Invariance == Spec => []IInv
  BY InitKeeps, NextKeeps, PTL DEF Spec

\* mod.rs, AfterSend: whatever is lost or refused on the way, no call gives the
\* wallet its request twice.
THEOREM IsAskedOnce == Spec => []AskedOnce
  <1>1. IInv => AskedOnce
    BY DEF IInv, AskedInv, AskedOnce
  <1> QED BY <1>1, Invariance, PTL

\* inbox.rs, register and deliver: a call never waits for an answer that is
\* kept, in whatever order answers and calls come, go and expire.
THEOREM NobodyWaitsInVain == Spec => []WaitedForIsNotKept
  BY Invariance, PTL DEF IInv

\* mod.rs, await_linking_closed: within its grace period, no request is put on
\* the connection that the wallet linked over, which would drop it.
THEOREM LinkingIsLeft == Spec => []NotOverTheLinking
  BY Invariance, PTL DEF IInv
=============================================================================
