------------------------------ MODULE RelayProofs ------------------------------
(***************************************************************************)
(* What goes through a relay: the datagrams of the TURN client, and the    *)
(* candidates of the introduction, arrive in order and without a gap, for  *)
(* any number of peers, of wallets and of each.                            *)
(***************************************************************************)
EXTENDS MCParts, FiniteSetTheorems, SequenceTheorems, TLAPS

-----------------------------------------------------------------------------
(* Turn: the datagrams that reach a permitted peer                         *)

\* A behaviour of the parts is one of the TURN client and its relay.
LEMMA TurnIsAPart == Spec => Tu!TurnInit /\ [][Tu!TurnNext]_turnVars
  <1>1. Init => Tu!TurnInit
    BY DEF Init
  <1>2. [Next]_vars => [Tu!TurnNext]_turnVars
    BY DEF Next, vars
  <1> QED BY <1>1, <1>2, PTL DEF Spec

LEMMA QueueIsBounded == MaxQueued \in Nat /\ MaxQueued > 0
  <1>1. MaxQueued \in Nat \ {0}
    BY PartsAssumption
  <1> QED BY <1>1

\* A frame that carries a datagram to p, given what each channel is bound to, and
\* where the stream q has such frames.
Carries(m, b, p) ==
    \/ m.is = "send" /\ m.peer = p
    \/ m.is = "data" /\ b[m.number] = p
Way(q, b, p) == {k \in 1..Len(q) : Carries(q[k], b, p)}

\* What left, and what is at the places W of q, are the latest of n datagrams.
Latest(out_, q, W, n) ==
    /\ \A j, k \in 1..Len(out_) : j < k => out_[j] < out_[k]
    /\ \A k \in W : /\ \A j \in 1..Len(out_) : out_[j] < q[k].data
                    /\ \A j \in W : j < k => q[j].data < q[k].data
    /\ \E first \in 1..n + 1 :
          /\ {out_[k] : k \in 1..Len(out_)} \cup {q[k].data : k \in W} = first..n
          /\ first = 1 \/ n - first + 1 >= MaxQueued

\* One more frame on the way, ...
LEMMA AppendedFrame ==
    ASSUME NEW S, NEW q \in Seq(S), NEW m \in S
    PROVE  /\ 1..Len(Append(q, m)) = (1..Len(q)) \cup {Len(q) + 1}
           /\ \A k \in 1..Len(q) : Append(q, m)[k] = q[k]
           /\ Append(q, m)[Len(q) + 1] = m
  <1>1. Len(Append(q, m)) = Len(q) + 1 /\ Len(q) \in Nat
    BY AppendProperties, LenProperties
  <1> QED BY <1>1, AppendProperties

LEMMA WayMore ==
    ASSUME NEW S, NEW q \in Seq(S), NEW m \in S, NEW b, NEW p, Carries(m, b, p)
    PROVE  /\ Way(Append(q, m), b, p) = Way(q, b, p) \cup {Len(q) + 1}
           /\ Append(q, m)[Len(q) + 1] = m
  BY AppendedFrame DEF Way

LEMMA WayElse ==
    ASSUME NEW S, NEW q \in Seq(S), NEW m \in S, NEW b, NEW p, ~Carries(m, b, p)
    PROVE  Way(Append(q, m), b, p) = Way(q, b, p)
  BY AppendedFrame DEF Way

LEMMA WayKept ==
    ASSUME NEW S, NEW q \in Seq(S), NEW m \in S, NEW b, NEW p
    PROVE  \A k \in Way(q, b, p) : Append(q, m)[k] = q[k]
  BY AppendedFrame DEF Way

\* The places of q after its first was taken away.
Shifted(W, q) == {k \in 1..Len(q) - 1 : k + 1 \in W}

\* ... or one less.
LEMMA WayLess ==
    ASSUME NEW S, NEW q \in Seq(S), q # <<>>, NEW b, NEW p
    PROVE  /\ Way(Tail(q), b, p) = Shifted(Way(q, b, p), q)
           /\ 1 \in Way(q, b, p) <=> Carries(Head(q), b, p)
  <1>1. /\ Len(Tail(q)) = Len(q) - 1 /\ Len(q) \in Nat /\ Len(q) > 0
        /\ \A k \in 1..Len(Tail(q)) : Tail(q)[k] = q[k + 1]
    BY HeadTailProperties, EmptySeq, LenProperties
  <1>2. Head(q) = q[1]
    OBVIOUS
  <1> QED BY <1>1, <1>2 DEF Way, Shifted

\* A frame that is added, or taken, elsewhere does not matter.
LEMMA LatestStays ==
    ASSUME NEW l, NEW q, NEW r, NEW W, NEW n, Latest(l, q, W, n), \A k \in W : r[k] = q[k]
    PROVE  Latest(l, r, W, n)
  <1>1. {r[k].data : k \in W} = {q[k].data : k \in W}
    OBVIOUS
  <1> QED BY <1>1 DEF Latest

LEMMA LatestMore ==
    ASSUME NEW l, NEW q, NEW W \in SUBSET Nat, NEW n \in Nat, Latest(l, q, W, n),
           NEW e \in Nat, \A k \in W : k < e, NEW r, \A k \in W : r[k] = q[k], r[e].data = n + 1
    PROVE  Latest(l, r, W \cup {e}, n + 1)
  <1>1. PICK first \in 1..n + 1 :
          /\ {l[k] : k \in 1..Len(l)} \cup {q[k].data : k \in W} = first..n
          /\ first = 1 \/ n - first + 1 >= MaxQueued
    BY DEF Latest
  <1>2. {r[k].data : k \in W \cup {e}} = {q[k].data : k \in W} \cup {n + 1}
    OBVIOUS
  <1>3. (first..n) \cup {n + 1} = first..n + 1
    OBVIOUS
  <1>4. {l[k] : k \in 1..Len(l)} \cup {r[k].data : k \in W \cup {e}} = first..n + 1
    BY <1>1, <1>2, <1>3
  <1>5. first = 1 \/ (n + 1) - first + 1 >= MaxQueued
    <2>1. first \in Nat
      OBVIOUS
    <2> QED BY <1>1, <2>1, QueueIsBounded
  <1>6. first \in 1..(n + 1) + 1
    OBVIOUS
  <1>7. \A k \in W : q[k].data \in first..n
    BY <1>1
  <1>8. \A k \in 1..Len(l) : l[k] \in first..n
    BY <1>1
  <1>9. ASSUME NEW k \in W \cup {e}
        PROVE  /\ \A j \in 1..Len(l) : l[j] < r[k].data
               /\ \A j \in W \cup {e} : j < k => r[j].data < r[k].data
    <2>1. CASE k = e
      <3>1. r[k].data = n + 1
        BY <2>1
      <3>2. \A j \in 1..Len(l) : l[j] < n + 1
        BY <1>8
      <3>3. \A j \in W \cup {e} : j < k => j \in W /\ r[j].data = q[j].data
        BY <2>1
      <3>4. \A j \in W : q[j].data < n + 1
        BY <1>7
      <3> QED BY <3>1, <3>2, <3>3, <3>4
    <2>2. CASE k \in W
      BY <2>2 DEF Latest
    <2> QED BY <2>1, <2>2
  <1> QED BY <1>4, <1>5, <1>6, <1>9 DEF Latest

\* The first frame is taken: of another peer, ...
LEMMA LatestShifts ==
    ASSUME NEW S, NEW q \in Seq(S), q # <<>>, NEW W \in SUBSET (1..Len(q)), 1 \notin W,
           NEW l, NEW n, Latest(l, q, W, n)
    PROVE  Latest(l, Tail(q), Shifted(W, q), n)
  <1>1. /\ Len(q) \in Nat /\ \A k \in 1..Len(q) - 1 : Tail(q)[k] = q[k + 1]
    BY HeadTailProperties, LenProperties
  <1>2. \A k \in Shifted(W, q) : k \in Nat /\ k + 1 \in W /\ Tail(q)[k] = q[k + 1]
    BY <1>1 DEF Shifted
  <1>3. \A k \in W : k - 1 \in Shifted(W, q) /\ (k - 1) + 1 = k
    BY <1>1 DEF Shifted
  <1>4. {Tail(q)[k].data : k \in Shifted(W, q)} = {q[k].data : k \in W}
    BY <1>2, <1>3
  <1>5. \A j, k \in Shifted(W, q) : j < k => j + 1 < k + 1
    BY <1>2
  <1> QED BY <1>2, <1>4, <1>5 DEF Latest

\* ... or of this one: it is the next to leave.
LEMMA LatestLeaves ==
    ASSUME NEW S, NEW q \in Seq(S), q # <<>>, NEW W \in SUBSET (1..Len(q)), 1 \in W,
           NEW l \in Seq(Nat), NEW n \in Nat, Latest(l, q, W, n), Head(q).data \in Nat
    PROVE  Latest(Append(l, Head(q).data), Tail(q), Shifted(W, q), n)
  <1> DEFINE d == Head(q).data
             m == Append(l, d)
  <1>1. /\ Len(q) \in Nat /\ \A k \in 1..Len(q) - 1 : Tail(q)[k] = q[k + 1]
    BY HeadTailProperties, LenProperties
  <1>2. \A k \in Shifted(W, q) : k \in Nat /\ k > 0 /\ k + 1 \in W /\ Tail(q)[k] = q[k + 1]
    BY <1>1 DEF Shifted
  <1>3. \A k \in W : k # 1 => k - 1 \in Shifted(W, q) /\ (k - 1) + 1 = k
    BY <1>1 DEF Shifted
  <1>4. /\ Len(m) = Len(l) + 1 /\ Len(l) \in Nat
        /\ \A k \in 1..Len(l) : m[k] = l[k]
        /\ m[Len(l) + 1] = d
    BY AppendProperties, LenProperties
  <1>5. q[1].data = d
    OBVIOUS
  <1> HIDE DEF d, m
  <1>6. 1..Len(m) = (1..Len(l)) \cup {Len(l) + 1}
    BY <1>4
  <1>7. {m[k] : k \in 1..Len(m)} = {l[k] : k \in 1..Len(l)} \cup {d}
    BY <1>4, <1>6
  <1>8. {q[k].data : k \in W} = {d} \cup {Tail(q)[k].data : k \in Shifted(W, q)}
    <2>1. {q[k].data : k \in W} \subseteq {d} \cup {Tail(q)[k].data : k \in Shifted(W, q)}
      <3> SUFFICES ASSUME NEW k \in W, k # 1
                   PROVE  q[k].data \in {Tail(q)[i].data : i \in Shifted(W, q)}
        BY <1>5
      <3>1. k - 1 \in Shifted(W, q) /\ Tail(q)[k - 1] = q[k]
        BY <1>2, <1>3
      <3> QED BY <3>1
    <2>2. {d} \cup {Tail(q)[k].data : k \in Shifted(W, q)} \subseteq {q[k].data : k \in W}
      BY <1>2, <1>5
    <2> QED BY <2>1, <2>2
  <1>9. \A j, k \in 1..Len(m) : j < k => m[j] < m[k]
    <2> SUFFICES ASSUME NEW j \in 1..Len(m), NEW k \in 1..Len(m), j < k PROVE m[j] < m[k]
      OBVIOUS
    <2>1. CASE k = Len(l) + 1
      BY <1>4, <1>5, <2>1 DEF Latest
    <2>2. CASE k \in 1..Len(l)
      BY <1>4, <2>2 DEF Latest
    <2> QED BY <1>6, <2>1, <2>2
  <1>10. ASSUME NEW k \in Shifted(W, q)
         PROVE  /\ \A j \in 1..Len(m) : m[j] < Tail(q)[k].data
                /\ \A j \in Shifted(W, q) : j < k => Tail(q)[j].data < Tail(q)[k].data
    <2>1. k + 1 \in W /\ Tail(q)[k] = q[k + 1] /\ 1 < k + 1
      BY <1>2
    <2>2. \A j \in 1..Len(m) : m[j] < Tail(q)[k].data
      BY <1>4, <1>5, <1>6, <2>1 DEF Latest
    <2>3. \A j \in Shifted(W, q) : j < k => Tail(q)[j].data < Tail(q)[k].data
      <3> SUFFICES ASSUME NEW j \in Shifted(W, q), j < k PROVE Tail(q)[j].data < Tail(q)[k].data
        OBVIOUS
      <3>1. j + 1 \in W /\ Tail(q)[j] = q[j + 1] /\ j + 1 < k + 1
        BY <1>2
      <3> QED BY <2>1, <3>1 DEF Latest
    <2> QED BY <2>2, <2>3
  <1>11. \E first \in 1..n + 1 :
            /\ {m[k] : k \in 1..Len(m)} \cup {Tail(q)[k].data : k \in Shifted(W, q)} = first..n
            /\ first = 1 \/ n - first + 1 >= MaxQueued
    <2>1. PICK first \in 1..n + 1 :
            /\ {l[k] : k \in 1..Len(l)} \cup {q[k].data : k \in W} = first..n
            /\ first = 1 \/ n - first + 1 >= MaxQueued
      BY DEF Latest
    <2>2. {m[k] : k \in 1..Len(m)} \cup {Tail(q)[k].data : k \in Shifted(W, q)} = first..n
      BY <1>7, <1>8, <2>1
    <2> QED BY <2>1, <2>2
  <1>12. Latest(m, Tail(q), Shifted(W, q), n)
    BY <1>9, <1>10, <1>11 DEF Latest
  <1> QED BY <1>12 DEF m, d

\* The four of them, of the places where frames to p are.
LEMMA LatestElse ==
    ASSUME NEW S, NEW q \in Seq(S), NEW m \in S, NEW b, NEW p, ~Carries(m, b, p),
           NEW l, NEW n, Latest(l, q, Way(q, b, p), n)
    PROVE  Latest(l, Append(q, m), Way(Append(q, m), b, p), n)
  <1>1. Way(Append(q, m), b, p) = Way(q, b, p)
    BY WayElse
  <1>2. \A k \in Way(q, b, p) : Append(q, m)[k] = q[k]
    BY WayKept
  <1>3. Latest(l, Append(q, m), Way(q, b, p), n)
    BY <1>2, LatestStays
  <1> QED BY <1>1, <1>3

LEMMA LatestAdds ==
    ASSUME NEW S, NEW q \in Seq(S), NEW m \in S, NEW b, NEW p, Carries(m, b, p),
           NEW l, NEW n \in Nat, m.data = n + 1, Latest(l, q, Way(q, b, p), n)
    PROVE  Latest(l, Append(q, m), Way(Append(q, m), b, p), n + 1)
  <1> DEFINE W == Way(q, b, p)
             e == Len(q) + 1
             r == Append(q, m)
  <1>1. Way(r, b, p) = W \cup {e} /\ r[e] = m
    BY WayMore
  <1>2. \A k \in W : r[k] = q[k]
    BY WayKept
  <1>3. W \in SUBSET Nat /\ e \in Nat /\ \A k \in W : k < e
    BY LenProperties DEF Way
  <1>4. Latest(l, q, W, n)
    OBVIOUS
  <1> HIDE DEF W, e, r
  <1>5. Latest(l, r, W \cup {e}, n + 1)
    BY <1>1, <1>2, <1>3, <1>4, LatestMore
  <1> QED BY <1>1, <1>5 DEF r

LEMMA LatestPasses ==
    ASSUME NEW S, NEW q \in Seq(S), q # <<>>, NEW b, NEW p, ~Carries(Head(q), b, p),
           NEW l, NEW n, Latest(l, q, Way(q, b, p), n)
    PROVE  Latest(l, Tail(q), Way(Tail(q), b, p), n)
  <1>1. 1 \notin Way(q, b, p) /\ Way(Tail(q), b, p) = Shifted(Way(q, b, p), q)
    BY WayLess
  <1>2. Way(q, b, p) \in SUBSET (1..Len(q))
    BY DEF Way
  <1>3. Latest(l, Tail(q), Shifted(Way(q, b, p), q), n)
    BY <1>1, <1>2, LatestShifts
  <1> QED BY <1>1, <1>3

LEMMA LatestGoes ==
    ASSUME NEW S, NEW q \in Seq(S), q # <<>>, NEW b, NEW p, Carries(Head(q), b, p),
           NEW l \in Seq(Nat), NEW n \in Nat, Latest(l, q, Way(q, b, p), n), Head(q).data \in Nat
    PROVE  Latest(Append(l, Head(q).data), Tail(q), Way(Tail(q), b, p), n)
  <1>1. 1 \in Way(q, b, p) /\ Way(Tail(q), b, p) = Shifted(Way(q, b, p), q)
    BY WayLess
  <1>2. Way(q, b, p) \in SUBSET (1..Len(q))
    BY DEF Way
  <1>3. Latest(Append(l, Head(q).data), Tail(q), Shifted(Way(q, b, p), q), n)
    BY <1>1, <1>2, LatestLeaves
  <1> QED BY <1>1, <1>3

Least(a, b) == IF a < b THEN a ELSE b

\* What waited goes all at once: as much as a queue holds.
LEMMA LatestAtOnce ==
    ASSUME NEW q, NEW at \in Nat, NEW n \in Nat, NEW len \in Nat, len = Least(n, MaxQueued),
           \A k \in 1..len : q[at + k].data = n - len + k
    PROVE  Latest(<<>>, q, at + 1..at + len, n)
  <1>1. MaxQueued \in Nat /\ len <= n
    BY QueueIsBounded DEF Least
  <1>2. \A k \in at + 1..at + len : q[k].data = n - len + (k - at)
    <2> SUFFICES ASSUME NEW k \in at + 1..at + len PROVE q[k].data = n - len + (k - at)
      OBVIOUS
    <2>1. k - at \in 1..len /\ at + (k - at) = k
      OBVIOUS
    <2> QED BY <2>1
  <1>3. {q[k].data : k \in at + 1..at + len} = n - len + 1..n
    <2>1. ASSUME NEW x \in n - len + 1..n PROVE x \in {q[k].data : k \in at + 1..at + len}
      <3> DEFINE k == at + (x - (n - len))
      <3>1. k \in at + 1..at + len /\ n - len + (k - at) = x
        OBVIOUS
      <3> HIDE DEF k
      <3> QED BY <1>2, <3>1
    <2>2. \A k \in at + 1..at + len : n - len + (k - at) \in n - len + 1..n
      BY <1>1
    <2>3. {q[k].data : k \in at + 1..at + len} \subseteq n - len + 1..n
      BY <1>2, <2>2
    <2> QED BY <2>1, <2>3
  <1>4. \A j, k \in at + 1..at + len : j < k => q[j].data < q[k].data
    <2> SUFFICES ASSUME NEW j \in at + 1..at + len, NEW k \in at + 1..at + len, j < k
                 PROVE  q[j].data < q[k].data
      OBVIOUS
    <2>1. q[j].data = n - len + (j - at) /\ q[k].data = n - len + (k - at)
      BY <1>2
    <2> QED BY <2>1
  <1>5. \E first \in 1..n + 1 :
           /\ {q[k].data : k \in at + 1..at + len} = first..n
           /\ first = 1 \/ n - first + 1 >= MaxQueued
    <2>1. n - len + 1 \in 1..n + 1
      BY <1>1
    <2>2. n - len + 1 = 1 \/ n - (n - len + 1) + 1 >= MaxQueued
      BY <1>1 DEF Least
    <2> QED BY <1>3, <2>1, <2>2
  <1>6. Len(<<>>) = 0 /\ 1..0 = {}
    OBVIOUS
  <1> QED BY <1>4, <1>5, <1>6 DEF Latest

(* What holds in every state *)

OutFrames == [is : {"allocate"}, auth : {"none", "right", "wrong"}]
             \cup [is : {"permission"}, peer : Peers]
             \cup [is : {"bind"}, number : Tu!Numbers, peer : Peers]
             \cup [is : {"send"}, peer : Peers, data : Nat]
             \cup [is : {"data"}, number : Tu!Numbers, data : Nat]
InFrames == [is : {"challenge", "refused", "allocated"}]
            \cup [is : {"permitted", "forbidden"}, peer : Peers]
            \cup [is : {"bound"}, number : Tu!Numbers]
            \cup [is : {"data"}, from : Peers]
Drivers == [on : BOOLEAN, challenged : BOOLEAN, relayed : BOOLEAN,
            permitted : SUBSET Peers, requested : SUBSET Peers, refused : SUBSET Peers,
            queued : [Peers -> Seq(Nat)], bound : [Peers -> {Tu!Unbound} \cup Tu!Numbers],
            binding : Seq(Peers)]
RelaySessions == [on : BOOLEAN, allocated : BOOLEAN,
                  channels : [Tu!Numbers -> Peers \cup {Tu!NoPeer}]]

TurnTypes == /\ toRelay \in Seq(OutFrames) /\ fromRelay \in Seq(InFrames)
             /\ driver \in Drivers /\ relaySession \in RelaySessions
             /\ pushed \in [Peers -> Nat] /\ left \in [Peers -> Seq(Nat)]

\* Channel n is bound at the relay to the peer the driver binds it to.
BoundTo(n, d, s) == n \in 1..Len(d.binding) /\ s.channels[n] = d.binding[n]

\* A frame to the relay is for a permitted peer, and names a channel that is bound
\* when it arrives; a frame of the relay does the latter.
GoodOut(m, d, s) ==
    /\ m.is = "send" => m.peer \in d.permitted
    /\ m.is = "data" => BoundTo(m.number, d, s)
    /\ m.is = "bind" => m.number \in 1..Len(d.binding) /\ m.peer = d.binding[m.number]
GoodIn(m, d, s) == m.is = "bound" => BoundTo(m.number, d, s)

ChannelsAreOfPeers ==
    /\ \A k \in 1..Len(driver.binding) : driver.binding[k] \in driver.permitted
    /\ \A j, k \in 1..Len(driver.binding) : driver.binding[j] = driver.binding[k] => j = k
    /\ \A p \in Peers : driver.bound[p] # Tu!Unbound =>
          BoundTo(driver.bound[p], driver, relaySession) /\ driver.binding[driver.bound[p]] = p

FramesAreGood ==
    /\ \A k \in 1..Len(toRelay) : GoodOut(toRelay[k], driver, relaySession)
    /\ \A k \in 1..Len(fromRelay) : GoodIn(fromRelay[k], driver, relaySession)

\* What waits for a peer is the latest that was sent to it.
Waits(queue, n) == /\ Len(queue) = Least(n, MaxQueued)
                   /\ \A k \in 1..Len(queue) : queue[k] = n - Len(queue) + k

PeersAreServed ==
    \A p \in Peers :
      IF p \in driver.permitted
      THEN /\ driver.queued[p] = <<>>
           /\ Latest(left[p], toRelay, Way(toRelay, driver.binding, p), pushed[p])
      ELSE left[p] = <<>> /\ Waits(driver.queued[p], pushed[p])

TurnInv == TurnTypes /\ ChannelsAreOfPeers /\ FramesAreGood /\ PeersAreServed

LEMMA TurnInitInv == Tu!TurnInit => TurnInv
  <1> SUFFICES ASSUME Tu!TurnInit PROVE TurnInv
    OBVIOUS
  <1> USE DEF Tu!TurnInit
  <1>1. Tu!Numbers \subseteq Nat
    BY DEF Tu!Numbers
  <1>2. [is |-> "allocate", auth |-> "none"] \in OutFrames
    BY DEF OutFrames
  <1>3. toRelay \in Seq(OutFrames) /\ Len(toRelay) = 1 /\ toRelay[1].is = "allocate"
    BY <1>2
  <1>4. driver \in Drivers
    BY DEF Drivers, Tu!Unbound
  <1>5. relaySession \in RelaySessions
    BY DEF RelaySessions
  <1>6. TurnTypes
    BY <1>3, <1>4, <1>5 DEF TurnTypes
  <1>7. ChannelsAreOfPeers
    BY DEF ChannelsAreOfPeers
  <1>8. FramesAreGood
    <2>1. \A k \in 1..Len(toRelay) : k = 1
      BY <1>3
    <2> QED BY <1>3, <2>1 DEF FramesAreGood, GoodOut
  <1>9. PeersAreServed
    BY QueueIsBounded DEF PeersAreServed, Waits, Least
  <1> QED BY <1>6, <1>7, <1>8, <1>9 DEF TurnInv

LEMMA OutFrameFacts ==
    ASSUME NEW m \in OutFrames
    PROVE  /\ m.is \in {"allocate", "permission", "bind", "send", "data"}
           /\ m.is = "permission" => m.peer \in Peers
           /\ m.is = "bind" => m.number \in Tu!Numbers /\ m.peer \in Peers
           /\ m.is = "send" => m.peer \in Peers /\ m.data \in Nat
           /\ m.is = "data" => m.number \in Tu!Numbers /\ m.data \in Nat
  BY DEF OutFrames

LEMMA InFrameFacts ==
    ASSUME NEW m \in InFrames
    PROVE  /\ m.is \in {"permitted", "forbidden"} => m.peer \in Peers
           /\ m.is = "bound" => m.number \in Tu!Numbers
  BY DEF InFrames

LEMMA NumbersAre == Tu!Numbers = 1..Cardinality(Peers)
  BY DEF Tu!Numbers, Tu!Cardinality, Cardinality

LEMMA NumbersAreNat == Cardinality(Peers) \in Nat /\ Tu!Numbers \subseteq Nat /\ Tu!Unbound \notin Tu!Numbers
  <1>1. IsFiniteSet(Peers)
    BY PartsAssumption
  <1> QED BY <1>1, NumbersAre, FS_CardinalityType DEF Tu!Unbound

\* What a property says of each frame holds of those that are left when the first is
\* taken, and of one that is added.
LEMMA EachOfTail ==
    ASSUME NEW S, NEW q \in Seq(S), q # <<>>
    PROVE  /\ Tail(q) \in Seq(S) /\ Head(q) \in S /\ Head(q) = q[1] /\ 1 \in 1..Len(q)
           /\ \A k \in 1..Len(Tail(q)) : k + 1 \in 1..Len(q) /\ Tail(q)[k] = q[k + 1]
  <1>1. /\ Len(Tail(q)) = Len(q) - 1 /\ Len(q) \in Nat /\ Len(q) > 0
        /\ \A k \in 1..Len(Tail(q)) : Tail(q)[k] = q[k + 1]
    BY HeadTailProperties, EmptySeq, LenProperties
  <1> QED BY <1>1, HeadTailProperties

LEMMA EachOfAppend ==
    ASSUME NEW S, NEW q \in Seq(S), NEW m \in S
    PROVE  /\ Append(q, m) \in Seq(S)
           /\ \A k \in 1..Len(Append(q, m)) :
                 (k \in 1..Len(q) /\ Append(q, m)[k] = q[k]) \/ Append(q, m)[k] = m
  BY AppendProperties, LenProperties

\* A step that leaves the channels, the queues and the datagrams alone.
SameDriver == /\ driver'.permitted = driver.permitted /\ driver'.queued = driver.queued
              /\ driver'.bound = driver.bound /\ driver'.binding = driver.binding

Aside ==
    /\ SameDriver /\ relaySession'.channels = relaySession.channels
    /\ UNCHANGED <<pushed, left>>
    /\ \/ toRelay' = toRelay
       \/ toRelay # <<>> /\ Head(toRelay).is \notin {"send", "data"} /\ toRelay' = Tail(toRelay)
       \/ \E m \in OutFrames : m.is \notin {"send", "data", "bind"} /\ toRelay' = Append(toRelay, m)
    /\ \/ fromRelay' = fromRelay
       \/ fromRelay # <<>> /\ fromRelay' = Tail(fromRelay)
       \/ \E m \in InFrames : m.is # "bound" /\ fromRelay' = Append(fromRelay, m)

LEMMA AsideKeeps ==
    ASSUME TurnInv, Aside
    PROVE  ChannelsAreOfPeers' /\ FramesAreGood' /\ PeersAreServed'
  <1>1. toRelay \in Seq(OutFrames) /\ fromRelay \in Seq(InFrames)
    BY DEF TurnInv, TurnTypes
  <1>2. ChannelsAreOfPeers'
    BY DEF TurnInv, ChannelsAreOfPeers, Aside, SameDriver, BoundTo
  <1>3. \A m : GoodOut(m, driver, relaySession) => GoodOut(m, driver', relaySession')
    BY DEF GoodOut, BoundTo, Aside, SameDriver
  <1>4. \A m : GoodIn(m, driver, relaySession) => GoodIn(m, driver', relaySession')
    BY DEF GoodIn, BoundTo, Aside, SameDriver
  <1>5. \A k \in 1..Len(toRelay') : GoodOut(toRelay'[k], driver, relaySession)
    <2>0. \A k \in 1..Len(toRelay) : GoodOut(toRelay[k], driver, relaySession)
      BY DEF TurnInv, FramesAreGood
    <2>1. CASE toRelay' = toRelay
      BY <2>0, <2>1
    <2>2. CASE toRelay # <<>> /\ toRelay' = Tail(toRelay)
      BY <1>1, <2>0, <2>2, EachOfTail
    <2>3. CASE \E m \in OutFrames : m.is \notin {"send", "data", "bind"} /\ toRelay' = Append(toRelay, m)
      <3>1. PICK m \in OutFrames : m.is \notin {"send", "data", "bind"} /\ toRelay' = Append(toRelay, m)
        BY <2>3
      <3>2. GoodOut(m, driver, relaySession)
        BY <3>1 DEF GoodOut
      <3> QED BY <1>1, <2>0, <3>1, <3>2, EachOfAppend
    <2> QED BY <2>1, <2>2, <2>3 DEF Aside
  <1>6. \A k \in 1..Len(fromRelay') : GoodIn(fromRelay'[k], driver, relaySession)
    <2>0. \A k \in 1..Len(fromRelay) : GoodIn(fromRelay[k], driver, relaySession)
      BY DEF TurnInv, FramesAreGood
    <2>1. CASE fromRelay' = fromRelay
      BY <2>0, <2>1
    <2>2. CASE fromRelay # <<>> /\ fromRelay' = Tail(fromRelay)
      BY <1>1, <2>0, <2>2, EachOfTail
    <2>3. CASE \E m \in InFrames : m.is # "bound" /\ fromRelay' = Append(fromRelay, m)
      <3>1. PICK m \in InFrames : m.is # "bound" /\ fromRelay' = Append(fromRelay, m)
        BY <2>3
      <3>2. GoodIn(m, driver, relaySession)
        BY <3>1 DEF GoodIn
      <3> QED BY <1>1, <2>0, <3>1, <3>2, EachOfAppend
    <2> QED BY <2>1, <2>2, <2>3 DEF Aside
  <1>7. FramesAreGood'
    BY <1>3, <1>4, <1>5, <1>6 DEF FramesAreGood
  <1>8. ASSUME NEW p \in Peers, Latest(left[p], toRelay, Way(toRelay, driver.binding, p), pushed[p])
        PROVE  Latest(left[p], toRelay', Way(toRelay', driver.binding, p), pushed[p])
    <2>1. CASE toRelay' = toRelay
      BY <1>8, <2>1
    <2>2. CASE toRelay # <<>> /\ Head(toRelay).is \notin {"send", "data"} /\ toRelay' = Tail(toRelay)
      <3>1. ~Carries(Head(toRelay), driver.binding, p)
        BY <2>2 DEF Carries
      <3> QED BY <1>1, <1>8, <2>2, <3>1, LatestPasses
    <2>3. CASE \E m \in OutFrames : m.is \notin {"send", "data", "bind"} /\ toRelay' = Append(toRelay, m)
      <3>1. PICK m \in OutFrames : m.is \notin {"send", "data", "bind"} /\ toRelay' = Append(toRelay, m)
        BY <2>3
      <3>2. ~Carries(m, driver.binding, p)
        BY <3>1 DEF Carries
      <3>3. Latest(left[p], Append(toRelay, m), Way(Append(toRelay, m), driver.binding, p), pushed[p])
        BY <1>1, <1>8, <3>2, LatestElse
      <3> QED BY <3>1, <3>3
    <2> QED BY <2>1, <2>2, <2>3 DEF Aside
  <1>9. PeersAreServed'
    BY <1>8 DEF TurnInv, PeersAreServed, Aside, SameDriver
  <1> QED BY <1>2, <1>7, <1>9

\* The steps that concern no datagram to a peer, and no channel.
LEMMA AsideSteps ==
    ASSUME TurnTypes,
           \/ Tu!ReadsChallenge \/ Tu!ReadsAllocated \/ Tu!ReadsRefusal \/ Tu!ReadsForbidden
           \/ Tu!ReadsData \/ Tu!DriverEnds \/ Tu!on_allocate \/ Tu!CreatePermission
           \/ Tu!SessionEnds \/ \E p \in Peers : Tu!RelayReads(p)
    PROVE  TurnTypes' /\ Aside
  <1>1. /\ toRelay \in Seq(OutFrames) /\ fromRelay \in Seq(InFrames)
        /\ driver \in Drivers /\ relaySession \in RelaySessions
    BY DEF TurnTypes
  <1>2. /\ Tu!Off \in Drivers /\ Tu!Off.permitted = driver.permitted
        /\ Tu!Off.queued = driver.queued /\ Tu!Off.bound = driver.bound
        /\ Tu!Off.binding = driver.binding
    BY <1>1 DEF Tu!Off, Drivers
  <1>3. ASSUME fromRelay # <<>> PROVE Tail(fromRelay) \in Seq(InFrames) /\ Head(fromRelay) \in InFrames
    BY <1>1, <1>3, EachOfTail
  <1>4. ASSUME toRelay # <<>> PROVE Tail(toRelay) \in Seq(OutFrames) /\ Head(toRelay) \in OutFrames
    BY <1>1, <1>4, EachOfTail
  <1>5. ASSUME NEW m \in InFrames PROVE Append(fromRelay, m) \in Seq(InFrames)
    BY <1>1, EachOfAppend
  <1>6. ASSUME NEW m \in OutFrames PROVE Append(toRelay, m) \in Seq(OutFrames)
    BY <1>1, EachOfAppend
  <1> USE DEF SameDriver, Tu!Reads
  <1>7. CASE Tu!ReadsChallenge
    <2> USE <1>7 DEF Tu!ReadsChallenge
    <2>1. fromRelay # <<>> /\ fromRelay' = Tail(fromRelay) /\ UNCHANGED <<relaySession, pushed, left>>
      OBVIOUS
    <2>2. driver' \in Drivers /\ SameDriver
      <3>1. CASE driver.challenged
        BY <1>2, <3>1
      <3>2. CASE ~driver.challenged
        BY <1>1, <3>2 DEF Drivers
      <3> QED BY <3>1, <3>2
    <2>3. toRelay' = toRelay \/ \E m \in OutFrames : m.is = "allocate" /\ toRelay' = Append(toRelay, m)
      <3>1. CASE driver.challenged
        BY <3>1
      <3>2. CASE ~driver.challenged
        <4>1. PICK right \in BOOLEAN :
                 toRelay' = Append(toRelay, [is |-> "allocate", auth |-> IF right THEN "right" ELSE "wrong"])
          BY <3>2
        <4>2. [is |-> "allocate", auth |-> IF right THEN "right" ELSE "wrong"] \in OutFrames
          BY DEF OutFrames
        <4> QED BY <4>1, <4>2
      <3> QED BY <3>1, <3>2
    <2>4. toRelay' \in Seq(OutFrames)
      BY <1>1, <1>6, <2>3
    <2> HIDE <1>7
    <2>5. TurnTypes'
      BY <1>3, <2>1, <2>2, <2>4 DEF TurnTypes
    <2> QED BY <2>1, <2>2, <2>3, <2>5 DEF Aside
  <1>8. CASE Tu!ReadsAllocated
    <2>1. /\ fromRelay # <<>> /\ fromRelay' = Tail(fromRelay)
          /\ UNCHANGED <<relaySession, pushed, left, toRelay>>
      BY <1>8 DEF Tu!ReadsAllocated
    <2>2. driver' \in Drivers /\ SameDriver
      BY <1>1, <1>8 DEF Tu!ReadsAllocated, Drivers
    <2> QED BY <1>3, <2>1, <2>2 DEF Aside, TurnTypes
  <1>9. CASE Tu!ReadsRefusal
    BY <1>2, <1>3, <1>9 DEF Tu!ReadsRefusal, Aside, TurnTypes
  <1>10. CASE Tu!ReadsForbidden
    <2>1. /\ fromRelay # <<>> /\ fromRelay' = Tail(fromRelay)
          /\ UNCHANGED <<relaySession, pushed, left, toRelay>>
          /\ driver' = [driver EXCEPT !.refused = @ \cup {Head(fromRelay).peer}]
          /\ Head(fromRelay).is = "forbidden"
      BY <1>10 DEF Tu!ReadsForbidden
    <2>2. Head(fromRelay).peer \in Peers
      BY <1>3, <2>1, InFrameFacts
    <2>3. driver' \in Drivers /\ SameDriver
      BY <1>1, <2>1, <2>2 DEF Drivers
    <2> QED BY <1>3, <2>1, <2>3 DEF Aside, TurnTypes
  <1>11. CASE Tu!ReadsData
    BY <1>3, <1>11 DEF Tu!ReadsData, Aside, TurnTypes
  <1>12. CASE Tu!DriverEnds
    BY <1>2, <1>12 DEF Tu!DriverEnds, Aside, TurnTypes
  <1>13. CASE Tu!on_allocate
    <2>1. /\ toRelay # <<>> /\ Head(toRelay).is = "allocate" /\ toRelay' = Tail(toRelay)
          /\ UNCHANGED <<driver, pushed, left>>
      BY <1>13 DEF Tu!on_allocate, Tu!OnFrame
    <2>2. relaySession' \in RelaySessions /\ relaySession'.channels = relaySession.channels
      BY <1>1, <1>13 DEF Tu!on_allocate, RelaySessions
    <2>3. \E m \in InFrames : m.is # "bound" /\ fromRelay' = Append(fromRelay, m)
      <3>1. \E w \in {"challenge", "refused", "allocated"} : fromRelay' = Append(fromRelay, [is |-> w])
        BY <1>13 DEF Tu!on_allocate, Tu!Replies
      <3>2. \A w \in {"challenge", "refused", "allocated"} : [is |-> w] \in InFrames
        BY DEF InFrames
      <3>3. PICK w \in {"challenge", "refused", "allocated"} : fromRelay' = Append(fromRelay, [is |-> w])
        BY <3>1
      <3>4. [is |-> w].is # "bound"
        OBVIOUS
      <3> QED BY <3>2, <3>3, <3>4
    <2>4. fromRelay' \in Seq(InFrames)
      BY <1>5, <2>3
    <2>5. TurnTypes'
      BY <1>4, <2>1, <2>2, <2>4 DEF TurnTypes
    <2> QED BY <2>1, <2>2, <2>3, <2>5 DEF Aside
  <1>14. CASE Tu!CreatePermission
    <2>1. /\ toRelay # <<>> /\ Head(toRelay).is = "permission" /\ toRelay' = Tail(toRelay)
          /\ UNCHANGED <<driver, pushed, left, relaySession>>
      BY <1>14 DEF Tu!CreatePermission, Tu!OnFrame
    <2>2. Head(toRelay).peer \in Peers
      BY <1>4, <2>1, OutFrameFacts
    <2>3. PICK r \in {"permitted", "forbidden"} :
             fromRelay' = Append(fromRelay, [is |-> r, peer |-> Head(toRelay).peer])
      BY <1>14 DEF Tu!CreatePermission, Tu!Replies
    <2>4. [is |-> r, peer |-> Head(toRelay).peer] \in InFrames
      BY <2>2 DEF InFrames
    <2>5. [is |-> r, peer |-> Head(toRelay).peer].is # "bound"
      OBVIOUS
    <2>6. fromRelay' \in Seq(InFrames)
      BY <1>5, <2>3, <2>4
    <2>7. TurnTypes'
      BY <1>4, <2>1, <2>6 DEF TurnTypes
    <2> QED BY <2>1, <2>3, <2>4, <2>5, <2>7 DEF Aside
  <1>15. CASE Tu!SessionEnds
    <2>1. relaySession' \in RelaySessions /\ relaySession'.channels = relaySession.channels
      BY <1>1, <1>15 DEF Tu!SessionEnds, RelaySessions
    <2> QED BY <1>15, <2>1 DEF Tu!SessionEnds, Aside, TurnTypes
  <1>16. CASE \E p \in Peers : Tu!RelayReads(p)
    <2>1. PICK p \in Peers : Tu!RelayReads(p)
      BY <1>16
    <2>2. [is |-> "data", from |-> p] \in InFrames /\ [is |-> "data", from |-> p].is # "bound"
      BY DEF InFrames
    <2>3. /\ fromRelay' = Append(fromRelay, [is |-> "data", from |-> p])
          /\ UNCHANGED <<toRelay, driver, relaySession, pushed, left>>
      BY <2>1 DEF Tu!RelayReads, Tu!Replies
    <2>4. fromRelay' \in Seq(InFrames)
      BY <1>5, <2>2, <2>3
    <2>5. TurnTypes'
      BY <2>3, <2>4 DEF TurnTypes
    <2> QED BY <2>2, <2>3, <2>5 DEF Aside
  <1> QED BY <1>7, <1>8, <1>9, <1>10, <1>11, <1>12, <1>13, <1>14, <1>15, <1>16

\* The queue of a peer keeps the latest.
LEMMA HoldWaits ==
    ASSUME NEW queue \in Seq(Nat), NEW n \in Nat, Waits(queue, n)
    PROVE  Tu!Hold(queue, n + 1) \in Seq(Nat) /\ Waits(Tu!Hold(queue, n + 1), n + 1)
  <1> DEFINE rest == IF Len(queue) = MaxQueued THEN Tail(queue) ELSE queue
             h == Append(rest, n + 1)
  <1>1. Len(queue) \in Nat /\ Len(queue) = Least(n, MaxQueued)
    BY LenProperties DEF Waits
  <1>2. /\ rest \in Seq(Nat) /\ Len(rest) \in Nat /\ Len(rest) + 1 = Least(n + 1, MaxQueued)
        /\ \A k \in 1..Len(rest) : rest[k] = n - Len(rest) + k
    <2>1. CASE Len(queue) = MaxQueued
      <3>1. queue # <<>>
        BY <2>1, QueueIsBounded
      <3>2. rest = Tail(queue)
        BY <2>1
      <3> HIDE DEF rest
      <3>3. /\ rest \in Seq(Nat) /\ Len(rest) = Len(queue) - 1
            /\ \A k \in 1..Len(rest) : rest[k] = queue[k + 1]
        BY <3>1, <3>2, HeadTailProperties
      <3>4. \A k \in 1..Len(rest) : k + 1 \in 1..Len(queue)
        BY <1>1, <3>3
      <3>5. \A k \in 1..Len(queue) : queue[k] = n - Len(queue) + k
        BY DEF Waits
      <3>6. \A k \in 1..Len(rest) : rest[k] = n - Len(rest) + k
        <4> TAKE k \in 1..Len(rest)
        <4>1. rest[k] = n - Len(queue) + (k + 1)
          BY <3>3, <3>4, <3>5
        <4> QED BY <1>1, <3>3, <4>1
      <3>7. Len(rest) \in Nat /\ Len(rest) + 1 = Least(n + 1, MaxQueued)
        BY <1>1, <2>1, <3>3, QueueIsBounded DEF Least
      <3> QED BY <3>3, <3>6, <3>7
    <2>2. CASE Len(queue) # MaxQueued
      BY <1>1, <2>2, QueueIsBounded DEF Waits, Least
    <2> QED BY <2>1, <2>2
  <1> HIDE DEF rest
  <1>3. /\ h \in Seq(Nat) /\ Len(h) = Len(rest) + 1
        /\ \A k \in 1..Len(rest) : h[k] = rest[k]
        /\ h[Len(rest) + 1] = n + 1
    BY <1>2, AppendProperties
  <1> HIDE DEF h
  <1>4. \A k \in 1..Len(h) : h[k] = (n + 1) - Len(h) + k
    <2> TAKE k \in 1..Len(h)
    <2>1. CASE k \in 1..Len(rest)
      BY <1>2, <1>3, <2>1
    <2>2. CASE k = Len(rest) + 1
      BY <1>2, <1>3, <2>2
    <2> QED BY <1>2, <1>3, <2>1, <2>2
  <1>5. h = Tu!Hold(queue, n + 1)
    BY DEF h, rest, Tu!Hold
  <1> QED BY <1>2, <1>3, <1>4, <1>5 DEF Waits

\* The rest of the steps, one by one.  What they keep of the frames and of the peers
\* whose datagrams they leave alone:
LEMMA FramesAfter ==
    ASSUME TurnInv,
           \A m : GoodOut(m, driver, relaySession) => GoodOut(m, driver', relaySession'),
           \A m : GoodIn(m, driver, relaySession) => GoodIn(m, driver', relaySession'),
           \/ toRelay' = toRelay
           \/ toRelay # <<>> /\ toRelay' = Tail(toRelay)
           \/ \E m \in OutFrames : GoodOut(m, driver', relaySession') /\ toRelay' = Append(toRelay, m),
           \/ fromRelay' = fromRelay
           \/ fromRelay # <<>> /\ fromRelay' = Tail(fromRelay)
           \/ \E m \in InFrames : GoodIn(m, driver', relaySession') /\ fromRelay' = Append(fromRelay, m)
    PROVE  FramesAreGood'
  <1>1. toRelay \in Seq(OutFrames) /\ fromRelay \in Seq(InFrames)
    BY DEF TurnInv, TurnTypes
  <1>2. \A k \in 1..Len(toRelay) : GoodOut(toRelay[k], driver', relaySession')
    BY DEF TurnInv, FramesAreGood
  <1>3. \A k \in 1..Len(fromRelay) : GoodIn(fromRelay[k], driver', relaySession')
    BY DEF TurnInv, FramesAreGood
  <1>4. \A k \in 1..Len(toRelay') : GoodOut(toRelay'[k], driver', relaySession')
    <2>1. CASE toRelay' = toRelay
      BY <1>2, <2>1
    <2>2. CASE toRelay # <<>> /\ toRelay' = Tail(toRelay)
      BY <1>1, <1>2, <2>2, EachOfTail
    <2>3. CASE \E m \in OutFrames : GoodOut(m, driver', relaySession') /\ toRelay' = Append(toRelay, m)
      BY <1>1, <1>2, <2>3, EachOfAppend
    <2> QED BY <2>1, <2>2, <2>3
  <1>5. \A k \in 1..Len(fromRelay') : GoodIn(fromRelay'[k], driver', relaySession')
    <2>1. CASE fromRelay' = fromRelay
      BY <1>3, <2>1
    <2>2. CASE fromRelay # <<>> /\ fromRelay' = Tail(fromRelay)
      BY <1>1, <1>3, <2>2, EachOfTail
    <2>3. CASE \E m \in InFrames : GoodIn(m, driver', relaySession') /\ fromRelay' = Append(fromRelay, m)
      BY <1>1, <1>3, <2>3, EachOfAppend
    <2> QED BY <2>1, <2>2, <2>3
  <1> QED BY <1>4, <1>5 DEF FramesAreGood

LEMMA SocketSendsKeeps ==
    ASSUME TurnInv, NEW p \in Peers, Tu!SocketSends(p)
    PROVE  TurnInv'
  <1> DEFINE i == pushed[p] + 1
             m == Tu!Datagram(driver, p, i)
  <1>1. /\ toRelay \in Seq(OutFrames) /\ fromRelay \in Seq(InFrames)
        /\ driver \in Drivers /\ relaySession \in RelaySessions
        /\ pushed \in [Peers -> Nat] /\ left \in [Peers -> Seq(Nat)]
    BY DEF TurnInv, TurnTypes
  <1>2. /\ pushed' = [pushed EXCEPT ![p] = i]
        /\ UNCHANGED <<fromRelay, relaySession, left>>
    BY DEF Tu!SocketSends
  <1>3. pushed' \in [Peers -> Nat] /\ pushed[p] \in Nat /\ pushed'[p] = pushed[p] + 1
        /\ \A q \in Peers : q # p => pushed'[q] = pushed[q]
    BY <1>1, <1>2
  <1>4. CASE p \in driver.permitted
    <2>1. toRelay' = Append(toRelay, m) /\ driver' = driver
      BY <1>4 DEF Tu!SocketSends
    <2>2. m \in OutFrames /\ m.data = i /\ m.is \in {"send", "data"}
      BY <1>1 DEF Tu!Datagram, Drivers, OutFrames
    <2>3. driver.bound[p] # Tu!Unbound => BoundTo(driver.bound[p], driver, relaySession)
                                          /\ driver.binding[driver.bound[p]] = p
      BY DEF TurnInv, ChannelsAreOfPeers
    <2>4. GoodOut(m, driver, relaySession)
      BY <1>4, <2>3 DEF GoodOut, Tu!Datagram
    <2>5. \A q \in Peers : Carries(m, driver.binding, q) <=> q = p
      BY <2>3 DEF Carries, Tu!Datagram
    <2> HIDE DEF m
    <2>6. TurnTypes'
      <3>1. toRelay' \in Seq(OutFrames)
        BY <1>1, <2>1, <2>2, EachOfAppend
      <3> QED BY <1>1, <1>2, <1>3, <2>1, <3>1 DEF TurnTypes
    <2>7. ChannelsAreOfPeers'
      BY <1>2, <2>1 DEF TurnInv, ChannelsAreOfPeers
    <2>8. FramesAreGood'
      BY <1>2, <2>1, <2>2, <2>4, FramesAfter
    <2>9. ASSUME NEW q \in driver.permitted
          PROVE  Latest(left[q], toRelay', Way(toRelay', driver.binding, q), pushed'[q])
      <3>1. q \in Peers /\ Latest(left[q], toRelay, Way(toRelay, driver.binding, q), pushed[q])
        BY <1>1 DEF TurnInv, PeersAreServed, Drivers
      <3>2. CASE q = p
        <4>1. Carries(m, driver.binding, p)
          BY <2>5
        <4>2. Latest(left[p], Append(toRelay, m), Way(Append(toRelay, m), driver.binding, p), pushed[p] + 1)
          BY <1>1, <1>3, <2>2, <3>1, <3>2, <4>1, LatestAdds
        <4> QED BY <1>3, <2>1, <3>2, <4>2
      <3>3. CASE q # p
        <4>1. ~Carries(m, driver.binding, q)
          BY <2>5, <3>1, <3>3
        <4>2. Latest(left[q], Append(toRelay, m), Way(Append(toRelay, m), driver.binding, q), pushed[q])
          BY <1>1, <2>2, <3>1, <4>1, LatestElse
        <4> QED BY <1>3, <2>1, <3>1, <3>3, <4>2
      <3> QED BY <3>2, <3>3
    <2>10. PeersAreServed'
      BY <1>2, <1>3, <1>4, <2>1, <2>9 DEF TurnInv, PeersAreServed
    <2> QED BY <2>6, <2>7, <2>8, <2>10 DEF TurnInv
  <1>5. CASE p \notin driver.permitted
    <2>1. /\ driver' = [driver EXCEPT !.queued[p] = Tu!Hold(@, i), !.requested = @ \cup {p}]
          /\ toRelay' = IF p \in driver.requested THEN toRelay
                        ELSE Append(toRelay, [is |-> "permission", peer |-> p])
      BY <1>5 DEF Tu!SocketSends
    <2>2. left[p] = <<>> /\ Waits(driver.queued[p], pushed[p]) /\ driver.queued[p] \in Seq(Nat)
      BY <1>1, <1>5 DEF TurnInv, PeersAreServed, Drivers
    <2>3. Tu!Hold(driver.queued[p], i) \in Seq(Nat) /\ Waits(Tu!Hold(driver.queued[p], i), i)
      BY <1>3, <2>2, HoldWaits
    <2> HIDE DEF i
    <2>4. /\ driver' \in Drivers
          /\ driver'.permitted = driver.permitted /\ driver'.bound = driver.bound
          /\ driver'.binding = driver.binding
          /\ driver'.queued = [driver.queued EXCEPT ![p] = Tu!Hold(@, i)]
      BY <1>1, <2>1, <2>3 DEF Drivers
    <2>5. /\ [is |-> "permission", peer |-> p] \in OutFrames
          /\ [is |-> "permission", peer |-> p].is = "permission"
      BY DEF OutFrames
    <2>6. PICK w \in OutFrames : w.is = "permission" /\ toRelay' \in {toRelay, Append(toRelay, w)}
      BY <2>1, <2>5
    <2>7. TurnTypes'
      <3>1. Append(toRelay, w) \in Seq(OutFrames)
        BY <1>1, EachOfAppend
      <3>2. toRelay' \in Seq(OutFrames)
        BY <1>1, <2>6, <3>1
      <3> QED BY <1>1, <1>2, <1>3, <2>4, <3>2 DEF TurnTypes
    <2>8. ChannelsAreOfPeers'
      BY <1>2, <2>4 DEF TurnInv, ChannelsAreOfPeers, BoundTo
    <2>9. FramesAreGood'
      <3>1. \A m2 : GoodOut(m2, driver, relaySession) => GoodOut(m2, driver', relaySession')
        BY <1>2, <2>4 DEF GoodOut, BoundTo
      <3>2. \A m2 : GoodIn(m2, driver, relaySession) => GoodIn(m2, driver', relaySession')
        BY <1>2, <2>4 DEF GoodIn, BoundTo
      <3>3. GoodOut(w, driver', relaySession')
        BY <2>6 DEF GoodOut
      <3> QED BY <1>2, <2>6, <3>1, <3>2, <3>3, FramesAfter
    <2>10. ASSUME NEW q \in driver.permitted
           PROVE  Latest(left[q], toRelay', Way(toRelay', driver.binding, q), pushed[q])
      <3>1. q \in Peers /\ Latest(left[q], toRelay, Way(toRelay, driver.binding, q), pushed[q])
        BY <1>1 DEF TurnInv, PeersAreServed, Drivers
      <3>2. ~Carries(w, driver.binding, q)
        BY <2>6 DEF Carries
      <3>3. Latest(left[q], Append(toRelay, w), Way(Append(toRelay, w), driver.binding, q), pushed[q])
        BY <1>1, <3>1, <3>2, LatestElse
      <3> QED BY <2>6, <3>1, <3>3
    <2>11. ASSUME NEW q \in Peers
           PROVE  IF q \in driver.permitted
                  THEN /\ driver'.queued[q] = <<>>
                       /\ Latest(left[q], toRelay', Way(toRelay', driver.binding, q), pushed'[q])
                  ELSE left[q] = <<>> /\ Waits(driver'.queued[q], pushed'[q])
      <3>1. CASE q = p
        <4>1. driver'.queued[p] = Tu!Hold(driver.queued[p], i) /\ pushed'[p] = i
          BY <1>1, <1>3, <2>4 DEF Drivers, i
        <4> QED BY <1>5, <2>2, <2>3, <3>1, <4>1
      <3>2. CASE q # p
        <4>1. driver'.queued[q] = driver.queued[q] /\ pushed'[q] = pushed[q]
          BY <1>1, <1>3, <2>4, <3>2 DEF Drivers
        <4> QED BY <2>10, <4>1 DEF TurnInv, PeersAreServed
      <3> QED BY <3>1, <3>2
    <2>12. PeersAreServed'
      BY <1>2, <2>4, <2>11 DEF PeersAreServed
    <2> QED BY <2>7, <2>8, <2>9, <2>12 DEF TurnInv
  <1> QED BY <1>4, <1>5

LEMMA BindsKeeps ==
    ASSUME TurnInv, NEW p \in Peers, Tu!Binds(p)
    PROVE  TurnInv'
  <1> DEFINE b == driver.binding
             n == Len(b) + 1
             m == [is |-> "bind", number |-> n, peer |-> p]
  <1>1. /\ toRelay \in Seq(OutFrames) /\ fromRelay \in Seq(InFrames)
        /\ driver \in Drivers /\ relaySession \in RelaySessions
        /\ pushed \in [Peers -> Nat] /\ left \in [Peers -> Seq(Nat)]
    BY DEF TurnInv, TurnTypes
  <1>2. /\ p \in driver.permitted /\ \A k \in 1..Len(b) : b[k] # p
        /\ driver' = [driver EXCEPT !.binding = Append(@, p)]
        /\ toRelay' = Append(toRelay, m)
        /\ UNCHANGED <<fromRelay, relaySession, pushed, left>>
    BY DEF Tu!Binds
  <1>3. b \in Seq(Peers) /\ Len(b) \in Nat
    BY <1>1, LenProperties DEF Drivers
  <1>4. /\ driver' \in Drivers /\ driver'.binding = Append(b, p)
        /\ driver'.permitted = driver.permitted /\ driver'.bound = driver.bound
        /\ driver'.queued = driver.queued
    <2>1. Append(b, p) \in Seq(Peers)
      BY <1>3
    <2> QED BY <1>1, <1>2, <2>1 DEF Drivers
  <1>5. /\ Append(b, p) \in Seq(Peers) /\ 1..Len(Append(b, p)) = (1..Len(b)) \cup {n}
        /\ \A k \in 1..Len(b) : Append(b, p)[k] = b[k]
        /\ Append(b, p)[n] = p /\ Len(Append(b, p)) = n
    BY <1>3, AppendedFrame, AppendProperties
  <1>6. /\ \A k \in 1..Len(b) : b[k] \in driver.permitted
        /\ \A j, k \in 1..Len(b) : b[j] = b[k] => j = k
        /\ \A q \in Peers : driver.bound[q] # Tu!Unbound =>
              BoundTo(driver.bound[q], driver, relaySession) /\ b[driver.bound[q]] = q
    BY DEF TurnInv, ChannelsAreOfPeers
  <1> HIDE DEF b, n
  <1>7. \A j, k \in 1..Len(Append(b, p)) : Append(b, p)[j] = Append(b, p)[k] => j = k
    BY <1>2, <1>5, <1>6
  <1>8. n \in Tu!Numbers
    <2>1. IsFiniteSet(Peers) /\ n \in Nat /\ n > 0
      <3>1. IsFiniteSet(Peers)
        BY PartsAssumption
      <3> QED BY <1>3, <3>1 DEF n
    <2>2. Cardinality(1..n) = n
      <3>1. Cardinality(1..n) = IF 1 > n THEN 0 ELSE n - 1 + 1
        BY <2>1, FS_Interval
      <3> QED BY <2>1, <3>1
    <2>3. [k \in 1..n |-> Append(b, p)[k]] \in Injection(1..n, Peers)
      BY <1>5, <1>7, ElementOfSeq DEF Injection, IsInjective
    <2>4. Cardinality(1..n) <= Cardinality(Peers)
      BY <2>1, <2>3, FS_Injection
    <2>5. Cardinality(Peers) \in Nat
      BY NumbersAreNat
    <2>6. n <= Cardinality(Peers)
      BY <2>2, <2>4
    <2>7. n \in Nat /\ n > 0
      BY <2>1
    <2> QED BY <2>5, <2>6, <2>7, NumbersAre
  <1>9. m \in OutFrames /\ m.is = "bind" /\ m.number = n /\ m.peer = p
    BY <1>8 DEF OutFrames
  <1> HIDE DEF m
  <1>10. TurnTypes'
    <2>1. toRelay' \in Seq(OutFrames)
      BY <1>1, <1>2, <1>9, EachOfAppend
    <2> QED BY <1>1, <1>2, <1>4, <2>1 DEF TurnTypes
  <1>11. \A k : BoundTo(k, driver, relaySession) => BoundTo(k, driver', relaySession')
    BY <1>2, <1>4, <1>5 DEF BoundTo, b
  <1>12. ChannelsAreOfPeers'
    <2>1. \A k \in 1..Len(driver'.binding) : driver'.binding[k] \in driver'.permitted
      BY <1>2, <1>4, <1>5, <1>6
    <2>2. \A q \in Peers : driver'.bound[q] # Tu!Unbound =>
              BoundTo(driver'.bound[q], driver', relaySession') /\ driver'.binding[driver'.bound[q]] = q
      <3> SUFFICES ASSUME NEW q \in Peers, driver.bound[q] # Tu!Unbound
                   PROVE  /\ BoundTo(driver.bound[q], driver', relaySession')
                          /\ Append(b, p)[driver.bound[q]] = q
        BY <1>4
      <3>1. BoundTo(driver.bound[q], driver, relaySession) /\ b[driver.bound[q]] = q
        BY <1>6
      <3>2. driver.bound[q] \in 1..Len(b)
        BY <3>1 DEF BoundTo, b
      <3> QED BY <1>5, <1>11, <3>1, <3>2
    <2> QED BY <1>4, <1>7, <2>1, <2>2 DEF ChannelsAreOfPeers
  <1>13. FramesAreGood'
    <2>1. \A x : GoodOut(x, driver, relaySession) => GoodOut(x, driver', relaySession')
      <3> SUFFICES ASSUME NEW x, GoodOut(x, driver, relaySession) PROVE GoodOut(x, driver', relaySession')
        OBVIOUS
      <3>1. x.is = "bind" => x.number \in 1..Len(Append(b, p)) /\ x.peer = Append(b, p)[x.number]
        BY <1>5 DEF GoodOut, b
      <3> QED BY <1>4, <1>11, <3>1 DEF GoodOut
    <2>2. \A x : GoodIn(x, driver, relaySession) => GoodIn(x, driver', relaySession')
      BY <1>11 DEF GoodIn
    <2>3. GoodOut(m, driver', relaySession')
      BY <1>4, <1>5, <1>9 DEF GoodOut
    <2> QED BY <1>2, <1>9, <2>1, <2>2, <2>3, FramesAfter
  <1>14. ASSUME NEW q \in driver.permitted
         PROVE  Latest(left[q], toRelay', Way(toRelay', Append(b, p), q), pushed[q])
    <2>1. q \in Peers /\ Latest(left[q], toRelay, Way(toRelay, b, q), pushed[q])
      BY <1>1 DEF TurnInv, PeersAreServed, Drivers, b
    <2>2. Way(toRelay, Append(b, p), q) = Way(toRelay, b, q)
      <3>1. \A k \in 1..Len(toRelay) : toRelay[k].is = "data" => toRelay[k].number \in 1..Len(b)
        BY DEF TurnInv, FramesAreGood, GoodOut, BoundTo, b
      <3> QED BY <1>5, <3>1 DEF Way, Carries
    <2>3. ~Carries(m, Append(b, p), q)
      BY <1>9 DEF Carries
    <2>4. Latest(left[q], toRelay, Way(toRelay, Append(b, p), q), pushed[q])
      BY <2>1, <2>2
    <2>5. Latest(left[q], Append(toRelay, m), Way(Append(toRelay, m), Append(b, p), q), pushed[q])
      BY <1>1, <1>9, <2>3, <2>4, LatestElse
    <2> QED BY <1>2, <2>5
  <1>15. PeersAreServed'
    BY <1>2, <1>4, <1>14 DEF TurnInv, PeersAreServed
  <1> QED BY <1>10, <1>12, <1>13, <1>15 DEF TurnInv

LEMMA ReadsBoundKeeps ==
    ASSUME TurnInv, Tu!ReadsBound
    PROVE  TurnInv'
  <1> DEFINE n == Head(fromRelay).number
             p == driver.binding[n]
  <1>1. /\ toRelay \in Seq(OutFrames) /\ fromRelay \in Seq(InFrames)
        /\ driver \in Drivers /\ relaySession \in RelaySessions
        /\ pushed \in [Peers -> Nat] /\ left \in [Peers -> Seq(Nat)]
    BY DEF TurnInv, TurnTypes
  <1>2. /\ fromRelay # <<>> /\ Head(fromRelay).is = "bound" /\ fromRelay' = Tail(fromRelay)
        /\ driver' = [driver EXCEPT !.bound[p] = n]
        /\ UNCHANGED <<toRelay, relaySession, pushed, left>>
    BY DEF Tu!ReadsBound, Tu!Reads
  <1>3. BoundTo(n, driver, relaySession) /\ n \in Tu!Numbers
    <2>1. GoodIn(Head(fromRelay), driver, relaySession) /\ Head(fromRelay) \in InFrames
      BY <1>1, <1>2, EachOfTail DEF TurnInv, FramesAreGood
    <2> QED BY <1>2, <2>1, InFrameFacts DEF GoodIn
  <1>4. p \in Peers
    BY <1>1, <1>3, ElementOfSeq DEF BoundTo, Drivers
  <1>5. /\ driver' \in Drivers /\ driver'.binding = driver.binding
        /\ driver'.permitted = driver.permitted /\ driver'.queued = driver.queued
        /\ driver'.bound = [driver.bound EXCEPT ![p] = n]
    BY <1>1, <1>2, <1>3, <1>4 DEF Drivers
  <1>6. TurnTypes'
    <2>1. fromRelay' \in Seq(InFrames)
      BY <1>1, <1>2, EachOfTail
    <2> QED BY <1>1, <1>2, <1>5, <2>1 DEF TurnTypes
  <1>7. \A k : BoundTo(k, driver, relaySession) => BoundTo(k, driver', relaySession')
    BY <1>2, <1>5 DEF BoundTo
  <1>8. ChannelsAreOfPeers'
    <2>1. \A q \in Peers : driver'.bound[q] # Tu!Unbound =>
              BoundTo(driver'.bound[q], driver', relaySession') /\ driver'.binding[driver'.bound[q]] = q
      <3> TAKE q \in Peers
      <3>1. driver'.bound[q] = IF q = p THEN n ELSE driver.bound[q]
        BY <1>1, <1>5 DEF Drivers
      <3>2. driver.bound[q] # Tu!Unbound =>
              BoundTo(driver.bound[q], driver, relaySession) /\ driver.binding[driver.bound[q]] = q
        BY DEF TurnInv, ChannelsAreOfPeers
      <3> HIDE DEF n
      <3> QED BY <1>3, <1>5, <1>7, <3>1, <3>2
    <2> QED BY <1>5, <2>1 DEF TurnInv, ChannelsAreOfPeers
  <1>9. FramesAreGood'
    <2>1. \A x : GoodOut(x, driver, relaySession) => GoodOut(x, driver', relaySession')
      BY <1>5, <1>7 DEF GoodOut
    <2>2. \A x : GoodIn(x, driver, relaySession) => GoodIn(x, driver', relaySession')
      BY <1>7 DEF GoodIn
    <2> QED BY <1>2, <2>1, <2>2, FramesAfter
  <1>10. PeersAreServed'
    BY <1>2, <1>5 DEF TurnInv, PeersAreServed
  <1> QED BY <1>6, <1>8, <1>9, <1>10 DEF TurnInv

LEMMA ReadsPermittedKeeps ==
    ASSUME TurnInv, Tu!ReadsPermitted
    PROVE  TurnInv'
  <1> DEFINE p == Head(fromRelay).peer
             waiting == driver.queued[p]
             batch == [k \in 1..Len(waiting) |-> Tu!Datagram(driver, p, waiting[k])]
  <1>1. /\ toRelay \in Seq(OutFrames) /\ fromRelay \in Seq(InFrames)
        /\ driver \in Drivers /\ relaySession \in RelaySessions
        /\ pushed \in [Peers -> Nat] /\ left \in [Peers -> Seq(Nat)]
    BY DEF TurnInv, TurnTypes
  <1>2. /\ fromRelay # <<>> /\ Head(fromRelay).is = "permitted" /\ fromRelay' = Tail(fromRelay)
        /\ driver' = [driver EXCEPT !.permitted = @ \cup {p}, !.queued[p] = <<>>]
        /\ UNCHANGED <<relaySession, pushed, left>>
    BY DEF Tu!ReadsPermitted, Tu!Reads
  <1>0. toRelay' = toRelay \o batch
    BY DEF Tu!ReadsPermitted, Tu!Reads
  <1>3. p \in Peers /\ fromRelay' \in Seq(InFrames)
    BY <1>1, <1>2, EachOfTail, InFrameFacts
  <1> HIDE DEF p
  <1>4. waiting \in Seq(Nat) /\ Len(waiting) \in Nat /\ \A k \in 1..Len(waiting) : waiting[k] \in Nat
    <2>1. waiting \in Seq(Nat)
      BY <1>1, <1>3 DEF Drivers
    <2> QED BY <2>1, LenProperties, ElementOfSeq
  <1>5. /\ driver' \in Drivers /\ driver'.bound = driver.bound /\ driver'.binding = driver.binding
        /\ driver'.permitted = driver.permitted \cup {p}
        /\ driver'.queued = [driver.queued EXCEPT ![p] = <<>>]
    <2>1. <<>> \in Seq(Nat)
      OBVIOUS
    <2> QED BY <1>1, <1>2, <1>3, <2>1 DEF Drivers
  <1>6. driver.bound[p] # Tu!Unbound => /\ BoundTo(driver.bound[p], driver, relaySession)
                                        /\ driver.binding[driver.bound[p]] = p
    BY <1>3 DEF TurnInv, ChannelsAreOfPeers
  <1>7. \A i \in Nat : Tu!Datagram(driver, p, i) \in OutFrames /\ Tu!Datagram(driver, p, i).data = i
    BY <1>1, <1>3 DEF Tu!Datagram, OutFrames, Drivers
  <1>8. \A i \in Nat : GoodOut(Tu!Datagram(driver, p, i), driver', relaySession')
    BY <1>2, <1>5, <1>6 DEF GoodOut, BoundTo, Tu!Datagram
  <1>9. \A i \in Nat, q \in Peers : Carries(Tu!Datagram(driver, p, i), driver.binding, q) <=> q = p
    BY <1>6 DEF Carries, Tu!Datagram
  <1>10. batch \in Seq(OutFrames) /\ Len(batch) = Len(waiting)
    BY <1>4, <1>7
  <1>11. \A k \in 1..Len(waiting) :
            /\ GoodOut(batch[k], driver', relaySession') /\ batch[k].data = waiting[k]
            /\ \A q \in Peers : Carries(batch[k], driver.binding, q) <=> q = p
    BY <1>4, <1>7, <1>8, <1>9
  <1> HIDE DEF batch, waiting
  <1>12. /\ toRelay' \in Seq(OutFrames) /\ Len(toRelay) \in Nat
         /\ 1..Len(toRelay') = (1..Len(toRelay)) \cup (Len(toRelay) + 1..Len(toRelay) + Len(waiting))
         /\ \A k \in 1..Len(toRelay) : toRelay'[k] = toRelay[k]
         /\ \A k \in 1..Len(waiting) : toRelay'[Len(toRelay) + k] = batch[k]
    <2>1. /\ toRelay' \in Seq(OutFrames) /\ Len(toRelay') = Len(toRelay) + Len(waiting)
          /\ \A k \in 1..Len(toRelay') :
               toRelay'[k] = IF k <= Len(toRelay) THEN toRelay[k] ELSE batch[k - Len(toRelay)]
      <3>1. /\ toRelay \o batch \in Seq(OutFrames) /\ Len(toRelay \o batch) = Len(toRelay) + Len(batch)
            /\ \A k \in 1..Len(toRelay) + Len(batch) :
                 (toRelay \o batch)[k] = IF k <= Len(toRelay) THEN toRelay[k] ELSE batch[k - Len(toRelay)]
        BY <1>1, <1>10, ConcatProperties
      <3> QED BY <1>0, <1>10, <3>1
    <2>2. Len(toRelay) \in Nat
      BY <1>1, LenProperties
    <2>3. \A k \in 1..Len(toRelay) : toRelay'[k] = toRelay[k]
      BY <1>4, <2>1, <2>2
    <2>4. \A k \in 1..Len(waiting) : toRelay'[Len(toRelay) + k] = batch[k]
      <3> TAKE k \in 1..Len(waiting)
      <3>1. /\ Len(toRelay) + k \in 1..Len(toRelay') /\ ~(Len(toRelay) + k <= Len(toRelay))
            /\ (Len(toRelay) + k) - Len(toRelay) = k
        BY <1>4, <2>1, <2>2
      <3> QED BY <2>1, <3>1
    <2>5. \A a, b \in Nat : 1..a + b = (1..a) \cup (a + 1..a + b)
      OBVIOUS
    <2>6. 1..Len(toRelay') = (1..Len(toRelay)) \cup (Len(toRelay) + 1..Len(toRelay) + Len(waiting))
      <3>1. Len(waiting) \in Nat
        BY <1>4
      <3> QED BY <2>1, <2>2, <2>5, <3>1
    <2> QED BY <2>1, <2>2, <2>3, <2>4, <2>6
  <1>13. \A k \in Len(toRelay) + 1..Len(toRelay) + Len(waiting) :
            k - Len(toRelay) \in 1..Len(waiting) /\ toRelay'[k] = batch[k - Len(toRelay)]
    <2> TAKE k \in Len(toRelay) + 1..Len(toRelay) + Len(waiting)
    <2>1. k - Len(toRelay) \in 1..Len(waiting) /\ Len(toRelay) + (k - Len(toRelay)) = k
      BY <1>4, <1>12
    <2> QED BY <1>12, <2>1
  <1>14. TurnTypes'
    BY <1>1, <1>2, <1>3, <1>5, <1>12 DEF TurnTypes
  <1>15. \A k : BoundTo(k, driver, relaySession) => BoundTo(k, driver', relaySession')
    BY <1>2, <1>5 DEF BoundTo
  <1>16. ChannelsAreOfPeers'
    BY <1>5, <1>15 DEF TurnInv, ChannelsAreOfPeers
  <1>17. FramesAreGood'
    <2>1. \A x : GoodOut(x, driver, relaySession) => GoodOut(x, driver', relaySession')
      BY <1>5, <1>15 DEF GoodOut
    <2>2. \A k \in 1..Len(toRelay') : GoodOut(toRelay'[k], driver', relaySession')
      BY <1>11, <1>12, <1>13, <2>1 DEF TurnInv, FramesAreGood
    <2>3. \A k \in 1..Len(fromRelay') : GoodIn(fromRelay'[k], driver', relaySession')
      <3>1. \A x : GoodIn(x, driver, relaySession) => GoodIn(x, driver', relaySession')
        BY <1>15 DEF GoodIn
      <3>2. \A k \in 1..Len(fromRelay) : GoodIn(fromRelay[k], driver', relaySession')
        BY <3>1 DEF TurnInv, FramesAreGood
      <3> QED BY <1>1, <1>2, <3>2, EachOfTail
    <2> QED BY <2>2, <2>3 DEF FramesAreGood
  <1>18. \A q \in Peers \ {p} : Way(toRelay', driver.binding, q) = Way(toRelay, driver.binding, q)
    BY <1>11, <1>12, <1>13 DEF Way
  <1>19. ASSUME NEW q \in driver.permitted
         PROVE  Latest(left[q], toRelay', Way(toRelay', driver.binding, q), pushed[q])
    <2>1. q \in Peers /\ Latest(left[q], toRelay, Way(toRelay, driver.binding, q), pushed[q])
      BY <1>1 DEF TurnInv, PeersAreServed, Drivers
    <2>2. Way(toRelay', driver.binding, q) = Way(toRelay, driver.binding, q)
      <3>1. CASE q = p
        <4>1. Len(waiting) = 0
          BY <1>3, <3>1 DEF TurnInv, PeersAreServed, waiting
        <4> QED BY <1>12, <4>1 DEF Way
      <3>2. CASE q # p
        BY <1>18, <2>1, <3>2
      <3> QED BY <3>1, <3>2
    <2>3. \A k \in Way(toRelay, driver.binding, q) : toRelay'[k] = toRelay[k]
      BY <1>12 DEF Way
    <2>4. Latest(left[q], toRelay', Way(toRelay, driver.binding, q), pushed[q])
      BY <2>1, <2>3, LatestStays
    <2> QED BY <2>2, <2>4
  <1>20. ASSUME p \notin driver.permitted
         PROVE  Latest(left[p], toRelay', Way(toRelay', driver.binding, p), pushed[p])
    <2>1. left[p] = <<>> /\ Waits(waiting, pushed[p])
      BY <1>3, <1>20 DEF TurnInv, PeersAreServed, waiting
    <2>2. Way(toRelay, driver.binding, p) = {}
      BY <1>20 DEF TurnInv, FramesAreGood, GoodOut, BoundTo, ChannelsAreOfPeers, Way, Carries
    <2>3. Way(toRelay', driver.binding, p) = Len(toRelay) + 1..Len(toRelay) + Len(waiting)
      <3>1. \A k \in 1..Len(toRelay) : ~Carries(toRelay'[k], driver.binding, p)
        BY <1>12, <2>2 DEF Way
      <3>2. \A k \in Len(toRelay) + 1..Len(toRelay) + Len(waiting) :
               Carries(toRelay'[k], driver.binding, p)
        BY <1>3, <1>11, <1>13
      <3> QED BY <1>12, <3>1, <3>2 DEF Way
    <2>4. \A k \in 1..Len(waiting) : toRelay'[Len(toRelay) + k].data = pushed[p] - Len(waiting) + k
      BY <1>11, <1>12, <2>1 DEF Waits
    <2>5. pushed[p] \in Nat /\ Len(waiting) = Least(pushed[p], MaxQueued)
      BY <1>1, <1>3, <2>1 DEF Waits
    <2>6. Latest(<<>>, toRelay', Len(toRelay) + 1..Len(toRelay) + Len(waiting), pushed[p])
      BY <1>4, <1>12, <2>4, <2>5, LatestAtOnce
    <2> QED BY <2>1, <2>3, <2>6
  <1>21. PeersAreServed'
    <2> SUFFICES ASSUME NEW q \in Peers
                 PROVE  IF q \in driver'.permitted
                        THEN /\ driver'.queued[q] = <<>>
                             /\ Latest(left[q], toRelay', Way(toRelay', driver.binding, q), pushed[q])
                        ELSE left[q] = <<>> /\ Waits(driver'.queued[q], pushed[q])
      BY <1>2, <1>5 DEF PeersAreServed
    <2>1. driver'.queued[q] = IF q = p THEN <<>> ELSE driver.queued[q]
      BY <1>1, <1>5 DEF Drivers
    <2>2. CASE q = p
      BY <1>5, <1>19, <1>20, <2>1, <2>2
    <2>3. CASE q # p
      <3>1. q \in driver'.permitted <=> q \in driver.permitted
        BY <1>5, <2>3
      <3> QED BY <1>19, <2>1, <2>3, <3>1 DEF TurnInv, PeersAreServed
    <2> QED BY <2>2, <2>3
  <1> QED BY <1>14, <1>16, <1>17, <1>21 DEF TurnInv

LEMMA OnChannelBindKeeps ==
    ASSUME TurnInv, Tu!on_channel_bind
    PROVE  TurnInv'
  <1> DEFINE m == Head(toRelay)
             reply == [is |-> "bound", number |-> m.number]
  <1>1. /\ toRelay \in Seq(OutFrames) /\ fromRelay \in Seq(InFrames)
        /\ driver \in Drivers /\ relaySession \in RelaySessions
        /\ pushed \in [Peers -> Nat] /\ left \in [Peers -> Seq(Nat)]
    BY DEF TurnInv, TurnTypes
  <1>2. /\ toRelay # <<>> /\ m.is = "bind" /\ toRelay' = Tail(toRelay)
        /\ relaySession' = [relaySession EXCEPT !.channels[m.number] = m.peer]
        /\ fromRelay' = Append(fromRelay, reply)
        /\ UNCHANGED <<driver, pushed, left>>
    BY DEF Tu!on_channel_bind, Tu!OnFrame, Tu!Replies
  <1>3. /\ m \in OutFrames /\ GoodOut(m, driver, relaySession) /\ toRelay' \in Seq(OutFrames)
    BY <1>1, <1>2, EachOfTail DEF TurnInv, FramesAreGood
  <1>4. /\ m.number \in Tu!Numbers /\ m.peer \in Peers
        /\ m.number \in 1..Len(driver.binding) /\ m.peer = driver.binding[m.number]
    BY <1>2, <1>3, OutFrameFacts DEF GoodOut
  <1>5. /\ reply \in InFrames /\ reply.is = "bound" /\ reply.number = m.number
    BY <1>4 DEF InFrames
  <1> HIDE DEF reply
  <1>6. relaySession' \in RelaySessions /\ relaySession'.channels = [relaySession.channels EXCEPT ![m.number] = m.peer]
    BY <1>1, <1>2, <1>4 DEF RelaySessions
  <1>7. TurnTypes'
    <2>1. fromRelay' \in Seq(InFrames)
      BY <1>1, <1>2, <1>5, EachOfAppend
    <2> QED BY <1>1, <1>2, <1>3, <1>6, <2>1 DEF TurnTypes
  <1>8. relaySession.channels \in [Tu!Numbers -> Peers \cup {Tu!NoPeer}]
    BY <1>1 DEF RelaySessions
  <1>9. \A k : BoundTo(k, driver, relaySession) => BoundTo(k, driver', relaySession')
    BY <1>2, <1>4, <1>6, <1>8, NumbersAre DEF BoundTo
  <1>10. ChannelsAreOfPeers'
    BY <1>2, <1>9 DEF TurnInv, ChannelsAreOfPeers
  <1>11. FramesAreGood'
    <2>1. \A x : GoodOut(x, driver, relaySession) => GoodOut(x, driver', relaySession')
      BY <1>2, <1>9 DEF GoodOut
    <2>2. \A x : GoodIn(x, driver, relaySession) => GoodIn(x, driver', relaySession')
      BY <1>9 DEF GoodIn
    <2>3. GoodIn(reply, driver', relaySession')
      <3>1. BoundTo(m.number, driver', relaySession')
        BY <1>2, <1>4, <1>6, <1>8 DEF BoundTo
      <3> QED BY <1>5, <3>1 DEF GoodIn
    <2> QED BY <1>2, <1>5, <2>1, <2>2, <2>3, FramesAfter
  <1>12. PeersAreServed'
    <2>1. ASSUME NEW q \in driver.permitted
          PROVE  Latest(left[q], toRelay', Way(toRelay', driver.binding, q), pushed[q])
      <3>1. q \in Peers /\ Latest(left[q], toRelay, Way(toRelay, driver.binding, q), pushed[q])
        BY <1>1 DEF TurnInv, PeersAreServed, Drivers
      <3>2. ~Carries(Head(toRelay), driver.binding, q)
        BY <1>2 DEF Carries
      <3> QED BY <1>1, <1>2, <3>1, <3>2, LatestPasses
    <2> QED BY <1>2, <2>1 DEF TurnInv, PeersAreServed
  <1> QED BY <1>7, <1>10, <1>11, <1>12 DEF TurnInv

\* A datagram for p is the first on its way, and leaves.
LEMMA LeavesKeeps ==
    ASSUME TurnInv, NEW p \in Peers, p \in driver.permitted,
           toRelay # <<>>, toRelay' = Tail(toRelay), Head(toRelay).data \in Nat,
           \A q \in Peers : Carries(Head(toRelay), driver.binding, q) <=> q = p,
           left' = [left EXCEPT ![p] = Append(@, Head(toRelay).data)],
           UNCHANGED <<driver, pushed, fromRelay, relaySession>>
    PROVE  TurnInv'
  <1> DEFINE d == Head(toRelay).data
  <1>1. /\ toRelay \in Seq(OutFrames) /\ fromRelay \in Seq(InFrames)
        /\ driver \in Drivers /\ relaySession \in RelaySessions
        /\ pushed \in [Peers -> Nat] /\ left \in [Peers -> Seq(Nat)]
    BY DEF TurnInv, TurnTypes
  <1>2. left' \in [Peers -> Seq(Nat)] /\ left'[p] = Append(left[p], d)
        /\ \A q \in Peers : q # p => left'[q] = left[q]
    BY <1>1
  <1>3. TurnTypes'
    <2>1. toRelay' \in Seq(OutFrames)
      BY <1>1, EachOfTail
    <2> QED BY <1>1, <1>2, <2>1 DEF TurnTypes
  <1>4. ChannelsAreOfPeers'
    BY DEF TurnInv, ChannelsAreOfPeers
  <1>5. FramesAreGood'
    BY FramesAfter
  <1>6. ASSUME NEW q \in driver.permitted
        PROVE  Latest(left'[q], toRelay', Way(toRelay', driver.binding, q), pushed[q])
    <2>1. /\ q \in Peers /\ left[q] \in Seq(Nat) /\ pushed[q] \in Nat
          /\ Latest(left[q], toRelay, Way(toRelay, driver.binding, q), pushed[q])
      BY <1>1 DEF TurnInv, PeersAreServed, Drivers
    <2>2. CASE q = p
      <3>1. Carries(Head(toRelay), driver.binding, p)
        OBVIOUS
      <3>2. Latest(Append(left[p], d), Tail(toRelay), Way(Tail(toRelay), driver.binding, p), pushed[p])
        BY <1>1, <2>1, <2>2, <3>1, LatestGoes
      <3> QED BY <1>2, <2>2, <3>2
    <2>3. CASE q # p
      <3>1. ~Carries(Head(toRelay), driver.binding, q)
        BY <2>1, <2>3
      <3> QED BY <1>1, <1>2, <2>1, <2>3, <3>1, LatestPasses
    <2> QED BY <2>2, <2>3
  <1>7. PeersAreServed'
    BY <1>2, <1>6 DEF TurnInv, PeersAreServed
  <1> QED BY <1>3, <1>4, <1>5, <1>7 DEF TurnInv

LEMMA OnSendKeeps ==
    ASSUME TurnInv, Tu!on_send \/ Tu!on_channel_data
    PROVE  TurnInv'
  <1> DEFINE m == Head(toRelay)
  <1>1. /\ toRelay \in Seq(OutFrames) /\ driver \in Drivers /\ relaySession \in RelaySessions
    BY DEF TurnInv, TurnTypes
  <1>2. toRelay # <<>> /\ toRelay' = Tail(toRelay) /\ m.is \in {"send", "data"}
        /\ UNCHANGED <<driver, pushed, fromRelay, relaySession>>
    BY DEF Tu!on_send, Tu!on_channel_data, Tu!OnFrame, Tu!Leaves
  <1>3. m \in OutFrames /\ GoodOut(m, driver, relaySession) /\ m.data \in Nat
    BY <1>1, <1>2, EachOfTail, OutFrameFacts DEF TurnInv, FramesAreGood
  <1>4. CASE m.is = "send"
    <2>1. left' = [left EXCEPT ![m.peer] = Append(@, m.data)]
      BY <1>4 DEF Tu!on_send, Tu!on_channel_data, Tu!OnFrame, Tu!Leaves
    <2>2. m.peer \in Peers /\ m.peer \in driver.permitted
      BY <1>3, <1>4, OutFrameFacts DEF GoodOut
    <2>3. \A q \in Peers : Carries(m, driver.binding, q) <=> q = m.peer
      BY <1>4 DEF Carries
    <2> QED BY <1>2, <1>3, <2>1, <2>2, <2>3, LeavesKeeps
  <1>5. CASE m.is = "data"
    <2>1. left' = [left EXCEPT ![relaySession.channels[m.number]] = Append(@, m.data)]
      BY <1>5 DEF Tu!on_send, Tu!on_channel_data, Tu!OnFrame, Tu!Leaves
    <2>2. m.number \in 1..Len(driver.binding) /\ relaySession.channels[m.number] = driver.binding[m.number]
      BY <1>3, <1>5 DEF GoodOut, BoundTo
    <2>3. driver.binding[m.number] \in Peers /\ driver.binding[m.number] \in driver.permitted
      BY <1>1, <2>2, ElementOfSeq DEF TurnInv, ChannelsAreOfPeers, Drivers
    <2>4. \A q \in Peers : Carries(m, driver.binding, q) <=> q = driver.binding[m.number]
      BY <1>5 DEF Carries
    <2> QED BY <1>2, <1>3, <2>1, <2>2, <2>3, <2>4, LeavesKeeps
  <1> QED BY <1>2, <1>4, <1>5

LEMMA TurnInvKept == TurnInv /\ [Tu!TurnNext]_turnVars => TurnInv'
  <1> SUFFICES ASSUME TurnInv, [Tu!TurnNext]_turnVars PROVE TurnInv'
    OBVIOUS
  <1>1. TurnTypes
    BY DEF TurnInv
  <1>2. ASSUME NEW p \in Peers, Tu!SocketSends(p) PROVE TurnInv'
    BY <1>2, SocketSendsKeeps
  <1>3. ASSUME NEW p \in Peers, Tu!Binds(p) PROVE TurnInv'
    BY <1>3, BindsKeeps
  <1>4. CASE Tu!ReadsPermitted
    BY <1>4, ReadsPermittedKeeps
  <1>5. CASE Tu!ReadsBound
    BY <1>5, ReadsBoundKeeps
  <1>6. CASE Tu!on_channel_bind
    BY <1>6, OnChannelBindKeeps
  <1>7. CASE Tu!on_send \/ Tu!on_channel_data
    BY <1>7, OnSendKeeps
  <1>8. CASE \/ Tu!ReadsChallenge \/ Tu!ReadsAllocated \/ Tu!ReadsRefusal \/ Tu!ReadsForbidden
             \/ Tu!ReadsData \/ Tu!DriverEnds \/ Tu!on_allocate \/ Tu!CreatePermission
             \/ Tu!SessionEnds \/ \E p \in Peers : Tu!RelayReads(p)
    <2>1. TurnTypes' /\ Aside
      BY <1>1, <1>8, AsideSteps
    <2>2. ChannelsAreOfPeers' /\ FramesAreGood' /\ PeersAreServed'
      BY <2>1, AsideKeeps
    <2> QED BY <2>1, <2>2 DEF TurnInv
  <1>9. CASE UNCHANGED turnVars
    BY <1>9 DEF turnVars, TurnInv, TurnTypes, ChannelsAreOfPeers, FramesAreGood, PeersAreServed
  <1> QED BY <1>2, <1>3, <1>4, <1>5, <1>6, <1>7, <1>8, <1>9 DEF Tu!TurnNext

LEMMA TurnInvGivesBurst == TurnInv => Tu!TheBurstArrives
  <1> SUFFICES ASSUME TurnInv, NEW p \in driver.permitted
               PROVE  /\ Tu!InOrder(p)
                      /\ \E first \in 1..pushed[p] + 1 :
                            /\ Tu!Sent(p) = first..pushed[p]
                            /\ first = 1 \/ pushed[p] - first + 1 >= MaxQueued
    BY DEF Tu!TheBurstArrives
  <1>1. Latest(left[p], toRelay, Way(toRelay, driver.binding, p), pushed[p])
    BY DEF TurnInv, TurnTypes, PeersAreServed, Drivers
  <1>2. Tu!OnTheWay(p) = Way(toRelay, driver.binding, p)
    BY DEF Tu!OnTheWay, Way, Carries
  <1> QED BY <1>1, <1>2 DEF Latest, Tu!InOrder, Tu!Sent

\* Once the relay permits a peer, the latest datagrams for it arrive, in order and
\* without a gap: turn_tcp.rs's queue.
THEOREM TheLatestArrive == Spec => []TheBurstArrives
  <1>1. TurnInv => TheBurstArrives
    BY TurnInvGivesBurst DEF TheBurstArrives
  <1> QED BY <1>1, TurnIsAPart, TurnInitInv, TurnInvKept, PTL

-----------------------------------------------------------------------------
(* Signaling: every wallet is offered the session *)

\* A behaviour of the parts is one of the introduction.
LEMMA SignalingIsAPart == Spec => Si!SignalingInit /\ [][Si!SignalingNext]_signalingVars
  <1>1. Init => Si!SignalingInit
    BY DEF Init
  <1>2. [Next]_vars => [Si!SignalingNext]_signalingVars
    BY DEF Next, vars
  <1> QED BY <1>1, <1>2, PTL DEF Spec

LEMMA ClientsAreOthers == /\ Si!Extension \notin Wallets /\ Si!Nobody \notin Wallets
                          /\ IsFiniteSet(Wallets)
  <1>1. "extension" \notin Wallets
    BY PartsAssumption
  <1>2. "nobody" \notin Wallets
    BY PartsAssumption
  <1>3. IsFiniteSet(Wallets)
    BY PartsAssumption
  <1> QED BY <1>1, <1>2, <1>3 DEF Si!Extension, Si!Nobody

\* A function of places has the numbers from lo to before hi, in order.
Run(f, lo, hi) == /\ lo <= hi
                  /\ {f[k] : k \in DOMAIN f} = lo..hi - 1
                  /\ \A j, k \in DOMAIN f : j < k => f[j] < f[k]

\* Where the elements of T are in q, and their numbers.
Part(q, T, f) == [k \in {k \in 1..Len(q) : q[k] \in T} |-> f[q[k]]]

LEMMA NothingRuns ==
    ASSUME NEW f, DOMAIN f = {}, NEW lo \in Nat
    PROVE  Run(f, lo, lo)
  <1>1. {f[k] : k \in DOMAIN f} = {} /\ lo..lo - 1 = {}
    OBVIOUS
  <1> QED BY <1>1 DEF Run

\* One more at the end.
LEMMA RunMore ==
    ASSUME NEW f, NEW lo \in Nat, NEW hi \in Nat, Run(f, lo, hi), DOMAIN f \subseteq Nat,
           NEW e \in Nat, \A k \in DOMAIN f : k < e,
           NEW g, DOMAIN g = DOMAIN f \cup {e}, g[e] = hi, \A k \in DOMAIN f : g[k] = f[k]
    PROVE  Run(g, lo, hi + 1)
  <1>1. {g[k] : k \in DOMAIN g} = {f[k] : k \in DOMAIN f} \cup {hi}
    OBVIOUS
  <1>2. lo <= hi /\ {f[k] : k \in DOMAIN f} = lo..hi - 1
    BY DEF Run
  <1>3. (lo..hi - 1) \cup {hi} = lo..(hi + 1) - 1
    BY <1>2
  <1>4. \A k \in DOMAIN f : f[k] \in lo..hi - 1
    BY <1>2
  <1>5. ASSUME NEW j \in DOMAIN g, NEW k \in DOMAIN g, j < k PROVE g[j] < g[k]
    <2>1. CASE k = e
      <3>1. j \in DOMAIN f
        BY <1>5, <2>1
      <3>2. g[j] \in lo..hi - 1 /\ g[k] = hi
        BY <1>4, <2>1, <3>1
      <3> QED BY <3>2
    <2>2. CASE k \in DOMAIN f
      <3>1. j \in DOMAIN f
        BY <1>5, <2>2
      <3> QED BY <1>5, <2>2, <3>1 DEF Run
    <2> QED BY <2>1, <2>2
  <1>6. lo <= hi + 1
    BY <1>2
  <1> QED BY <1>1, <1>2, <1>3, <1>5, <1>6 DEF Run

\* The first place is taken away: it has none of the numbers, ...
Behead(f, g) == /\ DOMAIN f \subseteq Nat \ {0}
                /\ DOMAIN g = {k - 1 : k \in DOMAIN f \ {1}}
                /\ \A k \in DOMAIN g : g[k] = f[k + 1]

LEMMA RunShift ==
    ASSUME NEW f, NEW lo, NEW hi, Run(f, lo, hi), NEW g, Behead(f, g), 1 \notin DOMAIN f
    PROVE  Run(g, lo, hi)
  <1>1. \A k \in DOMAIN g : k \in Nat /\ k + 1 \in DOMAIN f
    BY DEF Behead
  <1>2. \A k \in DOMAIN f : k - 1 \in DOMAIN g /\ g[k - 1] = f[k]
    <2> TAKE k \in DOMAIN f
    <2>1. k - 1 \in DOMAIN g /\ (k - 1) + 1 = k
      BY DEF Behead
    <2> QED BY <2>1 DEF Behead
  <1>3. {g[k] : k \in DOMAIN g} = {f[k] : k \in DOMAIN f}
    BY <1>1, <1>2
  <1>4. ASSUME NEW j \in DOMAIN g, NEW k \in DOMAIN g, j < k PROVE g[j] < g[k]
    <2>1. j + 1 \in DOMAIN f /\ k + 1 \in DOMAIN f /\ j + 1 < k + 1
      BY <1>1, <1>4
    <2> QED BY <2>1 DEF Run, Behead
  <1> QED BY <1>3, <1>4 DEF Run, Behead

\* ... or the first of them.
LEMMA RunFirst ==
    ASSUME NEW f, NEW lo \in Nat, NEW hi \in Nat, Run(f, lo, hi), NEW g,
           Behead(f, g), 1 \in DOMAIN f
    PROVE  f[1] = lo /\ Run(g, lo + 1, hi)
  <1>1. {f[k] : k \in DOMAIN f} = lo..hi - 1
    BY DEF Run
  <1>2. f[1] \in lo..hi - 1
    BY <1>1
  <1>3. \A k \in DOMAIN f \ {1} : f[1] < f[k] /\ f[k] \in lo..hi - 1
    <2> TAKE k \in DOMAIN f \ {1}
    <2>1. 1 < k
      BY DEF Behead
    <2> QED BY <1>1, <2>1 DEF Run
  <1>4. f[1] = lo
    <2>1. lo \in lo..hi - 1
      BY <1>2
    <2>2. PICK k \in DOMAIN f : f[k] = lo
      BY <1>1, <2>1
    <2> QED BY <1>2, <1>3, <2>2
  <1>5. \A k \in DOMAIN g : k \in Nat /\ k + 1 \in DOMAIN f \ {1}
    BY DEF Behead
  <1>6. \A k \in DOMAIN f \ {1} : k - 1 \in DOMAIN g /\ g[k - 1] = f[k]
    <2> TAKE k \in DOMAIN f \ {1}
    <2>1. k - 1 \in DOMAIN g /\ (k - 1) + 1 = k
      BY DEF Behead
    <2> QED BY <2>1 DEF Behead
  <1>7. {g[k] : k \in DOMAIN g} = lo + 1..hi - 1
    <2>1. \A k \in DOMAIN g : g[k] \in lo + 1..hi - 1
      <3> TAKE k \in DOMAIN g
      <3>1. g[k] = f[k + 1] /\ lo < f[k + 1] /\ f[k + 1] \in lo..hi - 1
        BY <1>3, <1>4, <1>5 DEF Behead
      <3> QED BY <3>1
    <2>2. ASSUME NEW x \in lo + 1..hi - 1 PROVE \E k \in DOMAIN g : g[k] = x
      <3>1. x \in lo..hi - 1 /\ x # lo
        OBVIOUS
      <3>2. PICK k \in DOMAIN f : f[k] = x
        BY <1>1, <3>1
      <3>3. k # 1
        BY <1>4, <3>1, <3>2
      <3> QED BY <1>6, <3>2, <3>3
    <2> QED BY <2>1, <2>2
  <1>8. ASSUME NEW j \in DOMAIN g, NEW k \in DOMAIN g, j < k PROVE g[j] < g[k]
    <2>1. j + 1 \in DOMAIN f /\ k + 1 \in DOMAIN f /\ j + 1 < k + 1
      BY <1>5, <1>8
    <2> QED BY <2>1 DEF Run, Behead
  <1>9. lo + 1 <= hi
    BY <1>2
  <1> QED BY <1>4, <1>7, <1>8, <1>9 DEF Run

\* An element is added to q, ...
LEMMA AppendedElement ==
    ASSUME NEW S, NEW q \in Seq(S), NEW m \in S
    PROVE  /\ 1..Len(Append(q, m)) = (1..Len(q)) \cup {Len(q) + 1}
           /\ Len(q) \in Nat /\ Len(q) + 1 \notin 1..Len(q)
           /\ \A k \in 1..Len(q) : Append(q, m)[k] = q[k]
           /\ Append(q, m)[Len(q) + 1] = m
  <1>1. Len(Append(q, m)) = Len(q) + 1 /\ Len(q) \in Nat
    BY AppendProperties, LenProperties
  <1> QED BY <1>1, AppendProperties

LEMMA PartMore ==
    ASSUME NEW S, NEW q \in Seq(S), NEW m \in S, NEW T, m \in T, NEW f,
           NEW lo \in Nat, NEW hi \in Nat, Run(Part(q, T, f), lo, hi), f[m] = hi
    PROVE  Run(Part(Append(q, m), T, f), lo, hi + 1)
  <1> DEFINE r == Append(q, m)
             p == Part(q, T, f)
             g == Part(r, T, f)
             e == Len(q) + 1
  <1>1. /\ 1..Len(r) = (1..Len(q)) \cup {e} /\ Len(q) \in Nat /\ e \notin 1..Len(q)
        /\ \A k \in 1..Len(q) : r[k] = q[k]
        /\ r[e] = m
    BY AppendedElement
  <1> HIDE DEF r
  <1>2. /\ DOMAIN p \subseteq Nat /\ e \in Nat /\ \A k \in DOMAIN p : k < e
    BY <1>1 DEF Part
  <1>3. DOMAIN g = DOMAIN p \cup {e}
    BY <1>1 DEF Part
  <1>4. g[e] = hi /\ \A k \in DOMAIN p : g[k] = p[k]
    BY <1>1 DEF Part
  <1>5. Run(p, lo, hi)
    OBVIOUS
  <1> HIDE DEF p, g, e
  <1>6. Run(g, lo, hi + 1)
    BY <1>2, <1>3, <1>4, <1>5, RunMore
  <1> QED BY <1>6 DEF g, r

LEMMA PartElse ==
    ASSUME NEW S, NEW q \in Seq(S), NEW m \in S, NEW T, m \notin T, NEW f
    PROVE  Part(Append(q, m), T, f) = Part(q, T, f)
  <1> DEFINE r == Append(q, m)
  <1>1. /\ 1..Len(r) = (1..Len(q)) \cup {Len(q) + 1}
        /\ \A k \in 1..Len(q) : r[k] = q[k]
        /\ r[Len(q) + 1] = m
    BY AppendedElement
  <1> HIDE DEF r
  <1>2. {k \in 1..Len(r) : r[k] \in T} = {k \in 1..Len(q) : q[k] \in T}
    BY <1>1
  <1>3. \A k \in {k \in 1..Len(q) : q[k] \in T} : f[r[k]] = f[q[k]]
    BY <1>1
  <1>4. Part(r, T, f) = Part(q, T, f)
    BY <1>2, <1>3 DEF Part
  <1> QED BY <1>4 DEF r

\* ... or some are, none of them of T, ...
LEMMA PartElses ==
    ASSUME NEW S, NEW q \in Seq(S), NEW c \in Seq(S), NEW T, \A k \in 1..Len(c) : c[k] \notin T, NEW f
    PROVE  Part(q \o c, T, f) = Part(q, T, f)
  <1> DEFINE r == q \o c
  <1>1. /\ Len(r) = Len(q) + Len(c) /\ Len(q) \in Nat /\ Len(c) \in Nat
        /\ \A k \in 1..Len(q) + Len(c) : r[k] = IF k <= Len(q) THEN q[k] ELSE c[k - Len(q)]
    BY ConcatProperties, LenProperties
  <1> HIDE DEF r
  <1>2. \A k \in 1..Len(q) : k \in 1..Len(r) /\ r[k] = q[k]
    BY <1>1
  <1>3. \A k \in 1..Len(r) : k \in 1..Len(q) \/ r[k] \notin T
    <2> SUFFICES ASSUME NEW k \in 1..Len(r), k \notin 1..Len(q) PROVE r[k] \notin T
      OBVIOUS
    <2>1. k - Len(q) \in 1..Len(c) /\ r[k] = c[k - Len(q)]
      BY <1>1
    <2> QED BY <2>1
  <1>4. {k \in 1..Len(r) : r[k] \in T} = {k \in 1..Len(q) : q[k] \in T}
    BY <1>2, <1>3
  <1>5. \A k \in {k \in 1..Len(q) : q[k] \in T} : f[r[k]] = f[q[k]]
    BY <1>2
  <1>6. Part(r, T, f) = Part(q, T, f)
    BY <1>4, <1>5 DEF Part
  <1> QED BY <1>6 DEF r

\* ... or its first is taken away: another one, or one of T.
LEMMA TakenElement ==
    ASSUME NEW S, NEW q \in Seq(S), q # <<>>
    PROVE  /\ Tail(q) \in Seq(S) /\ Head(q) \in S /\ Head(q) = q[1] /\ 1 \in 1..Len(q)
           /\ Len(q) \in Nat /\ 1..Len(Tail(q)) = {k - 1 : k \in (1..Len(q)) \ {1}}
           /\ \A k \in 1..Len(Tail(q)) : k + 1 \in 1..Len(q) /\ Tail(q)[k] = q[k + 1]
  <1>1. /\ Len(Tail(q)) = Len(q) - 1 /\ Len(q) \in Nat /\ Len(q) > 0
        /\ \A k \in 1..Len(Tail(q)) : Tail(q)[k] = q[k + 1]
    BY HeadTailProperties, EmptySeq, LenProperties
  <1>2. \A k \in 1..Len(Tail(q)) : k + 1 \in (1..Len(q)) \ {1} /\ (k + 1) - 1 = k
    BY <1>1
  <1>3. \A k \in (1..Len(q)) \ {1} : k - 1 \in 1..Len(Tail(q))
    BY <1>1
  <1>4. 1..Len(Tail(q)) = {k - 1 : k \in (1..Len(q)) \ {1}}
    BY <1>2, <1>3
  <1> QED BY <1>1, <1>2, <1>4, HeadTailProperties

LEMMA PartOfTail ==
    ASSUME NEW S, NEW q \in Seq(S), q # <<>>, NEW T, NEW f
    PROVE  /\ Behead(Part(q, T, f), Part(Tail(q), T, f))
           /\ 1 \in DOMAIN Part(q, T, f) <=> Head(q) \in T
           /\ Head(q) \in T => Part(q, T, f)[1] = f[Head(q)]
  <1> DEFINE t == Tail(q)
             p == Part(q, T, f)
             g == Part(t, T, f)
  <1>1. /\ Head(q) = q[1] /\ 1 \in 1..Len(q) /\ Len(q) \in Nat
        /\ 1..Len(t) = {k - 1 : k \in (1..Len(q)) \ {1}}
        /\ \A k \in 1..Len(t) : k + 1 \in 1..Len(q) /\ t[k] = q[k + 1]
    BY TakenElement
  <1> HIDE DEF t
  <1>2. /\ DOMAIN p = {k \in 1..Len(q) : q[k] \in T} /\ DOMAIN g = {k \in 1..Len(t) : t[k] \in T}
        /\ \A k \in DOMAIN p : p[k] = f[q[k]]
        /\ \A k \in DOMAIN g : g[k] = f[t[k]]
    BY DEF Part
  <1> HIDE DEF p, g
  <1>3. DOMAIN p \subseteq Nat \ {0}
    BY <1>1, <1>2
  <1>4. \A k \in DOMAIN g : k + 1 \in DOMAIN p \ {1} /\ (k + 1) - 1 = k /\ g[k] = p[k + 1]
    <2> TAKE k \in DOMAIN g
    <2>1. k \in 1..Len(t) /\ t[k] \in T /\ g[k] = f[t[k]]
      BY <1>2
    <2>2. k + 1 \in 1..Len(q) /\ t[k] = q[k + 1] /\ k \in Nat /\ k > 0
      <3>1. k + 1 \in 1..Len(q) /\ t[k] = q[k + 1]
        BY <1>1, <2>1
      <3>2. PICK j \in (1..Len(q)) \ {1} : k = j - 1
        BY <1>1, <2>1
      <3> QED BY <1>1, <3>1, <3>2
    <2>3. k + 1 \in DOMAIN p
      BY <1>2, <2>1, <2>2
    <2>4. p[k + 1] = f[q[k + 1]]
      BY <1>2, <2>3
    <2> QED BY <2>1, <2>2, <2>3, <2>4
  <1>5. \A k \in DOMAIN p \ {1} : k - 1 \in DOMAIN g
    <2> TAKE k \in DOMAIN p \ {1}
    <2>1. k \in (1..Len(q)) \ {1} /\ q[k] \in T
      BY <1>2
    <2>2. k - 1 \in 1..Len(t)
      BY <1>1, <2>1
    <2>3. t[k - 1] = q[k]
      <3>1. (k - 1) + 1 = k
        BY <1>1, <2>1
      <3> QED BY <1>1, <2>2, <3>1
    <2> QED BY <1>2, <2>1, <2>2, <2>3
  <1>6. DOMAIN g = {k - 1 : k \in DOMAIN p \ {1}}
    <2>1. DOMAIN g \subseteq {k - 1 : k \in DOMAIN p \ {1}}
      <3> SUFFICES ASSUME NEW k \in DOMAIN g PROVE \E j \in DOMAIN p \ {1} : k = j - 1
        OBVIOUS
      <3>1. k + 1 \in DOMAIN p \ {1} /\ k = (k + 1) - 1
        BY <1>4
      <3> QED BY <3>1
    <2>2. {k - 1 : k \in DOMAIN p \ {1}} \subseteq DOMAIN g
      BY <1>5
    <2> QED BY <2>1, <2>2
  <1>7. Behead(p, g)
    BY <1>3, <1>4, <1>5, <1>6 DEF Behead
  <1>8. 1 \in DOMAIN p <=> Head(q) \in T
    BY <1>1, <1>2
  <1>9. Head(q) \in T => p[1] = f[Head(q)]
    BY <1>1, <1>2
  <1> QED BY <1>7, <1>8, <1>9 DEF p, g, t

LEMMA PartShift ==
    ASSUME NEW S, NEW q \in Seq(S), q # <<>>, NEW T, Head(q) \notin T, NEW f,
           NEW lo, NEW hi, Run(Part(q, T, f), lo, hi)
    PROVE  Run(Part(Tail(q), T, f), lo, hi)
  <1> DEFINE p == Part(q, T, f)
             g == Part(Tail(q), T, f)
  <1>1. Behead(p, g) /\ 1 \notin DOMAIN p
    BY PartOfTail
  <1>2. Run(p, lo, hi)
    OBVIOUS
  <1> HIDE DEF p, g
  <1>3. Run(g, lo, hi)
    BY <1>1, <1>2, RunShift
  <1> QED BY <1>3 DEF g

LEMMA PartFirst ==
    ASSUME NEW S, NEW q \in Seq(S), q # <<>>, NEW T, Head(q) \in T, NEW f,
           NEW lo \in Nat, NEW hi \in Nat, Run(Part(q, T, f), lo, hi)
    PROVE  f[Head(q)] = lo /\ Run(Part(Tail(q), T, f), lo + 1, hi)
  <1> DEFINE p == Part(q, T, f)
             g == Part(Tail(q), T, f)
  <1>1. Behead(p, g) /\ 1 \in DOMAIN p /\ p[1] = f[Head(q)]
    BY PartOfTail
  <1>2. Run(p, lo, hi)
    OBVIOUS
  <1> HIDE DEF p, g
  <1>3. p[1] = lo /\ Run(g, lo + 1, hi)
    BY <1>1, <1>2, RunFirst
  <1> QED BY <1>1, <1>3 DEF g

\* An order of a finite set has each of its members once.
LEMMA OrderOf ==
    ASSUME NEW S, IsFiniteSet(S), NEW o \in Si!SetToSeqs(S)
    PROVE  /\ o \in Seq(S)
           /\ \A j, k \in 1..Len(o) : o[j] = o[k] => j = k
           /\ \A s \in S : \E k \in 1..Len(o) : o[k] = s
  <1> DEFINE n == Cardinality(S)
  <1>1. n \in Nat
    BY FS_CardinalityType
  <1>2. /\ o \in [1..n -> S] /\ \A i, j \in 1..n : i # j => o[i] # o[j]
    BY DEF Si!SetToSeqs, Si!Cardinality, Cardinality
  <1>3. Cardinality(1..n) = n
    <2>1. Cardinality(1..n) = IF 1 > n THEN 0 ELSE n - 1 + 1
      BY <1>1, FS_Interval
    <2> HIDE DEF n
    <2> QED BY <1>1, <2>1
  <1>4. o \in Injection(1..n, S)
    BY <1>2 DEF Injection, IsInjective
  <1>5. o \in Surjection(1..n, S)
    BY <1>3, <1>4, FS_Injection
  <1> HIDE DEF n
  <1>6. o \in Seq(S) /\ Len(o) = n
    BY <1>1, <1>2
  <1> QED BY <1>2, <1>5, <1>6 DEF Surjection

(* What holds of every state *)

SiEvents == [is : {"connected", "disconnected", "answer", "candidate"}, of : Si!Clients]
            \cup [is : {"data"}, of : Nat]
SiOuts == [to : Wallets, what : Nat]
Negotiations == [at : {"none", "negotiating", "open", "failed"}, target : Wallets \cup {Si!Nobody},
                 offered : BOOLEAN, sent : Nat, remote : Si!Clients \cup Nat \cup {Si!Nobody},
                 pending : Nat, added : Nat]
WalletEnds == [at : {"away", "there", "gone"}, answered : BOOLEAN, says : Nat, got : Seq(Nat)]

SignalingTypes == /\ inroom \subseteq Si!Clients /\ box \in [Si!Clients -> Seq(SiEvents)]
                  /\ out \in Seq(SiOuts) /\ negotiation \in Negotiations
                  /\ wallets \in [Wallets -> WalletEnds]

\* The three places of what was sent to a wallet are got, and:
Data == {m \in SiEvents : m.is = "data"}
DataOf == [m \in Data |-> m.of]
Inside(b) == Part(b, Data, DataOf)
ToWallet(w) == {m \in SiOuts : m.to = w}
WhatOf == [m \in SiOuts |-> m.what]
Coming(o, w) == Part(o, ToWallet(w), WhatOf)

Announces(b, w) == \E k \in 1..Len(b) : b[k] = Si!Event("connected", w)

\* Nothing was sent to a wallet that was not announced, ...
Fresh(w) == /\ wallets[w].got = <<>> /\ DOMAIN Inside(box[w]) = {} /\ DOMAIN Coming(out, w) = {}
            /\ negotiation.target # w

\* ... and to one that was, the offer and the candidates after it.
Offered(w) ==
    \E a, c \in Nat, l \in 0..negotiation.sent :
      /\ Run(wallets[w].got, 0, a) /\ Run(Inside(box[w]), a, c) /\ Run(Coming(out, w), c, l + 1)
      /\ negotiation.target = w => l = negotiation.sent

SignalingRoom ==
    /\ negotiation.at = "negotiating" <=> Si!Extension \in inroom
    /\ negotiation.at = "none" => box[Si!Extension] = <<>> /\ out = <<>>
    /\ IF negotiation.offered THEN negotiation.target \in Wallets ELSE negotiation.sent = 0
    /\ \A w \in Wallets : w \in inroom <=> wallets[w].at = "there"

\* A wallet is announced once.
Announcements(b) ==
    /\ \A k \in 1..Len(b) : b[k].is = "connected" => b[k].of \in Wallets
    /\ \A j, k \in 1..Len(b) : b[j].is = "connected" /\ b[j] = b[k] => j = k

WalletIsServed(w) ==
    /\ wallets[w].at = "away" => ~Announces(box[Si!Extension], w)
    /\ negotiation.at = "none" \/ wallets[w].at = "away" \/ Announces(box[Si!Extension], w) => Fresh(w)
    /\ /\ negotiation.at = "negotiating" /\ wallets[w].at = "there"
       /\ ~Announces(box[Si!Extension], w)
       => Offered(w)

NegotiationIsOn == negotiation.at \in {"none", "negotiating"}

SignalingInv == NegotiationIsOn =>
    /\ SignalingTypes /\ SignalingRoom /\ Announcements(box[Si!Extension])
    /\ \A w \in Wallets : WalletIsServed(w)

LEMMA SignalingInitInv == Si!SignalingInit => SignalingInv
  <1> SUFFICES ASSUME Si!SignalingInit PROVE SignalingInv
    OBVIOUS
  <1> USE DEF Si!SignalingInit
  <1>1. Si!Clients = Wallets \cup {Si!Extension} /\ Si!Extension \notin Wallets
    BY ClientsAreOthers DEF Si!Clients
  <1>2. /\ \A c \in Si!Clients : box[c] = <<>>
        /\ box \in [Si!Clients -> Seq(SiEvents)] /\ out \in Seq(SiOuts)
    OBVIOUS
  <1>3. negotiation \in Negotiations
    BY DEF Negotiations
  <1>4. wallets \in [Wallets -> WalletEnds]
    BY DEF WalletEnds
  <1>5. SignalingTypes
    BY <1>2, <1>3, <1>4 DEF SignalingTypes
  <1>6. SignalingRoom /\ Announcements(box[Si!Extension])
    BY <1>1, <1>2 DEF SignalingRoom, Announcements
  <1>7. ASSUME NEW w \in Wallets PROVE WalletIsServed(w)
    <2>1. DOMAIN Inside(<<>>) = {} /\ DOMAIN Coming(<<>>, w) = {}
      BY DEF Inside, Coming, Part
    <2>2. box[w] = <<>> /\ box[Si!Extension] = <<>> /\ out = <<>> /\ negotiation.target # w
          /\ negotiation.at = "none" /\ wallets[w].got = <<>>
      BY <1>1, <1>2, ClientsAreOthers
    <2>3. ~Announces(<<>>, w)
      BY DEF Announces
    <2> HIDE DEF Si!SignalingInit
    <2> QED BY <2>1, <2>2, <2>3 DEF WalletIsServed, Fresh
  <1> QED BY <1>5, <1>6, <1>7 DEF SignalingInv

(* What a step keeps, of the announcements and of a wallet it leaves alone *)

\* One more event for the extension, or one less.
LEMMA AnnouncedMore ==
    ASSUME NEW S, NEW b \in Seq(S), NEW m \in S, Announcements(b),
           m.is = "connected" => m.of \in Wallets /\ \A k \in 1..Len(b) : b[k] # m
    PROVE  /\ Announcements(Append(b, m))
           /\ \A w : Announces(Append(b, m), w) <=> Announces(b, w) \/ m = Si!Event("connected", w)
  <1> DEFINE r == Append(b, m)
  <1>1. /\ 1..Len(r) = (1..Len(b)) \cup {Len(b) + 1}
        /\ \A k \in 1..Len(b) : r[k] = b[k]
        /\ r[Len(b) + 1] = m
    BY AppendedElement
  <1> HIDE DEF r
  <1>2. Announcements(r)
    BY <1>1 DEF Announcements
  <1>3. \A w : Announces(r, w) <=> Announces(b, w) \/ m = Si!Event("connected", w)
    BY <1>1 DEF Announces
  <1> QED BY <1>2, <1>3 DEF r

LEMMA AnnouncedLess ==
    ASSUME NEW S, NEW b \in Seq(S), b # <<>>, Announcements(b)
    PROVE  /\ Announcements(Tail(b))
           /\ \A w : Announces(Tail(b), w) <=> Announces(b, w) /\ Head(b) # Si!Event("connected", w)
  <1> DEFINE t == Tail(b)
  <1>1. /\ Head(b) = b[1] /\ 1 \in 1..Len(b) /\ Len(b) \in Nat
        /\ 1..Len(t) = {k - 1 : k \in (1..Len(b)) \ {1}}
        /\ \A k \in 1..Len(t) : k + 1 \in 1..Len(b) /\ t[k] = b[k + 1]
    BY TakenElement
  <1> HIDE DEF t
  <1>2. \A k \in 1..Len(t) : k \in Nat /\ k + 1 # 1
    BY <1>1
  <1>3. Announcements(t)
    <2>1. \A k \in 1..Len(t) : t[k].is = "connected" => t[k].of \in Wallets
      BY <1>1 DEF Announcements
    <2>2. ASSUME NEW j \in 1..Len(t), NEW k \in 1..Len(t), t[j].is = "connected", t[j] = t[k]
          PROVE  j = k
      <3>1. /\ j + 1 \in 1..Len(b) /\ k + 1 \in 1..Len(b) /\ j \in Nat /\ k \in Nat
            /\ b[j + 1].is = "connected" /\ b[j + 1] = b[k + 1]
        BY <1>1, <1>2, <2>2
      <3>2. j + 1 = k + 1
        BY <3>1 DEF Announcements
      <3> QED BY <3>1, <3>2
    <2> QED BY <2>1, <2>2 DEF Announcements
  <1>4. ASSUME NEW w PROVE Announces(t, w) <=> Announces(b, w) /\ Head(b) # Si!Event("connected", w)
    <2> DEFINE e == Si!Event("connected", w)
    <2>1. e.is = "connected"
      BY DEF Si!Event
    <2> HIDE DEF e
    <2>2. ASSUME NEW k \in 1..Len(t), t[k] = e PROVE Announces(b, w) /\ Head(b) # e
      <3>1. k + 1 \in 1..Len(b) /\ b[k + 1] = e /\ k + 1 # 1
        BY <1>1, <1>2, <2>2
      <3>2. b[1] # e
        BY <1>1, <2>1, <3>1 DEF Announcements
      <3> QED BY <1>1, <3>1, <3>2 DEF Announces, e
    <2>3. ASSUME NEW k \in 1..Len(b), b[k] = e, Head(b) # e PROVE Announces(t, w)
      <3>1. k # 1
        BY <1>1, <2>3
      <3>2. k - 1 \in 1..Len(t) /\ (k - 1) + 1 = k
        <4>1. k \in (1..Len(b)) \ {1}
          BY <1>1, <3>1
        <4>2. k - 1 \in {i - 1 : i \in (1..Len(b)) \ {1}}
          BY <4>1
        <4>3. k \in Nat
          BY <1>1
        <4>4. 1..Len(t) = {i - 1 : i \in (1..Len(b)) \ {1}}
          BY <1>1
        <4>5. k - 1 \in 1..Len(t)
          BY <4>2, <4>4
        <4>6. (k - 1) + 1 = k
          BY <4>3
        <4> QED BY <4>5, <4>6
      <3>3. t[k - 1] = e
        BY <1>1, <2>3, <3>2
      <3> QED BY <3>2, <3>3 DEF Announces, e
    <2> QED BY <2>2, <2>3 DEF Announces, e
  <1> QED BY <1>3, <1>4 DEF t

LEMMA ServedStill ==
    ASSUME NEW w \in Wallets, WalletIsServed(w),
           negotiation'.at = negotiation.at, negotiation'.target = negotiation.target,
           negotiation'.sent = negotiation.sent,
           wallets'[w].at = wallets[w].at, wallets'[w].got = wallets[w].got,
           Inside(box'[w]) = Inside(box[w]), Coming(out', w) = Coming(out, w),
           Announces(box'[Si!Extension], w) <=> Announces(box[Si!Extension], w)
    PROVE  WalletIsServed(w)'
  <1>1. Fresh(w) => Fresh(w)'
    BY DEF Fresh
  <1>2. Offered(w) => Offered(w)'
    BY DEF Offered
  <1> QED BY <1>1, <1>2 DEF WalletIsServed

LEMMA BoxesHoldEvents ==
    ASSUME SignalingTypes
    PROVE  /\ Si!Clients = Wallets \cup {Si!Extension}
           /\ \A c \in Si!Clients : box[c] \in Seq(SiEvents)
           /\ box[Si!Extension] \in Seq(SiEvents)
           /\ \A w \in Wallets : w # Si!Extension /\ box[w] \in Seq(SiEvents)
  BY ClientsAreOthers DEF SignalingTypes, Si!Clients

LEMMA SiEventFacts ==
    ASSUME NEW m \in SiEvents
    PROVE  /\ m.is \in {"connected", "disconnected", "answer", "candidate", "data"}
           /\ m.is # "data" => m.of \in Si!Clients
           /\ m.is = "data" => m.of \in Nat /\ m \in Data /\ DataOf[m] = m.of
           /\ m \in Data => m.is = "data"
  BY DEF SiEvents, Data, DataOf

\* TellAll tells each of the clients, and nobody else.
LEMMA AllAreTold ==
    ASSUME NEW b \in [Si!Clients -> Seq(SiEvents)], NEW clients, NEW m \in SiEvents
    PROVE  /\ Si!TellAll(b, clients, m) \in [Si!Clients -> Seq(SiEvents)]
           /\ \A c \in Si!Clients : Si!TellAll(b, clients, m)[c] =
                                      IF c \in clients THEN Append(b[c], m) ELSE b[c]
  <1>1. \A c \in Si!Clients : Append(b[c], m) \in Seq(SiEvents)
    BY AppendProperties
  <1> QED BY <1>1 DEF Si!TellAll

\* The answers, the candidates of a wallet, and whoever leaves: to the extension only.
LEMMA ReadsElseKeeps ==
    ASSUME SignalingTypes, SignalingRoom, Announcements(box[Si!Extension]),
           \A w \in Wallets : WalletIsServed(w),
           Si!Answered \/ Si!RemoteCandidate \/ Si!WalletDisconnected
    PROVE  SignalingInv'
  <1> DEFINE q == box[Si!Extension]
  <1>1. /\ q # <<>> /\ Head(q).is \in {"answer", "candidate", "disconnected"}
        /\ box' = [box EXCEPT ![Si!Extension] = Tail(q)]
        /\ UNCHANGED <<inroom, wallets, out>>
    BY DEF Si!Answered, Si!RemoteCandidate, Si!WalletDisconnected, Si!Reads
  <1>2. /\ box \in [Si!Clients -> Seq(SiEvents)] /\ q \in Seq(SiEvents)
        /\ Si!Extension \in Si!Clients /\ negotiation \in Negotiations
    BY BoxesHoldEvents DEF SignalingTypes, Si!Clients
  <1>3. Tail(q) \in Seq(SiEvents) /\ Head(q) \in SiEvents
    BY <1>1, <1>2, TakenElement
  <1>4. /\ box' \in [Si!Clients -> Seq(SiEvents)] /\ box'[Si!Extension] = Tail(q)
        /\ \A w \in Wallets : box'[w] = box[w]
    BY <1>1, <1>2, <1>3, BoxesHoldEvents
  <1>5. Head(q).of \in Si!Clients
    BY <1>1, <1>3, SiEventFacts
  <1>6. /\ negotiation' \in Negotiations /\ negotiation'.at = negotiation.at
        /\ negotiation'.target = negotiation.target /\ negotiation'.sent = negotiation.sent
        /\ negotiation'.offered = negotiation.offered
    <2>0. negotiation.pending \in Nat /\ negotiation.added \in Nat
      BY <1>2 DEF Negotiations
    <2>1. CASE Si!Answered
      <3>1. CASE negotiation.remote # Si!Nobody
        BY <1>2, <2>1, <3>1 DEF Si!Answered
      <3>2. CASE negotiation.remote = Si!Nobody
        <4>1. PICK w \in Si!Clients :
                negotiation' = [negotiation EXCEPT !.remote = w, !.pending = 0,
                                                   !.added = @ + negotiation.pending]
          BY <1>5, <2>1, <3>2 DEF Si!Answered
        <4>2. negotiation.added + negotiation.pending \in Nat
          BY <2>0
        <4> QED BY <1>2, <4>1, <4>2 DEF Negotiations
      <3> QED BY <3>1, <3>2
    <2>2. CASE Si!RemoteCandidate
      <3>1. negotiation.pending + 1 \in Nat /\ negotiation.added + 1 \in Nat
        BY <2>0
      <3>2. \/ negotiation' = [negotiation EXCEPT !.pending = @ + 1]
            \/ negotiation' = [negotiation EXCEPT !.added = @ + 1]
        BY <2>2 DEF Si!RemoteCandidate
      <3> QED BY <1>2, <3>1, <3>2 DEF Negotiations
    <2>3. CASE Si!WalletDisconnected
      BY <1>2, <2>3 DEF Si!WalletDisconnected
    <2> QED BY <2>1, <2>2, <2>3
  <1>7. SignalingTypes'
    BY <1>1, <1>4, <1>6 DEF SignalingTypes
  <1>8. SignalingRoom'
    BY <1>1, <1>4, <1>6 DEF SignalingRoom
  <1>9. Announcements(Tail(q)) /\ \A w : Announces(Tail(q), w) <=> Announces(q, w) /\ Head(q) # Si!Event("connected", w)
    BY <1>1, <1>2, AnnouncedLess
  <1>10. \A w : Head(q) # Si!Event("connected", w)
    BY <1>1 DEF Si!Event
  <1>11. ASSUME NEW w \in Wallets PROVE WalletIsServed(w)'
    <2>1. Announces(box'[Si!Extension], w) <=> Announces(box[Si!Extension], w)
      BY <1>4, <1>9, <1>10
    <2>2. WalletIsServed(w)
      OBVIOUS
    <2> QED BY <1>1, <1>4, <1>6, <2>1, <2>2, ServedStill
  <1>12. Announcements(box[Si!Extension])'
    BY <1>4, <1>9
  <1> QED BY <1>7, <1>8, <1>11, <1>12 DEF SignalingInv

\* A wallet's targets are the extension, when it is there.
Hears(b, base, m) ==
    /\ b \in [Si!Clients -> Seq(SiEvents)]
    /\ b[Si!Extension] = IF Si!Extension \in inroom THEN Append(base[Si!Extension], m)
                        ELSE base[Si!Extension]
    /\ \A v \in Wallets : b[v] = base[v]

LEMMA ExtensionHears ==
    ASSUME NEW base \in [Si!Clients -> Seq(SiEvents)], NEW w \in Wallets, NEW m \in SiEvents
    PROVE  Hears(Si!TellAll(base, Si!Targets(w), m), base, m)
  <1> DEFINE b == Si!TellAll(base, Si!Targets(w), m)
  <1>1. Si!Targets(w) = inroom \cap {Si!Extension}
    BY ClientsAreOthers DEF Si!Targets
  <1>2. /\ b \in [Si!Clients -> Seq(SiEvents)]
        /\ \A c \in Si!Clients : b[c] = IF c \in Si!Targets(w) THEN Append(base[c], m) ELSE base[c]
    BY AllAreTold
  <1> HIDE DEF b
  <1>3. Si!Extension \in Si!Clients /\ \A v \in Wallets : v \in Si!Clients /\ v # Si!Extension
    BY ClientsAreOthers DEF Si!Clients
  <1>4. b[Si!Extension] = IF Si!Extension \in inroom THEN Append(base[Si!Extension], m)
                          ELSE base[Si!Extension]
    BY <1>1, <1>2, <1>3
  <1>5. \A v \in Wallets : b[v] = base[v]
    BY <1>1, <1>2, <1>3
  <1>6. Hears(b, base, m)
    BY <1>2, <1>4, <1>5 DEF Hears
  <1> QED BY <1>6 DEF b

LEMMA WalletSaysKeeps ==
    ASSUME SignalingTypes, SignalingRoom, Announcements(box[Si!Extension]),
           \A v \in Wallets : WalletIsServed(v),
           NEW w \in Wallets, Si!WalletSays(w)
    PROVE  SignalingInv'
  <1> DEFINE q == box[Si!Extension]
             m == Si!Event(IF wallets[w].answered THEN "candidate" ELSE "answer", w)
  <1>1. /\ box' = Si!TellAll(box, Si!Targets(w), m)
        /\ wallets' = [wallets EXCEPT ![w].answered = TRUE, ![w].says = @ + 1]
        /\ UNCHANGED <<inroom, out, negotiation>>
    BY DEF Si!WalletSays
  <1>2. /\ box \in [Si!Clients -> Seq(SiEvents)] /\ q \in Seq(SiEvents)
        /\ Si!Extension \in Si!Clients /\ wallets \in [Wallets -> WalletEnds]
        /\ \A v \in Wallets : v # Si!Extension /\ v \in Si!Clients
    BY BoxesHoldEvents DEF SignalingTypes, Si!Clients
  <1>3. m \in SiEvents /\ m.is # "connected"
    BY <1>2 DEF SiEvents, Si!Event
  <1> HIDE DEF m
  <1>4. /\ box' \in [Si!Clients -> Seq(SiEvents)]
        /\ box'[Si!Extension] = IF Si!Extension \in inroom THEN Append(q, m) ELSE q
        /\ \A v \in Wallets : box'[v] = box[v]
    <2>1. Hears(Si!TellAll(box, Si!Targets(w), m), box, m)
      BY <1>2, <1>3, ExtensionHears
    <2> QED BY <1>1, <2>1 DEF Hears
  <1>5. /\ wallets' \in [Wallets -> WalletEnds]
        /\ \A v \in Wallets : wallets'[v].at = wallets[v].at /\ wallets'[v].got = wallets[v].got
    <2>1. wallets[w].says + 1 \in Nat
      BY <1>2 DEF WalletEnds
    <2> QED BY <1>1, <1>2, <2>1 DEF WalletEnds
  <1>6. SignalingTypes'
    BY <1>1, <1>4, <1>5 DEF SignalingTypes
  <1>7. SignalingRoom'
    <2>1. negotiation.at = "none" => Si!Extension \notin inroom
      BY DEF SignalingRoom
    <2> QED BY <1>1, <1>4, <1>5, <2>1 DEF SignalingRoom
  <1>8. /\ Announcements(Append(q, m))
        /\ \A v : Announces(Append(q, m), v) <=> Announces(q, v) \/ m = Si!Event("connected", v)
    BY <1>2, <1>3, AnnouncedMore
  <1>9. \A v : m # Si!Event("connected", v)
    BY <1>3 DEF Si!Event
  <1>10. Announcements(box[Si!Extension])'
    BY <1>4, <1>8
  <1>11. ASSUME NEW v \in Wallets PROVE WalletIsServed(v)'
    <2>1. Announces(box'[Si!Extension], v) <=> Announces(box[Si!Extension], v)
      BY <1>4, <1>8, <1>9
    <2>2. WalletIsServed(v)
      OBVIOUS
    <2> QED BY <1>1, <1>4, <1>5, <2>1, <2>2, ServedStill
  <1> QED BY <1>6, <1>7, <1>10, <1>11 DEF SignalingInv

LEMMA WalletLeavesKeeps ==
    ASSUME SignalingTypes, SignalingRoom, Announcements(box[Si!Extension]),
           \A v \in Wallets : WalletIsServed(v),
           NEW w \in Wallets, Si!WalletLeaves(w)
    PROVE  SignalingInv'
  <1> DEFINE q == box[Si!Extension]
             m == Si!Event("disconnected", w)
             b == Si!TellAll(box, Si!Targets(w), m)
  <1>1. /\ box' = [b EXCEPT ![w] = <<>>] /\ inroom' = inroom \ {w}
        /\ wallets' = [wallets EXCEPT ![w].at = "gone"]
        /\ UNCHANGED <<out, negotiation>>
    BY DEF Si!WalletLeaves, Si!Leaves
  <1>2. /\ box \in [Si!Clients -> Seq(SiEvents)] /\ q \in Seq(SiEvents)
        /\ Si!Extension \in Si!Clients /\ wallets \in [Wallets -> WalletEnds]
        /\ \A v \in Wallets : v # Si!Extension /\ v \in Si!Clients
    BY BoxesHoldEvents DEF SignalingTypes, Si!Clients
  <1>3. m \in SiEvents /\ m.is # "connected"
    BY <1>2 DEF SiEvents, Si!Event
  <1> HIDE DEF m
  <1>4. /\ b \in [Si!Clients -> Seq(SiEvents)]
        /\ b[Si!Extension] = IF Si!Extension \in inroom THEN Append(q, m) ELSE q
        /\ \A v \in Wallets : b[v] = box[v]
    <2>1. Hears(b, box, m)
      BY <1>2, <1>3, ExtensionHears
    <2> QED BY <2>1 DEF Hears
  <1> HIDE DEF b
  <1>5. /\ box' \in [Si!Clients -> Seq(SiEvents)]
        /\ box'[Si!Extension] = IF Si!Extension \in inroom THEN Append(q, m) ELSE q
        /\ box'[w] = <<>> /\ \A v \in Wallets : v # w => box'[v] = box[v]
    <2>1. box' = [b EXCEPT ![w] = <<>>]
      BY <1>1
    <2>2. <<>> \in Seq(SiEvents) /\ w \in Si!Clients /\ w # Si!Extension
      BY <1>2
    <2>3. box' \in [Si!Clients -> Seq(SiEvents)] /\ box'[w] = <<>>
      BY <1>4, <2>1, <2>2
    <2>4. \A c \in Si!Clients : c # w => box'[c] = b[c]
      BY <1>4, <2>1
    <2> QED BY <1>2, <1>4, <2>2, <2>3, <2>4
  <1>6. /\ wallets' \in [Wallets -> WalletEnds] /\ wallets'[w].at = "gone"
        /\ wallets'[w].got = wallets[w].got
        /\ \A v \in Wallets : v # w => wallets'[v] = wallets[v]
    BY <1>1, <1>2 DEF WalletEnds
  <1>7. SignalingTypes'
    BY <1>1, <1>5, <1>6 DEF SignalingTypes
  <1>8. SignalingRoom'
    <2>1. negotiation.at = "none" => Si!Extension \notin inroom
      BY DEF SignalingRoom
    <2>2. \A v \in Wallets : v \in inroom' <=> wallets'[v].at = "there"
      BY <1>1, <1>6 DEF SignalingRoom
    <2>3. Si!Extension \in inroom' <=> Si!Extension \in inroom
      BY <1>1, <1>2
    <2> QED BY <1>1, <1>5, <2>1, <2>2, <2>3 DEF SignalingRoom
  <1>9. /\ Announcements(Append(q, m))
        /\ \A v : Announces(Append(q, m), v) <=> Announces(q, v) \/ m = Si!Event("connected", v)
    BY <1>2, <1>3, AnnouncedMore
  <1>10. \A v : m # Si!Event("connected", v)
    BY <1>3 DEF Si!Event
  <1>11. Announcements(box[Si!Extension])'
    BY <1>5, <1>9
  <1>12. ASSUME NEW v \in Wallets PROVE WalletIsServed(v)'
    <2>1. Announces(box'[Si!Extension], v) <=> Announces(box[Si!Extension], v)
      BY <1>5, <1>9, <1>10
    <2>2. WalletIsServed(v)
      OBVIOUS
    <2>3. CASE v # w
      BY <1>1, <1>5, <1>6, <2>1, <2>2, <2>3, ServedStill
    <2>4. CASE v = w
      <3>1. DOMAIN Inside(box'[w]) = {}
        BY <1>5 DEF Inside, Part
      <3>2. Fresh(w) => Fresh(w)'
        BY <1>1, <1>6, <3>1 DEF Fresh
      <3> QED BY <1>1, <1>6, <2>1, <2>2, <2>4, <3>2 DEF WalletIsServed
    <2> QED BY <2>3, <2>4
  <1> QED BY <1>7, <1>8, <1>11, <1>12 DEF SignalingInv

LEMMA EventFacts ==
    /\ \A x : Si!Event("connected", x).of = x /\ Si!Event("connected", x).is = "connected"
    /\ \A x, y : Si!Event("connected", x) = Si!Event("connected", y) => x = y
  BY DEF Si!Event

\* The introductions a client is given, one of each of the others.
Greeting(o) == [k \in 1..Len(o) |-> Si!Event("connected", o[k])]

LEMMA GreetingOf ==
    ASSUME NEW S, S \subseteq Si!Clients, NEW o \in Si!SetToSeqs(S)
    PROVE  /\ Greeting(o) \in Seq(SiEvents) /\ o \in Seq(S) /\ Len(Greeting(o)) = Len(o)
           /\ \A k \in 1..Len(o) : o[k] \in S
           /\ \A j, k \in 1..Len(o) : o[j] = o[k] => j = k
           /\ \A s \in S : \E k \in 1..Len(o) : o[k] = s
  <1>1. IsFiniteSet(S)
    <2>1. IsFiniteSet(Wallets)
      BY ClientsAreOthers
    <2>2. IsFiniteSet(Wallets \cup {Si!Extension})
      BY <2>1, FS_AddElement
    <2> QED BY <2>2, FS_Subset DEF Si!Clients
  <1>2. /\ o \in Seq(S) /\ \A j, k \in 1..Len(o) : o[j] = o[k] => j = k
        /\ \A s \in S : \E k \in 1..Len(o) : o[k] = s
    BY <1>1, OrderOf
  <1>3. \A k \in 1..Len(o) : o[k] \in S
    BY <1>2, ElementOfSeq
  <1>4. \A k \in 1..Len(o) : Si!Event("connected", o[k]) \in SiEvents
    BY <1>3 DEF Si!Event, SiEvents
  <1>5. Len(o) \in Nat
    BY <1>2, LenProperties
  <1>6. Greeting(o) \in Seq(SiEvents) /\ Len(Greeting(o)) = Len(o)
    BY <1>4, <1>5 DEF Greeting
  <1> QED BY <1>2, <1>3, <1>6

LEMMA WalletJoinsKeeps ==
    ASSUME SignalingTypes, SignalingRoom, Announcements(box[Si!Extension]),
           \A v \in Wallets : WalletIsServed(v),
           NEW w \in Wallets, Si!WalletJoins(w)
    PROVE  SignalingInv'
  <1> DEFINE q == box[Si!Extension]
             m == Si!Event("connected", w)
  <1>1. /\ wallets[w].at = "away" /\ inroom' = inroom \cup {w}
        /\ wallets' = [wallets EXCEPT ![w].at = "there"]
        /\ UNCHANGED <<out, negotiation>>
    BY DEF Si!WalletJoins, Si!Joins
  <1>2. PICK order \in Si!SetToSeqs(Si!Targets(w)) : box' = Si!Introduced(w, order)
    BY DEF Si!WalletJoins, Si!Joins
  <1> DEFINE g == Greeting(order)
             base == [box EXCEPT ![w] = @ \o g]
  <1>3. /\ box \in [Si!Clients -> Seq(SiEvents)] /\ q \in Seq(SiEvents)
        /\ Si!Extension \in Si!Clients /\ wallets \in [Wallets -> WalletEnds]
        /\ \A v \in Wallets : v # Si!Extension /\ v \in Si!Clients /\ box[v] \in Seq(SiEvents)
    BY BoxesHoldEvents DEF SignalingTypes, Si!Clients
  <1>4. Si!Targets(w) \subseteq Si!Clients
    BY <1>3 DEF Si!Targets
  <1>5. g \in Seq(SiEvents) /\ \A k \in 1..Len(g) : g[k] \notin Data
    <2>1. Greeting(order) \in Seq(SiEvents) /\ Len(Greeting(order)) = Len(order)
      BY <1>4, GreetingOf
    <2>2. \A k \in 1..Len(order) : Greeting(order)[k] = Si!Event("connected", order[k])
      BY DEF Greeting
    <2>3. \A x : Si!Event("connected", x) \notin Data
      BY DEF Si!Event, Data
    <2>4. \A k \in 1..Len(order) : g[k] \notin Data
      BY <2>2, <2>3
    <2> QED BY <2>1, <2>4
  <1>6. box' = Si!TellAll(base, Si!Targets(w), m)
    BY <1>2 DEF Si!Introduced, Greeting
  <1> HIDE DEF g
  <1>7. m \in SiEvents /\ m.is = "connected" /\ m.of = w
    BY <1>3 DEF SiEvents, Si!Event
  <1>8. \A v \in Wallets : m = Si!Event("connected", v) <=> v = w
    BY DEF Si!Event
  <1> HIDE DEF m
  <1>9. /\ base \in [Si!Clients -> Seq(SiEvents)] /\ base[w] = box[w] \o g
        /\ \A c \in Si!Clients : c # w => base[c] = box[c]
    <2>1. box[w] \o g \in Seq(SiEvents)
      BY <1>3, <1>5, ConcatProperties
    <2> QED BY <1>3, <2>1
  <1> HIDE DEF base
  <1>10. /\ box' \in [Si!Clients -> Seq(SiEvents)]
         /\ box'[Si!Extension] = IF Si!Extension \in inroom THEN Append(q, m) ELSE q
         /\ box'[w] = box[w] \o g /\ \A v \in Wallets : v # w => box'[v] = box[v]
    <2>1. Hears(box', base, m)
      BY <1>6, <1>7, <1>9, ExtensionHears
    <2> QED BY <1>3, <1>9, <2>1 DEF Hears
  <1>11. /\ wallets' \in [Wallets -> WalletEnds] /\ wallets'[w].at = "there"
         /\ wallets'[w].got = wallets[w].got
         /\ \A v \in Wallets : v # w => wallets'[v] = wallets[v]
    BY <1>1, <1>3 DEF WalletEnds
  <1>12. SignalingTypes'
    BY <1>1, <1>3, <1>10, <1>11 DEF SignalingTypes
  <1>13. SignalingRoom'
    <2>1. negotiation.at = "none" => Si!Extension \notin inroom
      BY DEF SignalingRoom
    <2>2. \A v \in Wallets : v \in inroom' <=> wallets'[v].at = "there"
      BY <1>1, <1>11 DEF SignalingRoom
    <2>3. Si!Extension \in inroom' <=> Si!Extension \in inroom
      BY <1>1, <1>3
    <2> QED BY <1>1, <1>10, <2>1, <2>2, <2>3 DEF SignalingRoom
  <1>14. ~Announces(q, w) /\ Fresh(w)
    BY <1>1 DEF WalletIsServed
  <1>15. /\ Announcements(Append(q, m))
         /\ \A v : Announces(Append(q, m), v) <=> Announces(q, v) \/ m = Si!Event("connected", v)
    <2>1. \A k \in 1..Len(q) : q[k] # m
      BY <1>8, <1>14 DEF Announces
    <2> QED BY <1>3, <1>7, <2>1, AnnouncedMore
  <1>16. Announcements(box[Si!Extension])'
    BY <1>10, <1>15
  <1>17. ASSUME NEW v \in Wallets PROVE WalletIsServed(v)'
    <2>1. WalletIsServed(v)
      OBVIOUS
    <2>2. CASE v # w
      <3>1. Announces(box'[Si!Extension], v) <=> Announces(box[Si!Extension], v)
        BY <1>8, <1>10, <1>15, <2>2
      <3> QED BY <1>1, <1>10, <1>11, <2>1, <2>2, <3>1, ServedStill
    <2>3. CASE v = w
      <3>1. Inside(box'[w]) = Inside(box[w])
        BY <1>3, <1>5, <1>10, PartElses DEF Inside
      <3>2. Fresh(w)'
        BY <1>1, <1>11, <1>14, <3>1 DEF Fresh
      <3>3. negotiation.at = "negotiating" => Announces(box'[Si!Extension], w)
        <4>1. negotiation.at = "negotiating" => Si!Extension \in inroom
          BY DEF SignalingRoom
        <4> QED BY <1>8, <1>10, <1>15, <4>1
      <3> QED BY <1>1, <1>11, <2>3, <3>2, <3>3 DEF WalletIsServed
    <2> QED BY <2>2, <2>3
  <1> QED BY <1>12, <1>13, <1>16, <1>17 DEF SignalingInv

\* The extension comes: each wallet that is there is announced.
LEMMA ConnectsKeeps ==
    ASSUME SignalingTypes, SignalingRoom, Announcements(box[Si!Extension]),
           \A v \in Wallets : WalletIsServed(v),
           Si!Connects
    PROVE  SignalingInv'
  <1> DEFINE here == Si!Targets(Si!Extension)
             m == Si!Event("connected", Si!Extension)
  <1>1. /\ negotiation.at = "none" /\ inroom' = inroom \cup {Si!Extension}
        /\ negotiation' = [negotiation EXCEPT !.at = "negotiating"]
        /\ UNCHANGED <<out, wallets>>
    BY DEF Si!Connects, Si!Joins
  <1>2. PICK order \in Si!SetToSeqs(here) : box' = Si!Introduced(Si!Extension, order)
    BY DEF Si!Connects, Si!Joins
  <1> DEFINE g == Greeting(order)
             base == [box EXCEPT ![Si!Extension] = @ \o g]
  <1>3. /\ box \in [Si!Clients -> Seq(SiEvents)] /\ box[Si!Extension] = <<>>
        /\ Si!Extension \in Si!Clients /\ negotiation \in Negotiations
        /\ \A v \in Wallets : v # Si!Extension /\ v \in Si!Clients /\ box[v] \in Seq(SiEvents)
    BY <1>1, BoxesHoldEvents DEF SignalingTypes, SignalingRoom, Si!Clients
  <1>4. here \subseteq Si!Clients /\ here = inroom \cap Wallets
    BY DEF Si!Targets, Si!Clients
  <1>5. /\ g \in Seq(SiEvents) /\ order \in Seq(here) /\ Len(g) = Len(order)
        /\ \A k \in 1..Len(order) : order[k] \in here
    BY <1>4, GreetingOf
  <1>6. \A j, k \in 1..Len(order) : order[j] = order[k] => j = k
    BY <1>4, GreetingOf
  <1>7. \A s \in here : \E k \in 1..Len(order) : order[k] = s
    BY <1>4, GreetingOf
  <1>8. \A k \in 1..Len(g) : g[k] = Si!Event("connected", order[k])
    BY <1>5 DEF Greeting
  <1>9. box' = Si!TellAll(base, here, m)
    BY <1>2 DEF Si!Introduced, Greeting
  <1> HIDE DEF g
  <1>10. m \in SiEvents /\ m \notin Data
    BY <1>3 DEF SiEvents, Si!Event, Data
  <1> HIDE DEF m
  <1>11. /\ base \in [Si!Clients -> Seq(SiEvents)] /\ base[Si!Extension] = g
         /\ \A v \in Wallets : base[v] = box[v]
    <2>1. <<>> \o g = g
      BY <1>5, ConcatEmptySeq
    <2> QED BY <1>3, <1>5, <2>1
  <1> HIDE DEF base
  <1>12. /\ box' \in [Si!Clients -> Seq(SiEvents)]
         /\ \A c \in Si!Clients : box'[c] = IF c \in here THEN Append(base[c], m) ELSE base[c]
    BY <1>9, <1>10, <1>11, AllAreTold
  <1> HIDE DEF here
  <1>13. box'[Si!Extension] = g /\ Si!Extension \notin here
    BY <1>3, <1>4, <1>11, <1>12
  <1>14. \A v \in Wallets : box'[v] \in {box[v], Append(box[v], m)}
    BY <1>3, <1>11, <1>12
  <1>15. negotiation' \in Negotiations /\ negotiation'.at = "negotiating"
         /\ negotiation'.target = negotiation.target /\ negotiation'.sent = negotiation.sent
         /\ negotiation'.offered = negotiation.offered
    BY <1>1, <1>3 DEF Negotiations
  <1>16. SignalingTypes'
    <2>1. inroom' \subseteq Si!Clients
      BY <1>1, <1>3 DEF SignalingTypes
    <2> QED BY <1>1, <1>12, <1>15, <2>1 DEF SignalingTypes
  <1>17. SignalingRoom'
    <2>1. \A v \in Wallets : v \in inroom' <=> wallets'[v].at = "there"
      BY <1>1, <1>3 DEF SignalingRoom
    <2> QED BY <1>1, <1>15, <2>1 DEF SignalingRoom
  <1>18. Announcements(g)
    <2>1. \A k \in 1..Len(g) : g[k].of = order[k]
      BY <1>8, EventFacts
    <2>2. \A k \in 1..Len(g) : g[k].of \in Wallets
      <3>1. \A k \in 1..Len(g) : order[k] \in here
        BY <1>5
      <3> QED BY <1>4, <2>1, <3>1
    <2>3. \A j, k \in 1..Len(g) : g[j] = g[k] => j = k
      BY <1>5, <1>6, <2>1
    <2> QED BY <2>2, <2>3 DEF Announcements
  <1>19. \A v : Announces(g, v) <=> v \in here
    <2>1. \A v : \A k \in 1..Len(g) : g[k] = Si!Event("connected", v) <=> order[k] = v
      BY <1>8, EventFacts
    <2> TAKE v
    <2>2. Announces(g, v) => v \in here
      BY <1>5, <2>1 DEF Announces
    <2>3. v \in here => Announces(g, v)
      BY <1>5, <1>7, <2>1 DEF Announces
    <2> QED BY <2>2, <2>3
  <1>20. ASSUME NEW v \in Wallets PROVE WalletIsServed(v)'
    <2>1. WalletIsServed(v)
      OBVIOUS
    <2>2. Fresh(v)
      BY <1>1, <2>1 DEF WalletIsServed
    <2>3. Inside(box'[v]) = Inside(box[v])
      <3>1. Inside(Append(box[v], m)) = Inside(box[v])
        BY <1>3, <1>10, PartElse DEF Inside
      <3> QED BY <1>14, <3>1
    <2>4. Fresh(v)'
      BY <1>1, <1>15, <2>2, <2>3 DEF Fresh
    <2>5. v \in here <=> wallets[v].at = "there"
      BY <1>4 DEF SignalingRoom
    <2>6. Announces(box'[Si!Extension], v) <=> wallets'[v].at = "there"
      BY <1>1, <1>13, <1>19, <2>5
    <2> QED BY <2>4, <2>6 DEF WalletIsServed
  <1> QED BY <1>13, <1>16, <1>17, <1>18, <1>20 DEF SignalingInv

\* A candidate goes to the last wallet seen.
LEMMA LocalCandidateKeeps ==
    ASSUME SignalingTypes, SignalingRoom, Announcements(box[Si!Extension]),
           \A v \in Wallets : WalletIsServed(v),
           Si!LocalCandidate
    PROVE  SignalingInv'
  <1> DEFINE t == negotiation.target
             n == negotiation.sent + 1
             m == [to |-> t, what |-> n]
  <1>1. /\ negotiation.at = "negotiating" /\ negotiation.offered
        /\ negotiation' = [negotiation EXCEPT !.sent = @ + 1]
        /\ UNCHANGED <<inroom, box, wallets>>
    BY DEF Si!LocalCandidate
  <1>2. /\ out \in Seq(SiOuts) /\ negotiation \in Negotiations /\ t \in Wallets
    BY <1>1 DEF SignalingTypes, SignalingRoom
  <1>3. n \in Nat /\ negotiation.sent \in Nat
    BY <1>2 DEF Negotiations
  <1>4. m \in SiOuts /\ WhatOf[m] = n /\ \A v : m \in ToWallet(v) <=> v = t
    BY <1>2, <1>3 DEF SiOuts, WhatOf, ToWallet
  <1>5. out' = Append(out, m)
    <2>1. out' = out \o [k \in 1..1 |-> [to |-> t, what |-> <<n>>[k]]]
      BY DEF Si!LocalCandidate, Si!Sends
    <2>2. [k \in 1..1 |-> [to |-> t, what |-> <<n>>[k]]] = <<m>>
      OBVIOUS
    <2>3. out \o <<m>> = Append(out, m)
      BY <1>2, <1>4
    <2> QED BY <2>1, <2>2, <2>3
  <1> HIDE DEF m
  <1>6. /\ negotiation' \in Negotiations /\ negotiation'.at = negotiation.at
        /\ negotiation'.target = t /\ negotiation'.offered /\ negotiation'.sent = n
    BY <1>1, <1>2, <1>3 DEF Negotiations
  <1>7. SignalingTypes'
    <2>1. Append(out, m) \in Seq(SiOuts)
      BY <1>2, <1>4, AppendProperties
    <2> QED BY <1>1, <1>5, <1>6, <2>1 DEF SignalingTypes
  <1>8. SignalingRoom'
    BY <1>1, <1>2, <1>6 DEF SignalingRoom
  <1>9. ASSUME NEW v \in Wallets, v # t PROVE Coming(out', v) = Coming(out, v)
    <2>1. m \notin ToWallet(v)
      BY <1>4, <1>9
    <2> QED BY <1>2, <1>4, <1>5, <2>1, PartElse DEF Coming
  <1>10. ASSUME NEW v \in Wallets PROVE WalletIsServed(v)'
    <2>1. WalletIsServed(v)
      OBVIOUS
    <2>2. Announces(box'[Si!Extension], v) <=> Announces(box[Si!Extension], v)
      BY <1>1
    <2>3. Fresh(v) => Fresh(v)'
      <3>1. Fresh(v) => v # t
        BY DEF Fresh
      <3> QED BY <1>1, <1>6, <1>9, <3>1 DEF Fresh
    <2>4. Offered(v) => Offered(v)'
      <3> SUFFICES ASSUME Offered(v) PROVE Offered(v)'
        OBVIOUS
      <3>1. PICK a \in Nat, c \in Nat, l \in 0..negotiation.sent :
              /\ Run(wallets[v].got, 0, a) /\ Run(Inside(box[v]), a, c) /\ Run(Coming(out, v), c, l + 1)
              /\ t = v => l = negotiation.sent
        BY DEF Offered
      <3>2. l \in Nat /\ l + 1 \in Nat /\ l \in 0..n
        BY <1>3
      <3>3. CASE v # t
        <4>1. Run(Coming(out', v), c, l + 1)
          BY <1>9, <3>1, <3>3
        <4> QED BY <1>1, <1>6, <3>1, <3>2, <3>3, <4>1 DEF Offered
      <3>4. CASE v = t
        <4>1. l = negotiation.sent /\ m \in ToWallet(v) /\ WhatOf[m] = l + 1
          BY <1>4, <3>1, <3>4
        <4>2. Run(Coming(Append(out, m), v), c, (l + 1) + 1)
          BY <1>2, <1>4, <3>1, <3>2, <4>1, PartMore DEF Coming
        <4>3. Run(Coming(out', v), c, n + 1) /\ n \in 0..n
          BY <1>3, <1>5, <4>1, <4>2
        <4> QED BY <1>1, <1>6, <3>1, <4>3 DEF Offered
      <3> QED BY <3>3, <3>4
    <2> QED BY <1>1, <1>6, <2>1, <2>2, <2>3, <2>4 DEF WalletIsServed
  <1>11. Announcements(box[Si!Extension])'
    BY <1>1
  <1> QED BY <1>7, <1>8, <1>10, <1>11 DEF SignalingInv

\* Elements are added that are all of T, and numbered, and there were none.
LEMMA PartAll ==
    ASSUME NEW S, NEW q \in Seq(S), NEW c \in Seq(S), NEW T, NEW f, DOMAIN Part(q, T, f) = {},
           \A k \in 1..Len(c) : c[k] \in T /\ f[c[k]] = k - 1
    PROVE  Run(Part(q \o c, T, f), 0, Len(c))
  <1> DEFINE r == q \o c
             g == Part(r, T, f)
             n == Len(q)
  <1>1. /\ Len(r) = n + Len(c) /\ n \in Nat /\ Len(c) \in Nat
        /\ \A k \in 1..n + Len(c) : r[k] = IF k <= n THEN q[k] ELSE c[k - n]
    BY ConcatProperties, LenProperties
  <1>2. \A k \in 1..n : q[k] \notin T
    BY DEF Part
  <1> HIDE DEF r, n
  <1>3. \A k \in 1..n : k \in 1..Len(r) /\ r[k] \notin T
    BY <1>1, <1>2
  <1>4. \A k \in n + 1..n + Len(c) : k \in 1..Len(r) /\ r[k] \in T /\ f[r[k]] = k - n - 1
    <2> TAKE k \in n + 1..n + Len(c)
    <2>1. k - n \in 1..Len(c) /\ k \in 1..Len(r) /\ r[k] = c[k - n]
      BY <1>1
    <2>2. c[k - n] \in T /\ f[c[k - n]] = (k - n) - 1
      BY <2>1
    <2> QED BY <2>1, <2>2
  <1>5. 1..Len(r) = (1..n) \cup (n + 1..n + Len(c))
    BY <1>1
  <1>6. DOMAIN g = n + 1..n + Len(c) /\ \A k \in DOMAIN g : g[k] = k - n - 1
    <2>1. {k \in 1..Len(r) : r[k] \in T} = n + 1..n + Len(c)
      BY <1>3, <1>4, <1>5
    <2> QED BY <1>4, <2>1 DEF Part
  <1> HIDE DEF g
  <1>7. {g[k] : k \in DOMAIN g} = 0..Len(c) - 1
    <2>1. \A k \in DOMAIN g : g[k] \in 0..Len(c) - 1
      BY <1>1, <1>6
    <2>2. ASSUME NEW x \in 0..Len(c) - 1 PROVE \E k \in DOMAIN g : g[k] = x
      <3>1. n + 1 + x \in DOMAIN g /\ (n + 1 + x) - n - 1 = x
        BY <1>1, <1>6
      <3> QED BY <1>6, <3>1
    <2> QED BY <2>1, <2>2
  <1>8. \A j, k \in DOMAIN g : j < k => g[j] < g[k]
    BY <1>1, <1>6
  <1>9. Run(g, 0, Len(c))
    BY <1>1, <1>7, <1>8 DEF Run
  <1> QED BY <1>9 DEF g, r

\* A wallet appears: it is sent the offer, and every candidate so far.
LEMMA WalletConnectedKeeps ==
    ASSUME SignalingTypes, SignalingRoom, Announcements(box[Si!Extension]),
           \A v \in Wallets : WalletIsServed(v),
           Si!WalletConnected
    PROVE  SignalingInv'
  <1> DEFINE q == box[Si!Extension]
             w == Head(q).of
             n == negotiation.sent
             whats == IF negotiation.offered THEN Si!Replay ELSE <<Si!Offer>>
             batch == [k \in 1..Len(whats) |-> [to |-> w, what |-> whats[k]]]
  <1>1. /\ q # <<>> /\ Head(q).is = "connected" /\ negotiation.at = "negotiating"
        /\ box' = [box EXCEPT ![Si!Extension] = Tail(q)]
        /\ negotiation' = [negotiation EXCEPT !.target = w, !.offered = TRUE]
        /\ UNCHANGED <<inroom, wallets>>
    BY DEF Si!WalletConnected, Si!Reads
  <1>2. out' = out \o batch
    BY DEF Si!WalletConnected, Si!Sends
  <1>3. /\ box \in [Si!Clients -> Seq(SiEvents)] /\ q \in Seq(SiEvents)
        /\ Si!Extension \in Si!Clients /\ negotiation \in Negotiations /\ n \in Nat
        /\ out \in Seq(SiOuts)
    BY BoxesHoldEvents DEF SignalingTypes, Si!Clients, Negotiations
  <1>4. Head(q) \in SiEvents /\ Head(q) = q[1] /\ 1 \in 1..Len(q) /\ Tail(q) \in Seq(SiEvents)
    BY <1>1, <1>3, TakenElement
  <1>5. w \in Wallets /\ Head(q) = Si!Event("connected", w)
    <2>1. w \in Wallets
      BY <1>1, <1>4 DEF Announcements
    <2>2. \A x \in SiEvents : x.is = "connected" => x = Si!Event("connected", x.of)
      BY DEF SiEvents, Si!Event
    <2> QED BY <1>1, <1>4, <2>1, <2>2
  <1>6. Announces(q, w) /\ Fresh(w)
    <2>1. Announces(q, w)
      BY <1>4, <1>5 DEF Announces
    <2> QED BY <1>5, <2>1 DEF WalletIsServed
  <1>7. Len(whats) = n + 1 /\ \A k \in 1..n + 1 : whats[k] = k - 1
    <2>1. CASE negotiation.offered
      BY <1>3, <2>1 DEF Si!Replay
    <2>2. CASE ~negotiation.offered
      <3>1. n = 0
        BY <2>2 DEF SignalingRoom
      <3> QED BY <2>2, <3>1 DEF Si!Offer
    <2> QED BY <2>1, <2>2
  <1> HIDE DEF whats, w
  <1>8. /\ Len(batch) = n + 1 /\ batch \in Seq(SiOuts)
        /\ \A k \in 1..Len(batch) : batch[k] \in ToWallet(w) /\ WhatOf[batch[k]] = k - 1
        /\ \A k \in 1..Len(batch) : batch[k].to = w
    <2>1. \A k \in 1..n + 1 : /\ [to |-> w, what |-> whats[k]] \in SiOuts
                              /\ [to |-> w, what |-> whats[k]].to = w
                              /\ [to |-> w, what |-> whats[k]].what = k - 1
      BY <1>3, <1>5, <1>7 DEF SiOuts
    <2>2. Len(batch) = n + 1 /\ \A k \in 1..n + 1 : batch[k] = [to |-> w, what |-> whats[k]]
      BY <1>3, <1>7
    <2>3. batch \in Seq(SiOuts)
      <3>1. batch \in [1..n + 1 -> SiOuts] /\ n + 1 \in Nat
        BY <1>3, <1>7, <2>1
      <3> HIDE DEF batch
      <3> QED BY <3>1
    <2> HIDE DEF batch
    <2>4. \A k \in 1..n + 1 : batch[k] \in SiOuts /\ batch[k].to = w /\ batch[k].what = k - 1
      <3> TAKE k \in 1..n + 1
      <3>1. batch[k] = [to |-> w, what |-> whats[k]]
        BY <2>2
      <3> QED BY <2>1, <3>1
    <2> QED BY <2>2, <2>3, <2>4 DEF ToWallet, WhatOf
  <1> HIDE DEF batch
  <1>9. /\ box' \in [Si!Clients -> Seq(SiEvents)] /\ box'[Si!Extension] = Tail(q)
        /\ \A v \in Wallets : box'[v] = box[v]
    BY <1>1, <1>3, <1>4, BoxesHoldEvents
  <1>10. /\ negotiation' \in Negotiations /\ negotiation'.at = "negotiating"
         /\ negotiation'.target = w /\ negotiation'.offered /\ negotiation'.sent = n
    BY <1>1, <1>3, <1>5 DEF Negotiations
  <1>11. SignalingTypes'
    <2>1. out' \in Seq(SiOuts)
      BY <1>2, <1>3, <1>8, ConcatProperties
    <2> QED BY <1>1, <1>9, <1>10, <2>1 DEF SignalingTypes
  <1>12. SignalingRoom'
    BY <1>1, <1>5, <1>10 DEF SignalingRoom
  <1>13. Announcements(Tail(q)) /\ \A v : Announces(Tail(q), v) <=> Announces(q, v) /\ Head(q) # Si!Event("connected", v)
    BY <1>1, <1>3, AnnouncedLess
  <1>14. Run(Coming(out', w), 0, n + 1)
    <2>1. DOMAIN Part(out, ToWallet(w), WhatOf) = {}
      BY <1>6 DEF Fresh, Coming
    <2>2. Run(Part(out \o batch, ToWallet(w), WhatOf), 0, Len(batch))
      BY <1>3, <1>8, <2>1, PartAll
    <2> QED BY <1>2, <1>8, <2>2 DEF Coming
  <1>15. ASSUME NEW v \in Wallets, v # w PROVE Coming(out', v) = Coming(out, v)
    <2>1. \A k \in 1..Len(batch) : batch[k] \notin ToWallet(v)
      BY <1>8, <1>15 DEF ToWallet
    <2> QED BY <1>2, <1>3, <1>8, <2>1, PartElses DEF Coming
  <1>16. ASSUME NEW v \in Wallets PROVE WalletIsServed(v)'
    <2>1. WalletIsServed(v)
      OBVIOUS
    <2>2. Announces(box'[Si!Extension], v) <=> Announces(q, v) /\ v # w
      BY <1>5, <1>9, <1>13, EventFacts
    <2>3. CASE v # w
      <3>1. Fresh(v) => Fresh(v)'
        BY <1>1, <1>9, <1>10, <1>15, <2>3 DEF Fresh
      <3>2. Offered(v) => Offered(v)'
        BY <1>1, <1>9, <1>10, <1>15, <2>3 DEF Offered
      <3> QED BY <1>1, <1>10, <2>1, <2>2, <2>3, <3>1, <3>2 DEF WalletIsServed
    <2>4. CASE v = w
      <3>1. wallets[w].at # "away"
        BY <1>5, <1>6 DEF WalletIsServed
      <3>2. Offered(v)'
        <4>1. Run(wallets'[v].got, 0, 0)
          <5>1. wallets'[v].got = <<>>
            BY <1>1, <1>6, <2>4 DEF Fresh
          <5>2. Run(<<>>, 0, 0)
            <6>1. \A k \in DOMAIN <<>> : FALSE
              OBVIOUS
            <6>2. {<<>>[k] : k \in DOMAIN <<>>} = {} /\ 0..0 - 1 = {}
              BY <6>1
            <6> QED BY <6>1, <6>2 DEF Run
          <5> QED BY <5>1, <5>2
        <4>2. Run(Inside(box'[v]), 0, 0)
          <5>1. DOMAIN Inside(box'[v]) = {}
            BY <1>5, <1>6, <1>9, <2>4 DEF Fresh
          <5> QED BY <5>1, NothingRuns
        <4>3. Run(Coming(out', v), 0, n + 1)
          BY <1>14, <2>4
        <4>4. n \in 0..n /\ 0 \in Nat
          BY <1>3
        <4> QED BY <1>10, <2>4, <4>1, <4>2, <4>3, <4>4 DEF Offered
      <3> QED BY <1>1, <1>10, <2>2, <2>4, <3>1, <3>2 DEF WalletIsServed
    <2> QED BY <2>3, <2>4
  <1>17. Announcements(box[Si!Extension])'
    BY <1>9, <1>13
  <1> QED BY <1>11, <1>12, <1>16, <1>17 DEF SignalingInv

\* A wallet gets the next.
LEMMA GotMore ==
    ASSUME NEW q \in Seq(Nat), NEW a \in Nat, Run(q, 0, a)
    PROVE  Run(Append(q, a), 0, a + 1)
  <1> DEFINE r == Append(q, a)
             e == Len(q) + 1
  <1>1. /\ 1..Len(r) = (1..Len(q)) \cup {e} /\ Len(q) \in Nat /\ e \notin 1..Len(q)
        /\ \A k \in 1..Len(q) : r[k] = q[k]
        /\ r[e] = a
    BY AppendedElement
  <1>2. DOMAIN q = 1..Len(q) /\ DOMAIN r = 1..Len(r)
    BY AppendProperties, LenProperties
  <1> HIDE DEF r
  <1>3. /\ DOMAIN q \subseteq Nat /\ e \in Nat /\ \A k \in DOMAIN q : k < e
    BY <1>1, <1>2
  <1>4. DOMAIN r = DOMAIN q \cup {e}
    BY <1>1, <1>2
  <1> HIDE DEF e
  <1>5. \A k \in DOMAIN q : r[k] = q[k]
    BY <1>1, <1>2
  <1>6. Run(r, 0, a + 1)
    BY <1>1, <1>3, <1>4, <1>5, RunMore
  <1> QED BY <1>6 DEF r

\* The relay hands on what the extension sent.
LEMMA RouteKeeps ==
    ASSUME SignalingTypes, SignalingRoom, Announcements(box[Si!Extension]),
           \A v \in Wallets : WalletIsServed(v),
           Si!route
    PROVE  SignalingInv'
  <1>1. PICK h \in SiOuts :
          /\ out # <<>> /\ h = Head(out) /\ out' = Tail(out)
          /\ box' = IF h.to \in Si!Targets(Si!Extension)
                    THEN [box EXCEPT ![h.to] = Append(@, Si!Event("data", h.what))] ELSE box
          /\ UNCHANGED <<inroom, negotiation, wallets>>
    <2>1. out # <<>> /\ Head(out) \in SiOuts
      BY TakenElement DEF SignalingTypes, Si!route
    <2> QED BY <2>1 DEF Si!route
  <1> DEFINE t == h.to
             m == Si!Event("data", h.what)
  <1>2. /\ box \in [Si!Clients -> Seq(SiEvents)] /\ out \in Seq(SiOuts)
        /\ negotiation \in Negotiations /\ Si!Extension \in Si!Clients
        /\ \A v \in Wallets : v # Si!Extension /\ v \in Si!Clients /\ box[v] \in Seq(SiEvents)
    BY BoxesHoldEvents DEF SignalingTypes, Si!Clients
  <1>3. /\ t \in Wallets /\ h.what \in Nat /\ h \in ToWallet(t) /\ WhatOf[h] = h.what
        /\ \A v : v # t => h \notin ToWallet(v)
    BY DEF SiOuts, ToWallet, WhatOf
  <1>4. m \in SiEvents /\ m \in Data /\ DataOf[m] = h.what
    BY <1>3 DEF SiEvents, Si!Event, Data, DataOf
  <1> HIDE DEF m, t
  <1>5. t \in Si!Targets(Si!Extension) <=> t \in inroom
    BY <1>3 DEF Si!Targets
  <1>6. box' = IF t \in inroom THEN [box EXCEPT ![t] = Append(@, m)] ELSE box
    BY <1>1, <1>5 DEF t, m
  <1>7. /\ box' \in [Si!Clients -> Seq(SiEvents)] /\ box'[Si!Extension] = box[Si!Extension]
        /\ t \in inroom => box'[t] = Append(box[t], m)
        /\ \A v \in Wallets : v # t => box'[v] = box[v]
    <2>1. Append(box[t], m) \in Seq(SiEvents)
      BY <1>2, <1>3, <1>4, AppendProperties
    <2>2. CASE t \in inroom
      <3>1. box' = [box EXCEPT ![t] = Append(@, m)]
        BY <1>6, <2>2
      <3> QED BY <1>2, <1>3, <2>1, <3>1
    <2>3. CASE t \notin inroom
      BY <1>2, <1>6, <2>3
    <2> QED BY <2>2, <2>3
  <1>8. SignalingTypes'
    <2>1. Tail(out) \in Seq(SiOuts)
      BY <1>1, <1>2, TakenElement
    <2> QED BY <1>1, <1>7, <2>1 DEF SignalingTypes
  <1>9. negotiation.at # "none"
    BY <1>1 DEF SignalingRoom
  <1>10. SignalingRoom'
    BY <1>1, <1>9 DEF SignalingRoom
  <1>11. Announcements(box[Si!Extension])'
    BY <1>7
  <1>12. ~Fresh(t)
    <2>1. 1 \in DOMAIN Coming(out, t)
      BY <1>1, <1>2, <1>3, TakenElement DEF Coming, Part
    <2> QED BY <2>1 DEF Fresh
  <1>13. ASSUME NEW v \in Wallets PROVE WalletIsServed(v)'
    <2>1. WalletIsServed(v)
      OBVIOUS
    <2>2. CASE v # t
      <3>1. h \notin ToWallet(v)
        BY <1>3, <2>2
      <3>2. Fresh(v) => Fresh(v)'
        <4>1. DOMAIN Coming(out, v) = {} => DOMAIN Coming(Tail(out), v) = {}
          <5>1. Behead(Coming(out, v), Coming(Tail(out), v))
            BY <1>1, <1>2, PartOfTail DEF Coming
          <5> QED BY <5>1 DEF Behead
        <4> QED BY <1>1, <1>7, <2>2, <4>1 DEF Fresh
      <3>3. Offered(v) => Offered(v)'
        <4>1. \A c, n : Run(Coming(out, v), c, n) => Run(Coming(Tail(out), v), c, n)
          BY <1>1, <1>2, <3>1, PartShift DEF Coming
        <4> QED BY <1>1, <1>7, <2>2, <4>1 DEF Offered
      <3> QED BY <1>1, <1>7, <2>1, <3>2, <3>3 DEF WalletIsServed
    <2>3. CASE v = t
      <3>1. wallets[v].at # "away" /\ ~Announces(box[Si!Extension], v)
        BY <1>12, <2>1, <2>3 DEF WalletIsServed
      <3>2. ASSUME Offered(v), v \in inroom PROVE Offered(v)'
        <4>1. PICK a \in Nat, c \in Nat, l \in 0..negotiation.sent :
                /\ Run(wallets[v].got, 0, a) /\ Run(Inside(box[v]), a, c) /\ Run(Coming(out, v), c, l + 1)
                /\ negotiation.target = v => l = negotiation.sent
          BY <3>2 DEF Offered
        <4>2. l + 1 \in Nat /\ c + 1 \in Nat
          BY <1>2 DEF Negotiations
        <4>3. WhatOf[h] = c /\ Run(Coming(Tail(out), v), c + 1, l + 1)
          BY <1>1, <1>2, <1>3, <2>3, <4>1, <4>2, PartFirst DEF Coming
        <4>4. Run(Inside(Append(box[v], m)), a, c + 1)
          BY <1>2, <1>3, <1>4, <4>1, <4>3, PartMore DEF Inside
        <4>5. Run(Inside(box'[v]), a, c + 1)
          BY <1>7, <2>3, <3>2, <4>4
        <4> QED BY <1>1, <4>1, <4>2, <4>3, <4>5 DEF Offered
      <3>3. v \in inroom <=> wallets[v].at = "there"
        BY DEF SignalingRoom
      <3> QED BY <1>1, <1>7, <1>9, <2>1, <3>1, <3>2, <3>3 DEF WalletIsServed
    <2> QED BY <2>2, <2>3
  <1> QED BY <1>8, <1>10, <1>11, <1>13 DEF SignalingInv

\* A wallet reads what the relay has for it.
LEMMA WalletReadsKeeps ==
    ASSUME SignalingTypes, SignalingRoom, Announcements(box[Si!Extension]),
           \A v \in Wallets : WalletIsServed(v),
           NEW w \in Wallets, Si!WalletReads(w)
    PROVE  SignalingInv'
  <1>1. PICK m \in SiEvents :
          /\ box[w] # <<>> /\ m = Head(box[w]) /\ box' = [box EXCEPT ![w] = Tail(@)]
          /\ wallets' = IF m.is = "data" THEN [wallets EXCEPT ![w].got = Append(@, m.of)] ELSE wallets
          /\ UNCHANGED <<inroom, out, negotiation>>
    <2>1. box[w] # <<>> /\ Head(box[w]) \in SiEvents
      BY BoxesHoldEvents, TakenElement DEF Si!WalletReads
    <2> QED BY <2>1 DEF Si!WalletReads
  <1>2. /\ box \in [Si!Clients -> Seq(SiEvents)] /\ box[w] \in Seq(SiEvents)
        /\ w \in Si!Clients /\ w # Si!Extension /\ Si!Extension \in Si!Clients
        /\ wallets \in [Wallets -> WalletEnds]
    BY BoxesHoldEvents DEF SignalingTypes, Si!Clients
  <1>3. /\ box' \in [Si!Clients -> Seq(SiEvents)] /\ box'[Si!Extension] = box[Si!Extension]
        /\ box'[w] = Tail(box[w]) /\ \A v \in Wallets : v # w => box'[v] = box[v]
    <2>1. Tail(box[w]) \in Seq(SiEvents)
      BY <1>1, <1>2, TakenElement
    <2>2. \A v \in Wallets : v \in Si!Clients
      BY DEF Si!Clients
    <2> QED BY <1>1, <1>2, <2>1, <2>2
  <1>4. m.is = "data" <=> m \in Data
    BY DEF Data
  <1>5. m.is = "data" => m.of \in Nat /\ DataOf[m] = m.of
    BY SiEventFacts
  <1>6. wallets[w].got \in Seq(Nat)
    BY <1>2 DEF WalletEnds
  <1>7. /\ wallets' \in [Wallets -> WalletEnds]
        /\ \A v \in Wallets : wallets'[v].at = wallets[v].at
        /\ \A v \in Wallets : v # w => wallets'[v].got = wallets[v].got
        /\ wallets'[w].got = IF m.is = "data" THEN Append(wallets[w].got, m.of) ELSE wallets[w].got
    <2>1. CASE m.is = "data"
      <3>1. wallets' = [wallets EXCEPT ![w].got = Append(@, m.of)]
        BY <1>1, <2>1
      <3>2. Append(wallets[w].got, m.of) \in Seq(Nat)
        BY <1>5, <1>6, <2>1, AppendProperties
      <3> QED BY <1>2, <2>1, <3>1, <3>2 DEF WalletEnds
    <2>2. CASE m.is # "data"
      BY <1>1, <1>2, <2>2
    <2> QED BY <2>1, <2>2
  <1>8. SignalingTypes'
    BY <1>1, <1>3, <1>7 DEF SignalingTypes
  <1>9. SignalingRoom'
    BY <1>1, <1>3, <1>7 DEF SignalingRoom
  <1>10. Announcements(box[Si!Extension])'
    BY <1>3
  <1>11. ASSUME NEW v \in Wallets PROVE WalletIsServed(v)'
    <2>1. WalletIsServed(v)
      OBVIOUS
    <2>2. CASE v # w
      BY <1>1, <1>3, <1>7, <2>1, <2>2, ServedStill
    <2>3. CASE v = w
      <3>1. Behead(Inside(box[w]), Inside(Tail(box[w])))
        BY <1>1, <1>2, PartOfTail DEF Inside
      <3>2. Fresh(w) => Fresh(w)'
        <4> SUFFICES ASSUME Fresh(w) PROVE Fresh(w)'
          OBVIOUS
        <4>1. m \notin Data
          <5>1. m \in Data => 1 \in DOMAIN Inside(box[w])
            BY <1>1, <1>2, PartOfTail DEF Inside
          <5> QED BY <5>1 DEF Fresh
        <4>2. DOMAIN Inside(Tail(box[w])) = {}
          BY <3>1 DEF Behead, Fresh
        <4> QED BY <1>1, <1>3, <1>4, <1>7, <4>1, <4>2 DEF Fresh
      <3>3. Offered(w) => Offered(w)'
        <4> SUFFICES ASSUME Offered(w) PROVE Offered(w)'
          OBVIOUS
        <4>1. PICK a \in Nat, c \in Nat, l \in 0..negotiation.sent :
                /\ Run(wallets[w].got, 0, a) /\ Run(Inside(box[w]), a, c) /\ Run(Coming(out, w), c, l + 1)
                /\ negotiation.target = w => l = negotiation.sent
          BY DEF Offered
        <4>2. CASE m \notin Data
          <5>1. Run(Inside(Tail(box[w])), a, c)
            BY <1>1, <1>2, <4>1, <4>2, PartShift DEF Inside
          <5> QED BY <1>1, <1>3, <1>4, <1>7, <4>1, <4>2, <5>1 DEF Offered
        <4>3. CASE m \in Data
          <5>1. m.of = a /\ Run(Inside(Tail(box[w])), a + 1, c)
            BY <1>1, <1>2, <1>4, <1>5, <4>1, <4>3, PartFirst DEF Inside
          <5>2. Run(Append(wallets[w].got, a), 0, a + 1)
            BY <1>6, <4>1, GotMore
          <5>3. wallets'[w].got = Append(wallets[w].got, a)
            BY <1>4, <1>7, <4>3, <5>1
          <5>4. a + 1 \in Nat
            OBVIOUS
          <5>5. Run(wallets'[w].got, 0, a + 1) /\ Run(Inside(box'[w]), a + 1, c)
            BY <1>3, <5>1, <5>2, <5>3
          <5>6. /\ Run(wallets[w].got, 0, a + 1)' /\ Run(Inside(box[w]), a + 1, c)'
                /\ Run(Coming(out, w), c, l + 1)'
                /\ l \in 0..negotiation'.sent /\ (negotiation'.target = w => l = negotiation'.sent)
            BY <1>1, <4>1, <5>5
          <5> QED BY <5>4, <5>6 DEF Offered
        <4> QED BY <4>2, <4>3
      <3> QED BY <1>1, <1>3, <1>7, <2>1, <2>3, <3>2, <3>3 DEF WalletIsServed
    <2> QED BY <2>2, <2>3
  <1> QED BY <1>8, <1>9, <1>10, <1>11 DEF SignalingInv

LEMMA SignalingInvKept == SignalingInv /\ [Si!SignalingNext]_signalingVars => SignalingInv'
  <1> SUFFICES ASSUME SignalingInv, [Si!SignalingNext]_signalingVars, NegotiationIsOn'
               PROVE  SignalingInv'
    BY DEF SignalingInv
  <1>1. NegotiationIsOn
    <2> SUFFICES ASSUME ~NegotiationIsOn PROVE ~NegotiationIsOn'
      OBVIOUS
    <2>1. CASE Si!SocketEnds
      BY <2>1 DEF Si!SocketEnds, NegotiationIsOn
    <2>2. CASE UNCHANGED negotiation
      BY <2>2 DEF NegotiationIsOn
    <2> QED BY <2>1, <2>2 DEF Si!SignalingNext, signalingVars, Si!route, Si!Connects,
          Si!WalletConnected, Si!LocalCandidate, Si!Answered, Si!RemoteCandidate,
          Si!WalletDisconnected, Si!Concludes, Si!WalletJoins, Si!WalletLeaves,
          Si!WalletReads, Si!WalletSays, Si!Reads, NegotiationIsOn
  <1>2. /\ SignalingTypes /\ SignalingRoom /\ Announcements(box[Si!Extension])
        /\ \A v \in Wallets : WalletIsServed(v)
    BY <1>1 DEF SignalingInv
  <1>3. CASE Si!route
    BY <1>2, <1>3, RouteKeeps
  <1>4. CASE Si!Connects
    BY <1>2, <1>4, ConnectsKeeps
  <1>5. CASE Si!WalletConnected
    BY <1>2, <1>5, WalletConnectedKeeps
  <1>6. CASE Si!LocalCandidate
    BY <1>2, <1>6, LocalCandidateKeeps
  <1>7. CASE Si!Answered \/ Si!RemoteCandidate \/ Si!WalletDisconnected
    BY <1>2, <1>7, ReadsElseKeeps
  <1>8. ASSUME Si!Concludes \/ Si!SocketEnds PROVE FALSE
    <2>1. negotiation \in Negotiations
      BY <1>2 DEF SignalingTypes
    <2>2. negotiation'.at \in {"open", "failed"}
      BY <1>8, <2>1 DEF Si!Concludes, Si!SocketEnds, Negotiations
    <2> QED BY <2>2 DEF NegotiationIsOn
  <1>9. ASSUME NEW w \in Wallets, Si!WalletJoins(w) PROVE SignalingInv'
    BY <1>2, <1>9, WalletJoinsKeeps
  <1>10. ASSUME NEW w \in Wallets, Si!WalletLeaves(w) PROVE SignalingInv'
    BY <1>2, <1>10, WalletLeavesKeeps
  <1>11. ASSUME NEW w \in Wallets, Si!WalletReads(w) PROVE SignalingInv'
    BY <1>2, <1>11, WalletReadsKeeps
  <1>12. ASSUME NEW w \in Wallets, Si!WalletSays(w) PROVE SignalingInv'
    BY <1>2, <1>12, WalletSaysKeeps
  <1>13. CASE UNCHANGED signalingVars
    <2>1. UNCHANGED <<inroom, box, out, negotiation, wallets>>
      BY <1>13 DEF signalingVars
    <2>2. SignalingTypes' /\ SignalingRoom' /\ Announcements(box[Si!Extension])'
      BY <1>2, <2>1 DEF SignalingTypes, SignalingRoom
    <2>3. ASSUME NEW v \in Wallets PROVE WalletIsServed(v)'
      BY <1>2, <2>1, ServedStill
    <2> QED BY <2>2, <2>3 DEF SignalingInv
  <1> QED BY <1>3, <1>4, <1>5, <1>6, <1>7, <1>8, <1>9, <1>10, <1>11, <1>12, <1>13 DEF Si!SignalingNext

\* Runs that follow each other are in order, and have the numbers between their ends.
LEMMA SignalingInvGivesOffer == SignalingInv => Si!EveryWalletIsOffered
  <1> SUFFICES ASSUME SignalingInv, negotiation.at = "negotiating",
                      NEW w \in Wallets \cap inroom,
                      ~ \E k \in 1..Len(box[Si!Extension]) : box[Si!Extension][k] = Si!Event("connected", w)
               PROVE  /\ Si!InOrder(w)
                      /\ \E e \in 0..negotiation.sent : Si!Given(w) = Si!Offer..e
                      /\ negotiation.target = w => negotiation.sent \in Si!Given(w)
    BY DEF Si!EveryWalletIsOffered
  <1>1. /\ box[w] \in Seq(SiEvents) /\ out \in Seq(SiOuts) /\ wallets[w].got \in Seq(Nat)
        /\ negotiation.sent \in Nat /\ Offered(w)
    <2>1. SignalingTypes /\ SignalingRoom /\ WalletIsServed(w)
      BY DEF SignalingInv, NegotiationIsOn
    <2>2. box[w] \in Seq(SiEvents)
      BY <2>1, BoxesHoldEvents
    <2>3. Offered(w)
      BY <2>1 DEF WalletIsServed, SignalingRoom, Announces
    <2> QED BY <2>1, <2>2, <2>3 DEF SignalingTypes, WalletEnds, Negotiations
  <1>2. PICK a \in Nat, c \in Nat, l \in 0..negotiation.sent :
          /\ Run(wallets[w].got, 0, a) /\ Run(Inside(box[w]), a, c) /\ Run(Coming(out, w), c, l + 1)
          /\ negotiation.target = w => l = negotiation.sent
    BY <1>1 DEF Offered
  <1> DEFINE got == wallets[w].got
             B == Si!InItsBox(w)
             O == Si!OnTheWay(w)
  <1>3. DOMAIN got = 1..Len(got)
    BY <1>1, LenProperties
  <1>4. DOMAIN Inside(box[w]) = B /\ \A k \in B : Inside(box[w])[k] = box[w][k].of
    <2>1. \A k \in 1..Len(box[w]) : box[w][k] \in SiEvents
      BY <1>1, ElementOfSeq
    <2> QED BY <2>1 DEF Inside, Part, Data, DataOf, Si!InItsBox
  <1>5. DOMAIN Coming(out, w) = O /\ \A k \in O : Coming(out, w)[k] = out[k].what
    <2>1. \A k \in 1..Len(out) : out[k] \in SiOuts
      BY <1>1, ElementOfSeq
    <2> QED BY <2>1 DEF Coming, Part, ToWallet, WhatOf, Si!OnTheWay
  <1> HIDE DEF B, O, got
  <1>6. /\ {got[k] : k \in 1..Len(got)} = 0..a - 1
        /\ \A j, k \in 1..Len(got) : j < k => got[j] < got[k]
    BY <1>2, <1>3 DEF Run, got
  <1>7. /\ {box[w][k].of : k \in B} = a..c - 1 /\ a <= c
        /\ \A j, k \in B : j < k => box[w][j].of < box[w][k].of
    <2>1. {box[w][k].of : k \in B} = {Inside(box[w])[k] : k \in DOMAIN Inside(box[w])}
      BY <1>4
    <2> QED BY <1>2, <1>4, <2>1 DEF Run
  <1>8. /\ {out[k].what : k \in O} = c..(l + 1) - 1 /\ c <= l + 1
        /\ \A j, k \in O : j < k => out[j].what < out[k].what
    <2>1. {out[k].what : k \in O} = {Coming(out, w)[k] : k \in DOMAIN Coming(out, w)}
      BY <1>5
    <2> QED BY <1>2, <1>5, <2>1 DEF Run
  <1>9. l \in Nat
    BY <1>1
  <1>10. \A k \in 1..Len(got) : got[k] \in 0..a - 1
    BY <1>6
  <1>11. \A k \in B : box[w][k].of \in a..c - 1
    BY <1>7
  <1>12. \A k \in O : out[k].what \in c..(l + 1) - 1
    BY <1>8
  <1>13. Si!InOrder(w)
    <2>1. \A k \in B, j \in 1..Len(got) : got[j] < box[w][k].of
      BY <1>10, <1>11
    <2>2. \A k \in O, j \in 1..Len(got) : got[j] < out[k].what
      BY <1>7, <1>9, <1>10, <1>12
    <2>3. \A k \in O, j \in B : box[w][j].of < out[k].what
      BY <1>9, <1>11, <1>12
    <2> QED BY <1>6, <1>7, <1>8, <2>1, <2>2, <2>3 DEF Si!InOrder, got, B, O
  <1>14. Si!Given(w) = 0..l
    <2>1. (0..a - 1) \cup (a..c - 1) \cup (c..(l + 1) - 1) = 0..l
      BY <1>7, <1>8, <1>9
    <2>2. Si!Given(w) = {got[k] : k \in 1..Len(got)} \cup {box[w][k].of : k \in B} \cup {out[k].what : k \in O}
      BY DEF Si!Given, got, B, O
    <2> QED BY <1>6, <1>7, <1>8, <2>1, <2>2
  <1> QED BY <1>1, <1>2, <1>9, <1>13, <1>14 DEF Si!Offer

\* While a negotiation is on, each wallet that appears is offered it, and sent the
\* candidates in order: connector.rs, open_channel.
THEOREM WalletsAreOffered == Spec => []EveryWalletIsOffered
  <1>1. SignalingInv => EveryWalletIsOffered
    BY SignalingInvGivesOffer DEF EveryWalletIsOffered
  <1> QED BY <1>1, SignalingIsAPart, SignalingInitInv, SignalingInvKept, PTL
=============================================================================
