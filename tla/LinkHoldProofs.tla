---------------------------- MODULE LinkHoldProofs ----------------------------
(***************************************************************************)
(* One process per link (lock.rs), and a closed link that is free, for any *)
(* number of processes and calls, of crashes and of sessions that end.     *)
(* The argument is that no step but the taking of a lock file makes a hold *)
(* out of nothing (`HeldShrinks'), that a lock file is taken only when     *)
(* nobody has a hold, and that every session that owns the endpoint key    *)
(* has a hold of its own process; and that a close leaves none of its      *)
(* process's holds with a slot, a call or a session (`PlaceInv').          *)
(***************************************************************************)
EXTENDS LinkHold, TLAPS

\* The hold h has an owner: its lock file is locked.
Held(h) == HeldWithout(h, None)

\* Whoever starts a session has a hold, and nobody else has one in hand.
StartersHold ==
    \A c \in Calls : /\ hold[c] # None => pc[c] = "starting"
                     /\ usable /\ pc[c] = "starting" => hold[c] # None

\* A hold is kept by the process that took it.
HoldsStayHome ==
    /\ \A c \in Calls : hold[c] # None => ProcOf[hold[c]] = ProcOf[c]
    /\ \A p \in Procs : slotHold[p] # None => ProcOf[slotHold[p]] = p
    /\ \A s \in Calls : sess[s].hold # None => ProcOf[sess[s].hold] = ProcOf[s]

\* A session that was not closed has a hold.
SessionsHold ==
    usable => \A s \in Calls : sess[s].state \in {"running", "ended"} => sess[s].hold # None

\* All the holds there are, are one process's.
HoldsAgree ==
    usable => \A g, h \in Calls : Held(g) /\ Held(h) => ProcOf[g] = ProcOf[h]

HoldInv == TypeOK /\ StartersHold /\ HoldsStayHome /\ SessionsHold /\ HoldsAgree

USE HoldAssumption

-----------------------------------------------------------------------------
(* Types *)

LEMMA DiscardTypes ==
    ASSUME TypeOK, NEW c \in Calls, Discard(c)
    PROVE  /\ slotHold' \in [Procs -> Calls \cup {None}]
           /\ slotLink' \in [Procs -> Calls \cup {None}]
           /\ background' \subseteq Calls
  BY DEF TypeOK, Discard, LetGo

States == {"none", "running", "ended", "closed"}

\* A session's state changes, not its hold.
LEMMA StateChanges ==
    ASSUME TypeOK, NEW u \in Calls \cup {None}, NEW r \in States,
           sess' = [sess EXCEPT ![u].state = r]
    PROVE  /\ sess' \in [Calls -> [state : States, hold : Calls \cup {None}]]
           /\ \A s \in Calls : /\ sess'[s].hold = sess[s].hold
                                /\ sess'[s].state \in {sess[s].state, r}
  <1>1. CASE u \in Calls
    BY <1>1 DEF TypeOK, States
  <1>2. CASE u \notin Calls
    <2>1. sess' = sess
      BY <1>2 DEF TypeOK
    <2> QED  BY <2>1 DEF TypeOK, States
  <1> QED  BY <1>1, <1>2

LEMMA StartDroppedTypes ==
    ASSUME TypeOK, NEW c \in Calls, StartDropped(c), NEW r, Leave(c, r),
           r \in Procs \cup {"timeout", "dropped"}
    PROVE  TypeOK'
  <1>1. /\ slotHold' \in [Procs -> Calls \cup {None}]
        /\ slotLink' \in [Procs -> Calls \cup {None}]
        /\ background' \subseteq Calls
    BY DiscardTypes DEF TypeOK, StartDropped
  <1>2. mutex' \in [Procs -> Calls \cup {None}]
    BY DEF TypeOK, StartDropped, Unlock
  <1> QED  BY <1>1, <1>2 DEF TypeOK, StartDropped, Leave

\* Every step keeps every variable of its kind.
LEMMA StepTypes == TypeOK /\ [Next]_vars => TypeOK'
  <1> SUFFICES ASSUME TypeOK, [Next]_vars PROVE TypeOK'
    OBVIOUS
  <1>1. ASSUME NEW c \in Calls, Begin(c) PROVE TypeOK'
    BY <1>1 DEF TypeOK, Begin
  <1>2. ASSUME NEW c \in Calls, Enter(c) PROVE TypeOK'
    BY <1>2 DEF TypeOK, Enter
  <1>3. ASSUME NEW c \in Calls, StaleClosed(c) PROVE TypeOK'
    <2>1. sess' \in [Calls -> [state : States, hold : Calls \cup {None}]]
      BY <1>3, StateChanges DEF TypeOK, StaleClosed, States
    <2> QED  BY <1>3, <2>1 DEF TypeOK, StaleClosed, States
  <1>4. ASSUME NEW c \in Calls, TakeHold(c) PROVE TypeOK'
    BY <1>4 DEF TypeOK, TakeHold
  <1>5. ASSUME NEW c \in Calls, Started(c) PROVE TypeOK'
    BY <1>5 DEF TypeOK, Started, Unlock
  <1>6. ASSUME NEW c \in Calls, StartFails(c) PROVE TypeOK'
    BY <1>6 DEF TypeOK, StartFails, Leave, LetGo, Unlock
  <1>7. ASSUME NEW c \in Calls, TimesOut(c) PROVE TypeOK'
    <2>1. Holders(c) \subseteq Procs
      BY DEF Holders
    <2> QED  BY <1>7, <2>1, StartDroppedTypes DEF TimesOut
  <1>8. ASSUME NEW c \in Calls, Cancelled(c) PROVE TypeOK'
    BY <1>8, StartDroppedTypes DEF Cancelled
  <1>9. ASSUME NEW c \in Calls, Finish(c) PROVE TypeOK'
    BY <1>9 DEF TypeOK, Finish, Leave
  <1>10. ASSUME NEW c \in Calls, PairingFails(c) PROVE TypeOK'
    BY <1>10 DEF TypeOK, PairingFails
  <1>11. ASSUME NEW c \in Calls, Abandoned(c) PROVE TypeOK'
    BY <1>11, DiscardTypes DEF TypeOK, Abandoned, Leave
  <1>12. ASSUME NEW c \in Calls, EnterClose(c) PROVE TypeOK'
    <2>1. CASE slotLink[ProcOf[c]] = None
      BY <1>12, <2>1 DEF TypeOK, EnterClose, LetGo, Leave
    <2>2. CASE slotLink[ProcOf[c]] # None
      <3>1. /\ pc' = [pc EXCEPT ![c] = "closing"]
            /\ uses' = [uses EXCEPT ![c] = slotLink[ProcOf[c]]]
            /\ slotLink' = [slotLink EXCEPT ![ProcOf[c]] = None]
            /\ mutex' = [mutex EXCEPT ![ProcOf[c]] = c]
            /\ UNCHANGED <<result, slotHold, hold, sess, background, usable, crashes, ends>>
        BY <1>12, <2>2 DEF EnterClose
      <3>2. slotLink[ProcOf[c]] \in Calls \cup {None}
        BY DEF TypeOK
      <3> QED BY <3>1, <3>2 DEF TypeOK
    <2> QED BY <2>1, <2>2
  <1>13. ASSUME NEW c \in Calls, Closed(c) PROVE TypeOK'
    <2>1. sess' \in [Calls -> [state : States, hold : Calls \cup {None}]]
      BY <1>13, StateChanges DEF TypeOK, Closed, States
    <2> QED  BY <1>13, <2>1 DEF TypeOK, Closed, LetGo, Leave, Unlock, States
  <1>14. ASSUME NEW c \in Calls, CloseDropped(c) PROVE TypeOK'
    <2>1. sess' \in [Calls -> [state : States, hold : Calls \cup {None}]]
      <3>1. CASE UNCHANGED sess
        BY <3>1 DEF TypeOK, States
      <3>2. CASE sess' = [sess EXCEPT ![uses[c]].state = "ended"]
        BY <3>2, StateChanges DEF TypeOK, States
      <3> QED  BY <1>14, <3>1, <3>2 DEF CloseDropped
    <2> QED  BY <1>14, <2>1 DEF TypeOK, CloseDropped, Leave, Unlock, States
  <1>15. ASSUME NEW c \in Calls, BackgroundClosed(c) PROVE TypeOK'
    BY <1>15 DEF TypeOK, BackgroundClosed
  <1>16. ASSUME NEW c \in Calls, SessionEnds(c) PROVE TypeOK'
    BY <1>16 DEF TypeOK, SessionEnds
  <1>17. ASSUME NEW p \in Procs, Killed(p) PROVE TypeOK'
    BY <1>17 DEF TypeOK, Killed, LetGo
  <1>18. ASSUME NEW p \in Procs, Dropped(p) PROVE TypeOK'
    BY <1>18 DEF TypeOK, Dropped, LetGo
  <1>19. CASE UNCHANGED vars
    BY <1>19 DEF TypeOK, vars
  <1> QED
    BY <1>1, <1>2, <1>3, <1>4, <1>5, <1>6, <1>7, <1>8, <1>9, <1>10, <1>11, <1>12,
       <1>13, <1>14, <1>15, <1>16, <1>17, <1>18, <1>19 DEF Next

\* Every variable of LinkHold holds a value of its kind.
THEOREM TypeCorrect == Spec => []TypeOK
  <1>1. Init => TypeOK
    BY DEF Init, TypeOK
  <1> QED  BY <1>1, StepTypes, PTL DEF Spec

-----------------------------------------------------------------------------
(* Holds *)

SlotLinks == {slotLink[p] : p \in Procs}

\* No session starts, or gets another hold.
SessionsStay ==
    \A s \in Calls : /\ sess'[s].hold = sess[s].hold
                     /\ sess'[s].state \in {"running", "ended"} =>
                           sess[s].state \in {"running", "ended"}

\* A step that gives nobody a hold or a session he had not: what it hands on,
\* it takes from where it was.
NothingTaken ==
    /\ \A p \in Procs : /\ slotHold'[p] \in {slotHold[p], None}
                         /\ slotLink'[p] \in {slotLink[p], None}
    /\ \A c \in Calls : /\ hold'[c] \in {hold[c], None}
                         /\ uses'[c] \in {uses[c], None} \cup SlotLinks
    /\ background' \subseteq background \cup SlotLinks
    /\ SessionsStay
    /\ UNCHANGED usable

LEMMA AliveShrinks ==
    ASSUME TypeOK, NothingTaken, NEW s \in Calls, Alive(s)'
    PROVE  Alive(s)
  <1>1. s # None
    OBVIOUS
  <1>2. CASE s \in background'
    BY <1>2 DEF NothingTaken, SlotLinks, Alive, AliveWithout
  <1>3. CASE \E p \in Procs : slotLink'[p] = s
    BY <1>1, <1>3 DEF NothingTaken, Alive, AliveWithout
  <1>4. CASE \E d \in Calls \ {None} : uses'[d] = s
    BY <1>1, <1>4 DEF NothingTaken, SlotLinks, Alive, AliveWithout
  <1> QED  BY <1>2, <1>3, <1>4 DEF Alive, AliveWithout

LEMMA HeldShrinks ==
    ASSUME TypeOK, NothingTaken, NEW h \in Calls, Held(h)'
    PROVE  Held(h)
  <1>1. h # None
    OBVIOUS
  <1>2. CASE \E p \in Procs : slotHold'[p] = h
    BY <1>1, <1>2 DEF NothingTaken, Held, HeldWithout
  <1>3. CASE \E d \in Calls \ {None} : hold'[d] = h
    BY <1>1, <1>3 DEF NothingTaken, Held, HeldWithout
  <1>4. CASE \E s \in Calls : sess'[s].hold = h /\ Alive(s)'
    <2>1. PICK s \in Calls : sess'[s].hold = h /\ Alive(s)'
      BY <1>4
    <2>2. Alive(s)
      BY <2>1, AliveShrinks
    <2>3. sess'[s].hold = sess[s].hold
      BY DEF NothingTaken, SessionsStay
    <2> QED  BY <2>1, <2>2, <2>3 DEF Held, HeldWithout, Alive
  <1> QED  BY <1>2, <1>3, <1>4 DEF Held, HeldWithout, Alive

\* Such a step keeps what is said of the holds.
LEMMA NothingTakenKeeps ==
    ASSUME HoldInv, NothingTaken
    PROVE  HoldsStayHome' /\ SessionsHold' /\ HoldsAgree'
  <1>1. HoldsStayHome'
    <2>1. ASSUME NEW c \in Calls, hold'[c] # None PROVE ProcOf[hold'[c]] = ProcOf[c]
      <3>1. hold'[c] = hold[c]
        BY <2>1 DEF NothingTaken
      <3> QED  BY <2>1, <3>1 DEF HoldInv, HoldsStayHome
    <2>2. ASSUME NEW p \in Procs, slotHold'[p] # None PROVE ProcOf[slotHold'[p]] = p
      <3>1. slotHold'[p] = slotHold[p]
        BY <2>2 DEF NothingTaken
      <3> QED  BY <2>2, <3>1 DEF HoldInv, HoldsStayHome
    <2>3. ASSUME NEW s \in Calls, sess'[s].hold # None PROVE ProcOf[sess'[s].hold] = ProcOf[s]
      <3>1. sess'[s].hold = sess[s].hold
        BY DEF NothingTaken, SessionsStay
      <3> QED  BY <2>3, <3>1 DEF HoldInv, HoldsStayHome
    <2> QED  BY <2>1, <2>2, <2>3 DEF HoldsStayHome
  <1>2. SessionsHold'
    <2> SUFFICES ASSUME usable', NEW s \in Calls, sess'[s].state \in {"running", "ended"}
                 PROVE  sess'[s].hold # None
      BY DEF SessionsHold
    <2>1. /\ sess'[s].hold = sess[s].hold
          /\ sess[s].state \in {"running", "ended"}
          /\ usable
      BY DEF NothingTaken, SessionsStay
    <2> QED  BY <2>1 DEF HoldInv, SessionsHold
  <1>3. HoldsAgree'
    BY HeldShrinks DEF HoldInv, HoldsAgree, NothingTaken
  <1> QED  BY <1>1, <1>2, <1>3

-----------------------------------------------------------------------------
(* The steps *)

LEMMA DiscardTakesNothing ==
    ASSUME TypeOK, NEW c \in Calls, Discard(c)
    PROVE  /\ \A p \in Procs : /\ slotHold'[p] \in {slotHold[p], None}
                               /\ slotLink'[p] \in {slotLink[p], None}
           /\ background' \subseteq background \cup SlotLinks
  BY DEF TypeOK, Discard, LetGo, SlotLinks

LEMMA StartDroppedTakesNothing ==
    ASSUME HoldInv, NEW c \in Calls, StartDropped(c), NEW r, Leave(c, r)
    PROVE  NothingTaken /\ StartersHold'
  <1>1. /\ \A p \in Procs : /\ slotHold'[p] \in {slotHold[p], None}
                            /\ slotLink'[p] \in {slotLink[p], None}
        /\ background' \subseteq background \cup SlotLinks
    BY DiscardTakesNothing DEF HoldInv, StartDropped
  <1>2. SessionsStay
    BY DEF StartDropped, SessionsStay
  <1>3. NothingTaken
    BY <1>1, <1>2 DEF HoldInv, TypeOK, StartDropped, NothingTaken
  <1>4. StartersHold'
    BY DEF HoldInv, TypeOK, StartDropped, Leave, StartersHold
  <1> QED  BY <1>3, <1>4

\* Every step but TakeHold and Started takes nothing.
LEMMA OthersTakeNothing ==
    ASSUME HoldInv, [Next]_vars,
           \A c \in Calls : ~TakeHold(c) /\ ~Started(c)
    PROVE  NothingTaken /\ StartersHold'
  <1> USE DEF HoldInv
  <1>1. ASSUME NEW c \in Calls, Begin(c) PROVE NothingTaken /\ StartersHold'
    BY <1>1 DEF TypeOK, Begin, NothingTaken, SessionsStay, StartersHold
  <1>2. ASSUME NEW c \in Calls, Enter(c) PROVE NothingTaken /\ StartersHold'
    <2>1. SessionsStay
      BY <1>2 DEF Enter, SessionsStay
    <2>2. NothingTaken
      BY <1>2, <2>1 DEF TypeOK, Enter, NothingTaken, SlotLinks
    <2>3. StartersHold'
      BY <1>2 DEF TypeOK, Enter, StartersHold
    <2> QED  BY <2>2, <2>3
  <1>3. ASSUME NEW c \in Calls, StaleClosed(c) PROVE NothingTaken /\ StartersHold'
    <2>1. SessionsStay
      BY <1>3, StateChanges DEF TypeOK, States, StaleClosed, SessionsStay
    <2>2. NothingTaken
      BY <1>3, <2>1 DEF TypeOK, StaleClosed, NothingTaken
    <2>3. StartersHold'
      BY <1>3 DEF TypeOK, StaleClosed, StartersHold
    <2> QED  BY <2>2, <2>3
  <1>4. ASSUME NEW c \in Calls, StartFails(c) PROVE NothingTaken /\ StartersHold'
    <2>1. SessionsStay
      BY <1>4 DEF StartFails, SessionsStay
    <2>2. NothingTaken
      BY <1>4, <2>1 DEF TypeOK, StartFails, LetGo, NothingTaken
    <2>3. StartersHold'
      BY <1>4 DEF TypeOK, StartFails, Leave, StartersHold
    <2> QED  BY <2>2, <2>3
  <1>5. ASSUME NEW c \in Calls, TimesOut(c) PROVE NothingTaken /\ StartersHold'
    BY <1>5, StartDroppedTakesNothing DEF TimesOut
  <1>6. ASSUME NEW c \in Calls, Cancelled(c) PROVE NothingTaken /\ StartersHold'
    BY <1>6, StartDroppedTakesNothing DEF Cancelled
  <1>7. ASSUME NEW c \in Calls, Finish(c) PROVE NothingTaken /\ StartersHold'
    BY <1>7 DEF TypeOK, Finish, Leave, NothingTaken, SessionsStay, StartersHold
  <1>8. ASSUME NEW c \in Calls, PairingFails(c) PROVE NothingTaken /\ StartersHold'
    BY <1>8 DEF TypeOK, PairingFails, NothingTaken, SessionsStay, StartersHold
  <1>9. ASSUME NEW c \in Calls, Abandoned(c) PROVE NothingTaken /\ StartersHold'
    <2>1. SessionsStay
      BY <1>9 DEF Abandoned, SessionsStay
    <2>2. NothingTaken
      BY <1>9, <2>1, DiscardTakesNothing DEF TypeOK, Abandoned, NothingTaken
    <2>3. StartersHold'
      BY <1>9 DEF TypeOK, Abandoned, Leave, StartersHold
    <2> QED  BY <2>2, <2>3
  <1>10. ASSUME NEW c \in Calls, EnterClose(c) PROVE NothingTaken /\ StartersHold'
    <2>1. SessionsStay
      BY <1>10 DEF EnterClose, SessionsStay
    <2>2. NothingTaken
      BY <1>10, <2>1 DEF TypeOK, EnterClose, LetGo, NothingTaken, SlotLinks
    <2>3. StartersHold'
      BY <1>10 DEF TypeOK, EnterClose, Leave, StartersHold
    <2> QED  BY <2>2, <2>3
  <1>11. ASSUME NEW c \in Calls, Closed(c) PROVE NothingTaken /\ StartersHold'
    <2>1. SessionsStay
      BY <1>11, StateChanges DEF TypeOK, States, Closed, SessionsStay
    <2>2. NothingTaken
      BY <1>11, <2>1 DEF TypeOK, Closed, LetGo, NothingTaken
    <2>3. StartersHold'
      BY <1>11 DEF TypeOK, Closed, Leave, StartersHold
    <2> QED  BY <2>2, <2>3
  <1>12. ASSUME NEW c \in Calls, CloseDropped(c) PROVE NothingTaken /\ StartersHold'
    <2>1. SessionsStay
      <3>1. CASE UNCHANGED sess
        BY <3>1 DEF SessionsStay
      <3>2. CASE /\ sess[uses[c]].state = "running"
                 /\ sess' = [sess EXCEPT ![uses[c]].state = "ended"]
        BY <3>2, StateChanges DEF TypeOK, States, SessionsStay
      <3> QED  BY <1>12, <3>1, <3>2 DEF CloseDropped
    <2>2. NothingTaken
      BY <1>12, <2>1 DEF TypeOK, CloseDropped, NothingTaken
    <2>3. StartersHold'
      BY <1>12 DEF TypeOK, CloseDropped, Leave, StartersHold
    <2> QED  BY <2>2, <2>3
  <1>13. ASSUME NEW c \in Calls, BackgroundClosed(c) PROVE NothingTaken /\ StartersHold'
    <2>1. SessionsStay
      BY <1>13, StateChanges DEF TypeOK, States, BackgroundClosed, SessionsStay
    <2> QED  BY <1>13, <2>1 DEF TypeOK, BackgroundClosed, NothingTaken, StartersHold
  <1>14. ASSUME NEW c \in Calls, SessionEnds(c) PROVE NothingTaken /\ StartersHold'
    <2>1. SessionsStay
      BY <1>14, StateChanges DEF TypeOK, States, SessionEnds, SessionsStay
    <2> QED  BY <1>14, <2>1 DEF TypeOK, SessionEnds, NothingTaken, StartersHold
  <1>15. ASSUME NEW p \in Procs, Killed(p) PROVE NothingTaken /\ StartersHold'
    <2>1. SessionsStay
      BY <1>15 DEF Killed, SessionsStay
    <2>2. NothingTaken
      BY <1>15, <2>1 DEF TypeOK, Killed, LetGo, NothingTaken
    <2>3. StartersHold'
      BY <1>15 DEF TypeOK, Killed, StartersHold
    <2> QED  BY <2>2, <2>3
  <1>16. ASSUME NEW p \in Procs, Dropped(p) PROVE NothingTaken /\ StartersHold'
    <2>1. SessionsStay
      BY <1>16 DEF Dropped, SessionsStay
    <2> QED
      BY <1>16, <2>1 DEF TypeOK, Dropped, LetGo, NothingTaken, SlotLinks, StartersHold
  <1>17. CASE UNCHANGED vars
    BY <1>17 DEF vars, NothingTaken, SessionsStay, StartersHold
  <1> QED
    BY <1>1, <1>2, <1>3, <1>4, <1>5, <1>6, <1>7, <1>8, <1>9, <1>10, <1>11, <1>12,
       <1>13, <1>14, <1>15, <1>16, <1>17 DEF Next

\* A session is started with the hold its call has in hand.
LEMMA StartedKeeps ==
    ASSUME HoldInv, NEW c \in Calls, Started(c)
    PROVE  StartersHold' /\ HoldsStayHome' /\ SessionsHold' /\ HoldsAgree'
  <1> USE DEF HoldInv
  <1>1. /\ sess'[c] = [state |-> "running", hold |-> hold[c]]
        /\ \A s \in Calls \ {c} : sess'[s] = sess[s]
    BY DEF TypeOK, Started
  <1>2. StartersHold'
    BY DEF TypeOK, Started, StartersHold
  <1>3. HoldsStayHome'
    <2>1. \A d \in Calls : hold'[d] # None => ProcOf[hold'[d]] = ProcOf[d]
      BY DEF TypeOK, Started, HoldsStayHome
    <2>2. \A p \in Procs : slotHold'[p] # None => ProcOf[slotHold'[p]] = p
      BY DEF Started, HoldsStayHome
    <2>3. \A s \in Calls : sess'[s].hold # None => ProcOf[sess'[s].hold] = ProcOf[s]
      BY <1>1 DEF HoldsStayHome
    <2> QED  BY <2>1, <2>2, <2>3 DEF HoldsStayHome
  <1>4. SessionsHold'
    BY <1>1 DEF Started, StartersHold, SessionsHold
  <1>5. ASSUME NEW h \in Calls, Held(h)' PROVE Held(h)
    <2>1. h # None
      OBVIOUS
    <2>2. CASE \E p \in Procs : slotHold'[p] = h
      BY <2>2 DEF Started, Held, HeldWithout
    <2>3. CASE \E d \in Calls \ {None} : hold'[d] = h
      BY <2>1, <2>3 DEF TypeOK, Started, Held, HeldWithout
    <2>4. ASSUME NEW s \in Calls, sess'[s].hold = h, Alive(s)' PROVE Held(h)
      <3>1. CASE s = c
        BY <1>1, <2>4, <3>1 DEF Held, HeldWithout
      <3>2. CASE s # c
        <4>1. sess[s].hold = h
          BY <1>1, <2>4, <3>2
        <4>2. Alive(s)
          BY <2>4, <3>2 DEF TypeOK, Started, Alive, AliveWithout
        <4> QED  BY <4>1, <4>2 DEF Held, HeldWithout, Alive
      <3> QED  BY <3>1, <3>2
    <2> QED  BY <1>5, <2>2, <2>3, <2>4 DEF Held, HeldWithout, Alive
  <1>6. HoldsAgree'
    BY <1>5 DEF Started, HoldsAgree
  <1> QED  BY <1>2, <1>3, <1>4, <1>6

\* A hold is taken again from the slot, or anew while nobody has one.
LEMMA TakeHoldKeeps ==
    ASSUME HoldInv, NEW c \in Calls, TakeHold(c)
    PROVE  StartersHold' /\ HoldsStayHome' /\ SessionsHold' /\ HoldsAgree'
  <1> USE DEF HoldInv
  <1> DEFINE p == ProcOf[c]
  <1>1. /\ p \in Procs
        /\ slotHold' = [slotHold EXCEPT ![p] = hold'[c]]
        /\ \A d \in Calls \ {c} : hold'[d] = hold[d]
        /\ UNCHANGED <<slotLink, sess, uses, background, usable>>
    BY DEF TypeOK, TakeHold
  <1>2. StartersHold'
    BY DEF TypeOK, TakeHold, StartersHold
  <1>3. HoldsStayHome'
    <2>1. hold'[c] # None => ProcOf[hold'[c]] = p
      BY DEF TypeOK, TakeHold, HoldsStayHome
    <2> QED  BY <1>1, <2>1 DEF TypeOK, HoldsStayHome
  <1>4. SessionsHold'
    BY <1>1 DEF SessionsHold
  <1>5. \A s \in Calls : Alive(s)' <=> Alive(s)
    BY <1>1 DEF Alive, AliveWithout
  <1>6. ASSUME NEW h \in Calls, Held(h)' PROVE Held(h) \/ h = hold'[c]
    BY <1>1, <1>5, <1>6 DEF TypeOK, Held, HeldWithout, Alive
  <1>7. HoldsAgree'
    <2>1. CASE slotHold[p] # None /\ hold'[c] = slotHold[p]
      <3>1. ASSUME NEW h \in Calls, Held(h)' PROVE Held(h)
        BY <1>1, <1>6, <2>1, <3>1 DEF Held, HeldWithout
      <3> QED  BY <1>1, <3>1 DEF HoldsAgree
    <2>2. CASE usable /\ Holders(None) = {} /\ hold'[c] = c
      <3>1. ASSUME NEW h \in Calls PROVE ~Held(h)
        <4>1. SUFFICES ASSUME Held(h) PROVE FALSE
          OBVIOUS
        <4>2. h \in {g \in Calls : HeldWithout(g, None)}
          BY <4>1 DEF Held
        <4>3. ProcOf[h] \in Holders(None)
          BY <2>2, <4>2 DEF Holders
        <4> QED  BY <2>2, <4>3
      <3> QED  BY <1>6, <2>2, <3>1 DEF HoldsAgree
    <2>3. CASE ~usable
      BY <1>1, <2>3 DEF HoldsAgree
    <2>4. \/ slotHold[p] # None /\ hold'[c] = slotHold[p]
          \/ usable /\ Holders(None) = {} /\ hold'[c] = c
          \/ ~usable
      BY DEF TypeOK, TakeHold
    <2> QED  BY <2>1, <2>2, <2>3, <2>4
  <1> QED  BY <1>2, <1>3, <1>4, <1>7

-----------------------------------------------------------------------------
(* The theorems *)

LEMMA HoldInvInit == Init => HoldInv
  <1> SUFFICES ASSUME Init PROVE HoldInv
    OBVIOUS
  <1>1. TypeOK
    BY DEF Init, TypeOK
  <1>2. StartersHold /\ HoldsStayHome /\ SessionsHold
    BY DEF Init, StartersHold, HoldsStayHome, SessionsHold
  <1>3. ASSUME NEW h \in Calls PROVE ~Held(h)
    BY DEF Init, Held, HeldWithout
  <1> QED  BY <1>1, <1>2, <1>3 DEF HoldInv, HoldsAgree

LEMMA HoldInvStep == HoldInv /\ [Next]_vars => HoldInv'
  <1> SUFFICES ASSUME HoldInv, [Next]_vars PROVE HoldInv'
    OBVIOUS
  <1>1. TypeOK'
    BY StepTypes DEF HoldInv
  <1>2. CASE \E c \in Calls : TakeHold(c)
    BY <1>1, <1>2, TakeHoldKeeps DEF HoldInv
  <1>3. CASE \E c \in Calls : Started(c)
    BY <1>1, <1>3, StartedKeeps DEF HoldInv
  <1>4. CASE \A c \in Calls : ~TakeHold(c) /\ ~Started(c)
    BY <1>1, <1>4, OthersTakeNothing, NothingTakenKeeps DEF HoldInv
  <1> QED  BY <1>2, <1>3, <1>4

\* Two sessions that own the endpoint key are of one process.
LEMMA HoldInvSuffices == HoldInv => OneProcess
  <1> SUFFICES ASSUME HoldInv, usable, NEW s \in Calls, NEW t \in Calls,
                      Owns(s), Owns(t)
               PROVE  ProcOf[s] = ProcOf[t]
    BY DEF OneProcess
  <1> USE DEF HoldInv
  <1>1. ASSUME NEW r \in Calls, Owns(r)
        PROVE  /\ sess[r].hold \in Calls
               /\ Held(sess[r].hold)
               /\ ProcOf[sess[r].hold] = ProcOf[r]
    <2>1. sess[r].hold # None
      BY <1>1 DEF Owns, SessionsHold
    <2>2. sess[r].hold \in Calls
      BY <2>1 DEF TypeOK
    <2> QED  BY <1>1, <2>1, <2>2 DEF Owns, HoldsStayHome, Held, HeldWithout, Alive
  <1> QED  BY <1>1 DEF HoldsAgree

\* On a machine whose lock files can be used, two processes never have sessions
\* of one link at once, whatever calls are made, dropped, abandoned or closed,
\* whichever sessions end and whoever is killed.
THEOREM OneProcessPerLink == Spec => []OneProcess
  <1> QED  BY HoldInvInit, HoldInvStep, HoldInvSuffices, PTL DEF Spec

-----------------------------------------------------------------------------
(* A closed link is free                                                   *)

\* Whose session is where: a call's, ...
UsesInv ==
    \A c \in Calls : uses[c] # None =>
        ProcOf[uses[c]] = ProcOf[c] /\ pc[c] \in {"stale", "using", "close", "closing"}

\* ... and a slot's are of their own process, and a close empties its slot
\* before it closes, ...
SlotInv ==
    /\ \A p \in Procs : slotLink[p] # None => ProcOf[slotLink[p]] = p
    /\ \A c \in Calls : pc[c] = "closing" => slotLink[ProcOf[c]] = None

\* ... with the slot's mutex, as whoever else waits in it, ...
MutexInv ==
    \A c \in Calls : pc[c] \in {"stale", "hold", "starting", "closing"} => mutex[ProcOf[c]] = c

\* ... and a close does nothing else.
CloseInv ==
    \A c \in Calls : KindOf[c] = "close" => pc[c] \in {"idle", "close", "closing", "done", "killed"}

PlaceInv == TypeOK /\ UsesInv /\ SlotInv /\ MutexInv /\ CloseInv

\* What a step keeps of it.
PlacesKept == UsesInv' /\ SlotInv' /\ MutexInv' /\ CloseInv'

\* A call leaves the slot, or the link, and lets go of its handle.
LEMMA LeavingKeepsPlaces ==
    ASSUME PlaceInv, NEW c \in Calls, NEW r, Leave(c, r),
           uses' = [uses EXCEPT ![c] = None], Unlock(c) \/ UNCHANGED mutex,
           \A p \in Procs : slotLink'[p] \in {slotLink[p], None}
    PROVE  PlacesKept
  <1> USE DEF PlaceInv, TypeOK, Leave
  <1>1. UsesInv'
    BY DEF UsesInv
  <1>2. SlotInv'
    BY DEF SlotInv
  <1>3. MutexInv'
    BY DEF MutexInv, Unlock
  <1>4. CloseInv'
    BY DEF CloseInv
  <1> QED BY <1>1, <1>2, <1>3, <1>4 DEF PlacesKept

\* No step gives a call or a slot another process's session, or a call a place
\* in a slot it has not the mutex of.
LEMMA PlaceStep == PlaceInv /\ [Next]_vars => PlaceInv'
  <1> SUFFICES ASSUME PlaceInv, [Next]_vars PROVE PlaceInv'
    OBVIOUS
  <1>0. TypeOK'
    BY StepTypes DEF PlaceInv
  <1> USE DEF PlaceInv, PlacesKept
  <1>1. ASSUME NEW c \in Calls, Begin(c) PROVE PlacesKept
    BY <1>1 DEF TypeOK, Begin, UsesInv, SlotInv, MutexInv, CloseInv
  <1>2. ASSUME NEW c \in Calls, Enter(c) PROVE PlacesKept
    <2> USE <1>2 DEF TypeOK, Enter
    <2>1. UsesInv'
      BY DEF UsesInv, SlotInv
    <2>2. SlotInv'
      BY DEF SlotInv
    <2>3. MutexInv'
      BY DEF MutexInv
    <2>4. CloseInv'
      BY DEF CloseInv
    <2> QED BY <2>1, <2>2, <2>3, <2>4
  <1>3. ASSUME NEW c \in Calls, StaleClosed(c) PROVE PlacesKept
    BY <1>3 DEF TypeOK, StaleClosed, UsesInv, SlotInv, MutexInv, CloseInv
  <1>4. ASSUME NEW c \in Calls, TakeHold(c) PROVE PlacesKept
    BY <1>4 DEF TypeOK, TakeHold, UsesInv, SlotInv, MutexInv, CloseInv
  <1>5. ASSUME NEW c \in Calls, Started(c) PROVE PlacesKept
    <2> USE <1>5 DEF TypeOK, Started, Unlock
    <2>1. UsesInv'
      BY DEF UsesInv
    <2>2. SlotInv'
      BY DEF SlotInv, MutexInv
    <2>3. MutexInv'
      BY DEF MutexInv
    <2>4. CloseInv'
      BY DEF CloseInv
    <2> QED BY <2>1, <2>2, <2>3, <2>4
  <1>6. ASSUME NEW c \in Calls, StartFails(c) PROVE PlacesKept
    <2>1. uses[c] = None
      BY <1>6 DEF StartFails, UsesInv
    <2>2. uses' = [uses EXCEPT ![c] = None]
      BY <1>6, <2>1 DEF TypeOK, StartFails
    <2> QED BY <1>6, <2>2, LeavingKeepsPlaces DEF StartFails
  <1>7. ASSUME NEW c \in Calls, NEW r, StartDropped(c), Leave(c, r) PROVE PlacesKept
    BY <1>7, LeavingKeepsPlaces, DiscardTakesNothing DEF StartDropped
  <1>8. ASSUME NEW c \in Calls, TimesOut(c) \/ Cancelled(c) PROVE PlacesKept
    BY <1>7, <1>8 DEF TimesOut, Cancelled
  <1>9. ASSUME NEW c \in Calls, Finish(c) PROVE PlacesKept
    BY <1>9, LeavingKeepsPlaces DEF Finish
  <1>10. ASSUME NEW c \in Calls, PairingFails(c) PROVE PlacesKept
    BY <1>10 DEF TypeOK, PairingFails, UsesInv, SlotInv, MutexInv, CloseInv
  <1>11. ASSUME NEW c \in Calls, Abandoned(c) PROVE PlacesKept
    BY <1>11, LeavingKeepsPlaces, DiscardTakesNothing DEF Abandoned
  <1>12. ASSUME NEW c \in Calls, EnterClose(c) PROVE PlacesKept
    <2>1. CASE slotLink[ProcOf[c]] = None
      BY <1>12, <2>1, LeavingKeepsPlaces DEF EnterClose
    <2>2. CASE slotLink[ProcOf[c]] # None
      <3> USE <1>12, <2>2 DEF TypeOK, EnterClose
      <3>1. UsesInv'
        BY DEF UsesInv, SlotInv
      <3>2. SlotInv'
        BY DEF SlotInv
      <3>3. MutexInv'
        BY DEF MutexInv
      <3>4. CloseInv'
        BY DEF CloseInv
      <3> QED BY <3>1, <3>2, <3>3, <3>4
    <2> QED BY <2>1, <2>2
  <1>13. ASSUME NEW c \in Calls, Closed(c) PROVE PlacesKept
    BY <1>13, LeavingKeepsPlaces DEF Closed
  <1>14. ASSUME NEW c \in Calls, CloseDropped(c) PROVE PlacesKept
    BY <1>14, LeavingKeepsPlaces DEF CloseDropped
  <1>15. ASSUME NEW c \in Calls, BackgroundClosed(c) \/ SessionEnds(c) PROVE PlacesKept
    BY <1>15 DEF BackgroundClosed, SessionEnds, UsesInv, SlotInv, MutexInv, CloseInv
  <1>16. ASSUME NEW p \in Procs, Killed(p) PROVE PlacesKept
    <2> USE <1>16 DEF TypeOK, Killed
    <2>1. UsesInv'
      BY DEF UsesInv
    <2>2. SlotInv'
      BY DEF SlotInv
    <2>3. MutexInv'
      BY DEF MutexInv
    <2>4. CloseInv'
      BY DEF CloseInv
    <2> QED BY <2>1, <2>2, <2>3, <2>4
  <1>17. ASSUME NEW p \in Procs, Dropped(p) PROVE PlacesKept
    BY <1>17 DEF TypeOK, Dropped, UsesInv, SlotInv, MutexInv, CloseInv
  <1>18. ASSUME UNCHANGED vars PROVE PlacesKept
    <2>1. UNCHANGED <<pc, uses, slotLink, mutex>>
      BY <1>18 DEF vars
    <2> QED BY <2>1 DEF UsesInv, SlotInv, MutexInv, CloseInv
  <1>19. PlacesKept
    <2> HIDE DEF PlaceInv, PlacesKept
    <2> QED BY <1>1, <1>2, <1>3, <1>4, <1>5, <1>6, <1>8, <1>9, <1>10, <1>11, <1>12, <1>13,
               <1>14, <1>15, <1>16, <1>17, <1>18 DEF Next
  <1> QED BY <1>0, <1>19

\* When nothing of a process is left anywhere, its lock file is free.
LEMMA NothingLeftIsFree ==
    ASSUME HoldInv', PlaceInv', NEW p \in Procs, slotHold'[p] = None, slotLink'[p] = None,
           background' = {}, \A d \in Calls : ProcOf[d] = p => pc'[d] \in {"idle", "done"}
    PROVE  p \notin Holders(None)'
  <1> USE DEF HoldInv, PlaceInv
  <1>1. SUFFICES ASSUME NEW h \in Calls, HeldWithout(h, None)', ProcOf[h] = p PROVE FALSE
    BY DEF Holders
  <1>2. h # None
    OBVIOUS
  <1>3. ~ \E q \in Procs : slotHold'[q] = h
    BY <1>1, <1>2 DEF HoldsStayHome
  <1>4. ~ \E d \in Calls \ {None} : hold'[d] = h
    BY <1>1, <1>2 DEF HoldsStayHome, StartersHold
  <1>5. ASSUME NEW s \in Calls, sess'[s].hold = h PROVE ~AliveWithout(s, None)'
    <2>1. ProcOf[s] = p /\ s # None
      BY <1>1, <1>2, <1>5 DEF HoldsStayHome
    <2>2. ~ \E q \in Procs : slotLink'[q] = s
      BY <2>1 DEF SlotInv
    <2>3. ~ \E d \in Calls \ {None} : uses'[d] = s
      BY <2>1 DEF UsesInv
    <2> QED BY <2>2, <2>3 DEF AliveWithout
  <1> QED BY <1>1, <1>3, <1>4, <1>5 DEF HeldWithout

\* A call of a killed process does nothing more.
LEMMA DeadStays ==
    ASSUME TypeOK, [Next]_vars, NEW c \in Calls, pc[c] = "killed"
    PROVE  pc'[c] = "killed"
  <1>1. ASSUME NEW d \in Calls,
               \/ Begin(d) \/ Enter(d) \/ StaleClosed(d) \/ TakeHold(d) \/ Started(d)
               \/ PairingFails(d)
        PROVE  pc'[c] = "killed"
    BY <1>1 DEF TypeOK, Begin, Enter, StaleClosed, TakeHold, Started, PairingFails
  <1>2. ASSUME NEW d \in Calls, NEW r, Leave(d, r), pc[d] # "killed"
        PROVE  pc'[c] = "killed"
    BY <1>2 DEF TypeOK, Leave
  <1>3. ASSUME NEW d \in Calls,
               \/ StartFails(d) \/ Cancelled(d) \/ Finish(d) \/ Abandoned(d)
               \/ Closed(d) \/ CloseDropped(d)
        PROVE  pc'[c] = "killed"
    BY <1>2, <1>3 DEF StartFails, Cancelled, StartDropped, Waits, Finish, Abandoned, Closed,
                      CloseDropped
  <1>4. ASSUME NEW d \in Calls, TimesOut(d) PROVE pc'[c] = "killed"
    BY <1>2, <1>4 DEF TimesOut, StartDropped, Waits
  <1>5. ASSUME NEW d \in Calls, EnterClose(d) PROVE pc'[c] = "killed"
    BY <1>5 DEF TypeOK, EnterClose, Leave
  <1>6. ASSUME NEW d \in Calls, BackgroundClosed(d) \/ SessionEnds(d) PROVE pc'[c] = "killed"
    BY <1>6 DEF BackgroundClosed, SessionEnds
  <1>7. ASSUME NEW p \in Procs, Killed(p) \/ Dropped(p) PROVE pc'[c] = "killed"
    BY <1>7 DEF TypeOK, Killed, Dropped
  <1>8. CASE UNCHANGED vars
    BY <1>8 DEF vars
  <1> QED BY <1>1, <1>3, <1>4, <1>5, <1>6, <1>7, <1>8 DEF Next

\* A close that returns let go of its slot's session and of its slot's hold.
LEMMA ClosesLetGo ==
    ASSUME PlaceInv, [Next]_vars, NEW c \in Calls, KindOf[c] = "close",
           pc[c] # "done", pc'[c] = "done", result'[c] # "dropped"
    PROVE  slotHold'[ProcOf[c]] = None /\ slotLink'[ProcOf[c]] = None
  <1> USE DEF PlaceInv
  <1>1. TypeOK' /\ pc[c] \in {"idle", "close", "closing"}
    <2>1. pc[c] \in {"idle", "close", "closing", "killed"}
      BY DEF CloseInv
    <2>2. TypeOK'
      BY StepTypes
    <2>3. pc[c] # "killed"
      <3>1. SUFFICES ASSUME pc[c] = "killed" PROVE pc'[c] = "killed"
        OBVIOUS
      <3> QED BY <3>1, DeadStays
    <2> QED BY <2>1, <2>2, <2>3
  <1>2. CASE EnterClose(c)
    BY <1>2 DEF TypeOK, EnterClose, LetGo
  <1>3. CASE Closed(c)
    BY <1>3 DEF TypeOK, Closed, LetGo, SlotInv
  <1>4. ASSUME NEW d \in Calls,
               \/ Begin(d) \/ Enter(d) \/ StaleClosed(d) \/ TakeHold(d) \/ Started(d)
               \/ PairingFails(d)
        PROVE  FALSE
    BY <1>1, <1>4 DEF TypeOK, Begin, Enter, StaleClosed, TakeHold, Started, PairingFails
  <1>5. ASSUME NEW d \in Calls, NEW r, Leave(d, r), pc[d] \notin {"idle", "close", "closing"}
        PROVE  FALSE
    BY <1>1, <1>5 DEF TypeOK, Leave
  <1>6. ASSUME NEW d \in Calls, StartFails(d) \/ Cancelled(d) \/ Finish(d) \/ Abandoned(d)
        PROVE  FALSE
    BY <1>5, <1>6 DEF StartFails, Cancelled, StartDropped, Waits, Finish, Abandoned
  <1>7. ASSUME NEW d \in Calls, TimesOut(d) PROVE FALSE
    BY <1>5, <1>7 DEF TimesOut, StartDropped, Waits
  <1>8. ASSUME NEW d \in Calls, d # c, EnterClose(d) \/ Closed(d) PROVE FALSE
    BY <1>1, <1>8 DEF TypeOK, EnterClose, Closed, Leave
  <1>9. ASSUME NEW d \in Calls, CloseDropped(d) PROVE FALSE
    BY <1>1, <1>9 DEF TypeOK, CloseDropped, Leave
  <1>10. ASSUME NEW d \in Calls, BackgroundClosed(d) \/ SessionEnds(d) PROVE FALSE
    BY <1>10 DEF BackgroundClosed, SessionEnds
  <1>11. ASSUME NEW p \in Procs, Killed(p) \/ Dropped(p) PROVE FALSE
    BY <1>1, <1>11 DEF TypeOK, Killed, Dropped
  <1>12. CASE UNCHANGED vars
    BY <1>12 DEF vars
  <1> QED BY <1>2, <1>3, <1>4, <1>6, <1>7, <1>8, <1>9, <1>10, <1>11, <1>12 DEF Next

\* connect-iroh, close: "lets go of the link, for another process to have".
\* However many calls, processes and crashes there were, a close that returns
\* leaves the lock file free, once nothing else of its process is under way.
THEOREM ClosingFrees == Spec => AClosedLinkIsFree
  <1>1. Init => PlaceInv
    <2>1. Init => TypeOK
      BY DEF Init, TypeOK
    <2>2. Init => UsesInv /\ SlotInv /\ MutexInv /\ CloseInv
      BY DEF Init, UsesInv, SlotInv, MutexInv, CloseInv
    <2> QED BY <2>1, <2>2 DEF PlaceInv
  <1>2. HoldInv /\ PlaceInv /\ [Next]_vars =>
          [\A c \in Calls :
             (/\ KindOf[c] = "close" /\ pc[c] # "done" /\ pc'[c] = "done"
              /\ result'[c] # "dropped"
              /\ \A d \in Calls : ProcOf[d] = ProcOf[c] => pc'[d] \in {"idle", "done"}
              /\ background' = {})
             => ProcOf[c] \notin Holders(None)']_vars
    <2> SUFFICES ASSUME HoldInv, PlaceInv, [Next]_vars, NEW c \in Calls,
                        KindOf[c] = "close", pc[c] # "done", pc'[c] = "done",
                        result'[c] # "dropped", background' = {},
                        \A d \in Calls : ProcOf[d] = ProcOf[c] => pc'[d] \in {"idle", "done"}
                 PROVE  ProcOf[c] \notin Holders(None)'
      OBVIOUS
    <2>1. HoldInv' /\ PlaceInv'
      BY HoldInvStep, PlaceStep
    <2>2. slotHold'[ProcOf[c]] = None /\ slotLink'[ProcOf[c]] = None
      BY ClosesLetGo
    <2>3. ProcOf[c] \in Procs
      OBVIOUS
    <2> QED BY <2>1, <2>2, <2>3, NothingLeftIsFree
  <1> QED BY <1>1, <1>2, HoldInvInit, HoldInvStep, PlaceStep, PTL DEF Spec, AClosedLinkIsFree
===============================================================================
