------------------------------ MODULE LinkHold ------------------------------
(***************************************************************************)
(* Who runs the iroh session of ONE link: crates/connect-iroh/src/mobile,  *)
(* the registry of link.rs and the locks of lock.rs.                       *)
(*                                                                         *)
(* A process keeps the link in a slot: its session, and the process's hold *)
(* on the link (an exclusive lock of the operating system on the link's    *)
(* lock file).  Calls of several tasks enter the slot through its async    *)
(* mutex, one at a time; every call but a close has a deadline, and its    *)
(* future is dropped at any await when it passes.                          *)
(*                                                                         *)
(* A session is named by the call that started it, and so is a hold by the *)
(* call that took it.  Rust frees both when their last owner is gone:      *)
(* `Alive' and `Held' say who the owners are.                              *)
(***************************************************************************)
EXTENDS Naturals, FiniteSets

CONSTANTS Procs,      \* processes of the machine that use the link
          Calls,      \* the calls they make
          ProcOf,     \* the process of each call
          KindOf,     \* what each call is: "use", "pair" or "close"
          Crashes,    \* bound: how many processes are killed
          Ends,       \* bound: how many sessions end by themselves
          None

ASSUME HoldAssumption ==
    /\ ProcOf \in [Calls -> Procs]
    /\ KindOf \in [Calls -> {"use", "pair", "close"}]
    /\ Crashes \in Nat /\ Ends \in Nat
    /\ None \notin Calls \cup Procs

VARIABLES pc,         \* where each call is
          result,     \* what it returned: who held the link, if it was busy
          mutex,      \* the call inside each process's slot
          slotLink,   \* the session the slot keeps
          slotHold,   \* the hold the slot keeps
          hold,       \* the hold a starting call has in hand
          sess,       \* each session: its state and its hold
          uses,       \* the session each call has a handle of
          background, \* sessions being closed by a task of their own
          usable,     \* whether the lock files can be used
          crashes, ends

vars == <<pc, result, mutex, slotLink, slotHold, hold, sess, uses,
          background, usable, crashes, ends>>

\* MUTANT of Waits: the wait for another process is outside the deadline.
WaitsButForTheHold == {"mutex", "stale", "starting"}

\* Where start_link's deadline drops a call.
Waits == {"mutex", "stale", "hold", "starting"}

\* The type invariant.
TypeOK ==
    /\ pc \in [Calls -> {"idle", "mutex", "stale", "hold", "starting", "using",
                         "close", "closing", "done", "killed"}]
    /\ result \in [Calls -> Procs \cup {None, "ok", "failed", "timeout", "dropped"}]
    /\ mutex \in [Procs -> Calls \cup {None}]
    /\ slotLink \in [Procs -> Calls \cup {None}]
    /\ slotHold \in [Procs -> Calls \cup {None}]
    /\ hold \in [Calls -> Calls \cup {None}]
    /\ sess \in [Calls -> [state : {"none", "running", "ended", "closed"},
                           hold : Calls \cup {None}]]
    /\ uses \in [Calls -> Calls \cup {None}]
    /\ background \subseteq Calls
    /\ usable \in BOOLEAN
    /\ crashes \in 0..Crashes /\ ends \in 0..Ends

Init ==
    /\ pc = [c \in Calls |-> "idle"]
    /\ result = [c \in Calls |-> None]
    /\ mutex = [p \in Procs |-> None]
    /\ slotLink = [p \in Procs |-> None]
    /\ slotHold = [p \in Procs |-> None]
    /\ hold = [c \in Calls |-> None]
    /\ sess = [c \in Calls |-> [state |-> "none", hold |-> None]]
    /\ uses = [c \in Calls |-> None]
    /\ background = {}
    /\ usable \in BOOLEAN
    /\ crashes = 0 /\ ends = 0

(***************************************************************************)
(* Ownership: an `Arc' is let go with its last owner.                      *)
(***************************************************************************)

\* Somebody but call c has a handle of session s, so it was not dropped.
AliveWithout(s, c) ==
    \/ s \in background
    \/ \E p \in Procs : slotLink[p] = s
    \/ \E d \in Calls \ {c} : uses[d] = s

\* MUTANT of HeldWithout: a session does not keep the hold it was started with.
HeldBySlots(h, c) ==
    \/ \E p \in Procs : slotHold[p] = h
    \/ \E d \in Calls \ {c} : hold[d] = h

\* The same of the hold h: while it is, the lock file is locked.
HeldWithout(h, c) ==
    \/ \E p \in Procs : slotHold[p] = h
    \/ \E d \in Calls \ {c} : hold[d] = h
    \/ \E s \in Calls : sess[s].hold = h /\ AliveWithout(s, c)

Alive(s) == AliveWithout(s, None)

\* A session that was not closed owns the link's endpoint key.
Owns(s) == sess[s].state \in {"running", "ended"} /\ Alive(s)

\* LinkLocks::holder, asked by call c: the processes that have the file locked.
Holders(c) ==
    IF usable THEN {ProcOf[h] : h \in {g \in Calls : HeldWithout(g, c)}} ELSE {}

(***************************************************************************)
(* Registry::get_or_start                                                  *)
(***************************************************************************)

Leave(c, r) ==
    /\ pc' = [pc EXCEPT ![c] = "done"]
    /\ result' = [result EXCEPT ![c] = r]

Unlock(c) ==
    mutex' = [p \in Procs |-> IF mutex[p] = c THEN None ELSE mutex[p]]

\* MUTANT of LetGo: the hold stays with the slot.
KeepHold(p) == UNCHANGED slotHold /\ p \in Procs

\* Slot::keep_lock(None)
LetGo(p) == slotHold' = [slotHold EXCEPT ![p] = None]

Begin(c) ==
    /\ pc[c] = "idle"
    /\ pc' = [pc EXCEPT ![c] = IF KindOf[c] = "close" THEN "close" ELSE "mutex"]
    /\ UNCHANGED <<result, mutex, slotLink, slotHold, hold, sess, uses,
                   background, usable, crashes, ends>>

\* Inside the slot: a running session is shared and the slot left at once; one
\* that ended is taken out, to be closed first.
Enter(c) ==
    LET p == ProcOf[c]
        s == slotLink[p]
    IN  /\ pc[c] = "mutex"
        /\ mutex[p] = None
        /\ \/ /\ s # None /\ sess[s].state = "running"
              /\ uses' = [uses EXCEPT ![c] = s]
              /\ pc' = [pc EXCEPT ![c] = "using"]
              /\ UNCHANGED <<mutex, slotLink>>
           \/ /\ s # None /\ sess[s].state # "running"
              /\ uses' = [uses EXCEPT ![c] = s]
              /\ slotLink' = [slotLink EXCEPT ![p] = None]
              /\ mutex' = [mutex EXCEPT ![p] = c]
              /\ pc' = [pc EXCEPT ![c] = "stale"]
           \/ /\ s = None
              /\ mutex' = [mutex EXCEPT ![p] = c]
              /\ pc' = [pc EXCEPT ![c] = "hold"]
              /\ UNCHANGED <<uses, slotLink>>
        /\ UNCHANGED <<result, slotHold, hold, sess, background, usable,
                       crashes, ends>>

StaleClosed(c) ==
    /\ pc[c] = "stale"
    /\ sess' = [sess EXCEPT ![uses[c]].state = "closed"]
    /\ uses' = [uses EXCEPT ![c] = None]
    /\ pc' = [pc EXCEPT ![c] = "hold"]
    /\ UNCHANGED <<result, mutex, slotLink, slotHold, hold, background,
                   usable, crashes, ends>>

\* LinkLocks::take, and the hold the slot already keeps.  A call that finds
\* the file locked looks again later: it stays here.
TakeHold(c) ==
    LET p == ProcOf[c] IN
    /\ pc[c] = "hold"
    /\ pc' = [pc EXCEPT ![c] = "starting"]
    /\ \/ /\ slotHold[p] # None
          /\ hold' = [hold EXCEPT ![c] = slotHold[p]]
       \/ /\ slotHold[p] = None /\ usable /\ Holders(None) = {}
          /\ hold' = [hold EXCEPT ![c] = c]
       \/ /\ slotHold[p] = None /\ ~usable
          /\ UNCHANGED hold
    /\ slotHold' = [slotHold EXCEPT ![p] = hold'[c]]
    /\ UNCHANGED <<result, mutex, slotLink, sess, uses, background, usable,
                   crashes, ends>>

Started(c) ==
    LET p == ProcOf[c] IN
    /\ pc[c] = "starting"
    /\ sess' = [sess EXCEPT ![c] = [state |-> "running", hold |-> hold[c]]]
    /\ slotLink' = [slotLink EXCEPT ![p] = c]
    /\ uses' = [uses EXCEPT ![c] = c]
    /\ hold' = [hold EXCEPT ![c] = None]
    /\ Unlock(c)
    /\ pc' = [pc EXCEPT ![c] = "using"]
    /\ UNCHANGED <<result, slotHold, background, usable, crashes, ends>>

(***************************************************************************)
(* Registry::discard: a pairing nobody waits for any more.  It never       *)
(* waits: a slot another call is in keeps its session, not its hold.       *)
(***************************************************************************)
Discard(c) ==
    LET p == ProcOf[c]
        s == slotLink[p]
    IN  /\ LetGo(p)
        /\ IF s # None /\ mutex[p] \in {None, c}
           THEN /\ slotLink' = [slotLink EXCEPT ![p] = None]
                /\ background' = background \cup {s}
           ELSE UNCHANGED <<slotLink, background>>

\* Link::start failed: no session, so the link is let go of.  A pairing also
\* drops its guard.
StartFails(c) ==
    LET p == ProcOf[c] IN
    /\ pc[c] = "starting"
    /\ Leave(c, "failed")
    /\ hold' = [hold EXCEPT ![c] = None]
    /\ LetGo(p)
    /\ Unlock(c)
    /\ UNCHANGED <<slotLink, sess, uses, background, usable, crashes, ends>>

\* get_or_start is dropped at an await: a pairing's guard is armed.
StartDropped(c) ==
    /\ pc[c] \in Waits
    /\ hold' = [hold EXCEPT ![c] = None]
    /\ uses' = [uses EXCEPT ![c] = None]
    /\ Unlock(c)
    /\ IF KindOf[c] = "pair" THEN Discard(c)
       ELSE UNCHANGED <<slotLink, slotHold, background>>
    /\ UNCHANGED <<sess, usable, crashes, ends>>

\* start_link's timeout_at.  Who holds the link is looked up after the drop.
TimesOut(c) ==
    /\ StartDropped(c)
    /\ IF Holders(c) = {} THEN Leave(c, "timeout") ELSE \E q \in Holders(c) : Leave(c, q)

\* The caller stops waiting: a client may drop any of its calls.
Cancelled(c) == StartDropped(c) /\ Leave(c, "dropped")

(***************************************************************************)
(* The rest of a call, and what closes a link.                             *)
(***************************************************************************)

\* The call is over and lets go of its handle; a pairing kept its session.
Finish(c) ==
    /\ pc[c] = "using"
    /\ Leave(c, "ok")
    /\ uses' = [uses EXCEPT ![c] = None]
    /\ UNCHANGED <<mutex, slotLink, slotHold, hold, sess, background, usable,
                   crashes, ends>>

\* pair_on: the wallet did not link, so the session is closed.
PairingFails(c) ==
    /\ pc[c] = "using" /\ KindOf[c] = "pair"
    /\ pc' = [pc EXCEPT ![c] = "close"]
    /\ result' = [result EXCEPT ![c] = "failed"]
    /\ UNCHANGED <<mutex, slotLink, slotHold, hold, sess, uses, background,
                   usable, crashes, ends>>

\* The caller of a pairing stopped waiting: its future is dropped, guard armed.
Abandoned(c) ==
    /\ pc[c] = "using" /\ KindOf[c] = "pair"
    /\ Leave(c, "failed")
    /\ uses' = [uses EXCEPT ![c] = None]
    /\ Discard(c)
    /\ UNCHANGED <<mutex, hold, sess, usable, crashes, ends>>

\* Registry::close
EnterClose(c) ==
    LET p == ProcOf[c]
        s == slotLink[p]
    IN  /\ pc[c] = "close"
        /\ mutex[p] = None
        /\ IF s = None
           THEN /\ LetGo(p)
                /\ Leave(c, IF result[c] = None THEN "ok" ELSE result[c])
                /\ uses' = [uses EXCEPT ![c] = None]
                /\ UNCHANGED <<slotLink, mutex>>
           ELSE /\ slotLink' = [slotLink EXCEPT ![p] = None]
                /\ uses' = [uses EXCEPT ![c] = s]
                /\ mutex' = [mutex EXCEPT ![p] = c]
                /\ pc' = [pc EXCEPT ![c] = "closing"]
                /\ UNCHANGED <<slotHold, result>>
        /\ UNCHANGED <<hold, sess, background, usable, crashes, ends>>

Closed(c) ==
    LET p == ProcOf[c] IN
    /\ pc[c] = "closing"
    /\ sess' = [sess EXCEPT ![uses[c]].state = "closed"]
    /\ uses' = [uses EXCEPT ![c] = None]
    /\ LetGo(p)
    /\ Unlock(c)
    /\ Leave(c, IF result[c] = None THEN "ok" ELSE result[c])
    /\ UNCHANGED <<slotLink, hold, background, usable, crashes, ends>>

\* The caller of a close stops waiting; a pairing that failed has disarmed its
\* guard.  The session may or may not have begun to close, and the hold stays.
CloseDropped(c) ==
    /\ pc[c] \in {"close", "closing"}
    /\ Leave(c, "dropped")
    /\ \/ UNCHANGED sess
       \/ /\ pc[c] = "closing" /\ sess[uses[c]].state = "running"
          /\ sess' = [sess EXCEPT ![uses[c]].state = "ended"]
    /\ uses' = [uses EXCEPT ![c] = None]
    /\ Unlock(c)
    /\ UNCHANGED <<slotLink, slotHold, hold, background, usable, crashes, ends>>

\* close_in_background
BackgroundClosed(s) ==
    /\ s \in background
    /\ sess' = [sess EXCEPT ![s].state = "closed"]
    /\ background' = background \ {s}
    /\ UNCHANGED <<pc, result, mutex, slotLink, slotHold, hold, uses, usable,
                   crashes, ends>>

\* read_events ends: the session is over, for a reason of its own.
SessionEnds(s) ==
    /\ ends < Ends
    /\ sess[s].state = "running" /\ Alive(s)
    /\ sess' = [sess EXCEPT ![s].state = "ended"]
    /\ ends' = ends + 1
    /\ UNCHANGED <<pc, result, mutex, slotLink, slotHold, hold, uses,
                   background, usable, crashes>>

\* The process is killed: the operating system frees its lock.
Killed(p) ==
    LET mine == {c \in Calls : ProcOf[c] = p} IN
    /\ crashes < Crashes
    /\ \E c \in mine : pc[c] # "killed"
    /\ crashes' = crashes + 1
    /\ pc' = [c \in Calls |-> IF c \in mine THEN "killed" ELSE pc[c]]
    /\ mutex' = [mutex EXCEPT ![p] = None]
    /\ slotLink' = [slotLink EXCEPT ![p] = None]
    /\ LetGo(p)
    /\ hold' = [c \in Calls |-> IF c \in mine THEN None ELSE hold[c]]
    /\ uses' = [c \in Calls |-> IF c \in mine THEN None ELSE uses[c]]
    /\ background' = background \ mine
    /\ UNCHANGED <<result, sess, usable, ends>>

\* MobileWalletConnector dropped, with no call on it: take_all.
Dropped(p) ==
    LET s == slotLink[p] IN
    /\ \A c \in Calls : ProcOf[c] = p => pc[c] \in {"idle", "done"}
    /\ s # None
    /\ slotLink' = [slotLink EXCEPT ![p] = None]
    /\ LetGo(p)
    /\ background' = background \cup {s}
    /\ UNCHANGED <<pc, result, mutex, hold, sess, uses, usable, crashes, ends>>

Next ==
    \/ \E c \in Calls :
         \/ Begin(c) \/ Enter(c) \/ StaleClosed(c) \/ TakeHold(c)
         \/ Started(c) \/ StartFails(c) \/ TimesOut(c) \/ Cancelled(c) \/ Finish(c)
         \/ PairingFails(c) \/ Abandoned(c) \/ EnterClose(c) \/ Closed(c)
         \/ CloseDropped(c)
         \/ BackgroundClosed(c) \/ SessionEnds(c)
    \/ \E p \in Procs : Killed(p) \/ Dropped(p)

\* Deadlines pass, awaited sessions close, and tasks are run; nothing makes a
\* call begin, a session end by itself or a process be killed.
Fairness ==
    \A c \in Calls :
        /\ WF_vars(Enter(c)) /\ WF_vars(StaleClosed(c)) /\ WF_vars(TimesOut(c))
        /\ WF_vars(Finish(c)) /\ SF_vars(EnterClose(c)) /\ WF_vars(Closed(c))
        /\ WF_vars(BackgroundClosed(c))

Spec == Init /\ [][Next]_vars /\ Fairness

(***************************************************************************)
(* Properties                                                              *)
(***************************************************************************)

\* Two processes never have sessions of one link at once on a machine whose lock
\* files can be used, whatever was dropped, abandoned, closed or killed in
\* either: "each takes the wallet from the other" (lock.rs).
OneProcess ==
    usable => \A s, t \in Calls : Owns(s) /\ Owns(t) => ProcOf[s] = ProcOf[t]

\* Every call on a link returns: nobody stays in a slot, and a close does not
\* wait for ever behind the calls that come and go.
EveryCallReturns ==
    \A c \in Calls : (pc[c] # "idle") ~> (pc[c] \in {"done", "killed"})

\* Closing the link lets go of it, whatever the calls before did: when a close
\* returns, and no call of the process is under way and none of its sessions is
\* still ending, another process can have the link.
AClosedLinkIsFree ==
    [][\A c \in Calls :
         (/\ KindOf[c] = "close" /\ pc[c] # "done" /\ pc'[c] = "done"
          /\ result'[c] # "dropped"
          /\ \A d \in Calls : ProcOf[d] = ProcOf[c] => pc'[d] \in {"idle", "done"}
          /\ background' = {})
         => ProcOf[c] \notin Holders(None)']_vars

(***************************************************************************)
(* What comments of the code say, and the code does not always do          *)
(***************************************************************************)

\* link.rs, Registry: "two requests on one link never start two sessions (which
\* would share an endpoint key and compete at the relay)".
OneSession ==
    usable => \A s, t \in Calls : Owns(s) /\ Owns(t) => s = t

\* What link.rs says of a start without a session: "the link is let go of, for
\* another process to have".  A hold has a session, or a call that starts one.
HeldForASession ==
    \A p \in Procs : slotHold[p] # None =>
        \/ mutex[p] # None
        \/ slotLink[p] # None

\* What mod.rs says of a busy link: the call waited "for another process of
\* this machine, not for the network".
BusyIsAnother == \A c \in Calls : result[c] # ProcOf[c]
=============================================================================
