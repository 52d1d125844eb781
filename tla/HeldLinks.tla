----------------------------- MODULE HeldLinks -----------------------------
(***************************************************************************)
(* The pairings of one MCP server and the iroh sessions it holds:          *)
(* crates/connector-mcp/src/iroh.rs, link_removal.rs and the pairing tools *)
(* of tools.rs.  A pairing runs in the background and leaves its outcome   *)
(* in a slot for pair_status.  A session is held while calls use it and    *)
(* for an idle time after the last of them; removing or replacing a link   *)
(* lets go of its session whoever uses it.                                 *)
(*                                                                         *)
(* The server is one thread: what is between two awaits is one step.  The  *)
(* links are all of one wallet, each named by the pairing that makes it.   *)
(***************************************************************************)
EXTENDS Naturals, FiniteSets

CONSTANTS Links, Calls

NoLink == "no link"
NotHeld == [users |-> 0, generation |-> 0]

VARIABLES file,       \* links in connector.json
          records,    \* links recorded as paired over iroh: transports.json
          session,    \* links with an iroh session open in this process
          held,       \* Iroh::held; NotHeld for none
          timers,     \* releases scheduled: <<link, generation>>
          closing,    \* links whose close_link is awaited
          turn,       \* what each call is at, and the link it captured
          slot,       \* app.pairing
          attempt,    \* how far each pairing is
          poll,       \* pair_status: what it is at, and the pairing it waits for
          forgotten,  \* links that were let go of for good
          cut         \* links released as idle while a call used them

heldLinks == <<file, records, session, held, timers, closing, turn, slot, attempt,
               poll, forgotten, cut>>

NotPolling == [pc |-> "idle", link |-> NoLink]

HeldLinksInit ==
    /\ file = {} /\ records = {} /\ session = {} /\ timers = {} /\ closing = {}
    /\ held = [l \in Links |-> NotHeld]
    /\ turn = [c \in Calls |-> [pc |-> "idle", link |-> NoLink]]
    /\ slot = NoLink /\ poll = NotPolling
    /\ attempt = [l \in Links |-> "none"]
    /\ forgotten = {} /\ cut = {}

Using(l) == {c \in Calls : turn[c].pc = "using" /\ turn[c].link = l}

\* An entry counts its uses from 1, or has been released since.
IsHeld(l) == held[l].generation > 0

(***************************************************************************)
(* The table of held sessions                                              *)
(***************************************************************************)

\* join, or a new entry with its first user.
Joined(l) == [held EXCEPT ![l].users = @ + 1, ![l].generation = @ + 1]

\* release: the last user schedules the end of the session.
Release(l) ==
    IF ~IsHeld(l) THEN UNCHANGED <<held, timers>>
    ELSE LET users == IF held[l].users > 0 THEN held[l].users - 1 ELSE 0 IN
         IF users > 0
         THEN /\ held' = [held EXCEPT ![l].users = users]
              /\ UNCHANGED timers
         ELSE /\ held' = [held EXCEPT ![l] = [users |-> 0, generation |-> @.generation + 1]]
              /\ timers' = timers \cup {<<l, held[l].generation + 1>>}

\* MUTANT of Adopt: a user that never lets go.
AdoptAndKeep(l) ==
    /\ held' = [held EXCEPT ![l] = [users |-> 1, generation |-> 1]]
    /\ UNCHANGED timers

\* adopt: the session a pairing started, released at once.
Adopt(l) ==
    /\ held' = [held EXCEPT ![l] = [users |-> 0, generation |-> 1]]
    /\ timers' = timers \cup {<<l, 1>>}

\* forget: the record goes, and the session if it is held, whoever uses it.
Forget(l) ==
    /\ records' = records \ {l}
    /\ held' = [held EXCEPT ![l] = NotHeld]
    /\ closing' = IF IsHeld(l) THEN closing \cup {l} ELSE closing
    /\ forgotten' = forgotten \cup {l}

\* MUTANT of StillIdle: whether the link is still held is all that is asked.
StillHeld(l, generation) == held[l].generation >= generation

\* The release was not overtaken by a use.
StillIdle(l, generation) == held[l] = [users |-> 0, generation |-> generation]

\* The idle time of a scheduled release is over.
IdleOver(l, generation) ==
    /\ <<l, generation>> \in timers
    /\ timers' = timers \ {<<l, generation>>}
    /\ IF IsHeld(l) /\ StillIdle(l, generation)
         THEN /\ held' = [held EXCEPT ![l] = NotHeld]
              /\ closing' = closing \cup {l}
              /\ cut' = IF Using(l) # {} THEN cut \cup {l} ELSE cut
         ELSE UNCHANGED <<held, closing, cut>>
    /\ UNCHANGED <<file, records, session, turn, slot, attempt, poll, forgotten>>

\* close_link returns.
Closed(l) ==
    /\ l \in closing
    /\ closing' = closing \ {l}
    /\ session' = session \ {l}
    /\ UNCHANGED <<file, records, held, timers, turn, slot, attempt, poll, forgotten, cut>>

(***************************************************************************)
(* A request: the link is chosen, a dApp check awaited, the link acquired  *)
(***************************************************************************)

\* route_why: over iroh as its record says, over WebRTC without one.
Targets(c, l) ==
    /\ turn[c].pc = "idle" /\ l \in file \cap records
    /\ turn' = [turn EXCEPT ![c] = [pc |-> "checks", link |-> l]]
    /\ UNCHANGED <<file, records, session, held, timers, closing, slot, attempt, poll,
                   forgotten, cut>>

acquire(c) ==
    LET l == turn[c].link IN
    /\ turn[c].pc = "checks"
    /\ IF IsHeld(l)
         THEN held' = Joined(l) /\ turn' = [turn EXCEPT ![c].pc = "using"]
         ELSE turn' = [turn EXCEPT ![c].pc = "opening"] /\ UNCHANGED held
    /\ UNCHANGED <<file, records, session, timers, closing, slot, attempt, poll,
                   forgotten, cut>>

\* open_link_within, after any close of the link that was asked for before it; a
\* call that opened it meanwhile is joined, even by one that failed to.
Opened(c) ==
    LET l == turn[c].link IN
    /\ turn[c].pc = "opening" /\ l \notin closing
    /\ \/ /\ session' = session \cup {l}
          /\ held' = Joined(l)
          /\ turn' = [turn EXCEPT ![c].pc = "using"]
       \/ /\ IF IsHeld(l)
               THEN held' = Joined(l) /\ turn' = [turn EXCEPT ![c].pc = "using"]
               ELSE turn' = [turn EXCEPT ![c].pc = "over"] /\ UNCHANGED held
          /\ UNCHANGED session
    /\ UNCHANGED <<file, records, timers, closing, slot, attempt, poll, forgotten, cut>>

\* LINK_BUSY, or the call is aborted.
NotOpened(c) ==
    /\ turn[c].pc \in {"checks", "opening"}
    /\ turn' = [turn EXCEPT ![c].pc = "over"]
    /\ UNCHANGED <<file, records, session, held, timers, closing, slot, attempt, poll,
                   forgotten, cut>>

\* The call's exchange starts a session that is not there any more.
Exchanges(c) ==
    /\ turn[c].pc = "using" /\ turn[c].link \notin session \cup closing
    /\ session' = session \cup {turn[c].link}
    /\ UNCHANGED <<file, records, held, timers, closing, turn, slot, attempt, poll,
                   forgotten, cut>>

\* LinkTurn, dropped.
TurnEnds(c) ==
    /\ turn[c].pc = "using"
    /\ Release(turn[c].link)
    /\ turn' = [turn EXCEPT ![c].pc = "over"]
    /\ UNCHANGED <<file, records, session, closing, slot, attempt, poll, forgotten, cut>>

\* forget_removed_by_wallet: the call learned that the wallet removed the link.
forget_removed_by_wallet(c) ==
    LET l == turn[c].link IN
    /\ turn[c].pc = "using" /\ l \in session
    /\ file' = file \ {l}
    /\ Forget(l)
    /\ UNCHANGED <<session, timers, turn, slot, attempt, poll, cut>>

(***************************************************************************)
(* remove_wallet                                                           *)
(***************************************************************************)

remove_wallet(l) ==
    /\ poll.pc = "idle" /\ l \in file
    /\ Forget(l)
    /\ poll' = [pc |-> "removing", link |-> l]
    /\ UNCHANGED <<file, session, timers, turn, slot, attempt, cut>>

\* Its session is closed: the SDK retires the link and tells the wallet.
Removed ==
    /\ poll.pc = "removing" /\ poll.link \notin closing
    /\ file' = file \ {poll.link}
    /\ poll' = NotPolling
    /\ UNCHANGED <<records, session, held, timers, closing, turn, slot, attempt,
                   forgotten, cut>>

(***************************************************************************)
(* Pairing                                                                 *)
(***************************************************************************)

\* The pairing in the slot is replaced and aborted, with its session if it runs.
pair_wallet(l) ==
    /\ attempt[l] = "none"
    /\ attempt' = [p \in Links |-> CASE p = l -> "running"
                                    [] p = slot /\ attempt[p] = "running" -> "aborted"
                                    [] OTHER -> attempt[p]]
    /\ slot' = l
    /\ UNCHANGED <<file, records, session, held, timers, closing, turn, poll, forgotten, cut>>

\* pair_in_background ends: linked over one of the transports, or over none.
concluded(l) ==
    /\ attempt[l] = "running"
    /\ \/ /\ attempt' = [attempt EXCEPT ![l] = "iroh"]
          /\ session' = session \cup {l}
          /\ Adopt(l)
       \/ /\ \E how \in {"webrtc", "failed"} : attempt' = [attempt EXCEPT ![l] = how]
          /\ UNCHANGED <<session, held, timers>>
    /\ UNCHANGED <<file, records, closing, turn, slot, poll, forgotten, cut>>

pair_status ==
    /\ poll.pc = "idle" /\ slot # NoLink
    /\ poll' = [pc |-> "waits", link |-> slot]
    /\ UNCHANGED <<file, records, session, held, timers, closing, turn, slot, attempt,
                   forgotten, cut>>

PollEnds ==
    /\ poll.pc = "waits" /\ attempt[poll.link] \in {"running", "aborted"}
    /\ poll' = NotPolling
    /\ UNCHANGED <<file, records, session, held, timers, closing, turn, slot, attempt,
                   forgotten, cut>>

\* The outcome is taken, and app.pairing cleared; finish_pairing saves the link
\* and lets go of the one it replaces.
Collects ==
    LET l == poll.link IN
    /\ poll.pc = "waits" /\ attempt[l] \in {"iroh", "webrtc", "failed"}
    /\ slot' = NoLink
    /\ \/ /\ attempt[l] = "failed"
          /\ poll' = NotPolling
          /\ attempt' = [attempt EXCEPT ![l] = "collected"]
          /\ UNCHANGED <<file, records, held, closing, forgotten>>
       \/ /\ attempt[l] # "failed"
          /\ poll' = [poll EXCEPT !.pc = "saving"]
          /\ file' = {l}
          /\ UNCHANGED attempt
          /\ IF file # {} THEN \E old \in file : Forget(old)
             ELSE UNCHANGED <<records, held, closing, forgotten>>
    /\ UNCHANGED <<session, timers, turn, cut>>

\* The old session is closed; how the new link was paired is recorded.
Recorded ==
    LET l == poll.link IN
    /\ poll.pc = "saving" /\ closing \cap (Links \ file) = {}
    /\ records' = IF attempt[l] = "iroh" THEN records \cup {l} ELSE records
    /\ attempt' = [attempt EXCEPT ![l] = "collected"]
    /\ poll' = NotPolling
    /\ UNCHANGED <<file, session, held, timers, closing, turn, slot, forgotten, cut>>

HeldLinksNext ==
    \/ \E l \in Links :
         \/ Closed(l) \/ remove_wallet(l) \/ pair_wallet(l) \/ concluded(l)
         \/ \E t \in timers : t[1] = l /\ IdleOver(l, t[2])
         \/ \E c \in Calls : Targets(c, l)
    \/ \E c \in Calls :
         \/ acquire(c) \/ Opened(c) \/ NotOpened(c) \/ Exchanges(c) \/ TurnEnds(c)
         \/ forget_removed_by_wallet(c)
    \/ Removed \/ pair_status \/ PollEnds \/ Collects \/ Recorded

(***************************************************************************)
(* Properties                                                              *)
(***************************************************************************)

\* A session does not outlive its use: as long as its link was not let go of for
\* good, somebody uses it, opens it or closes it, or a release that will not be
\* found stale is scheduled (iroh.rs: acquire, release, adopt).
NoSessionIsLeft ==
    \A l \in session \ forgotten :
        \/ l \in closing \/ Using(l) # {}
        \/ <<l, held[l].generation>> \in timers /\ held[l].users = 0

\* The idle time never takes a session from a call that uses it, but for a link
\* that was removed or replaced while it was in use.
IdleIsUnused == cut \subseteq forgotten

\* A pairing that nothing replaced can be collected: pair_status reaches it, or
\* is collecting it (tools.rs: pair_wallet).
PairingCanBeCollected ==
    \A l \in Links : attempt[l] \in {"running", "iroh", "webrtc", "failed"} =>
        \/ slot = l
        \/ poll.link = l
        \/ slot # NoLink     \* replaced by a later pairing
=============================================================================
