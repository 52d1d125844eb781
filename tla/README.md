# A TLA+ model of the Radix wallet connector

This directory models the parts of the repository that talk to a person's
wallet: which conversation or session may use a link and when, how a request is
sent once and its answer awaited, how two transports or several phones race for
one request, what the record shared by the connector processes says of it, and
what the layers below (channels, TURN, reassembly, signaling) and above (the
tools of the MCP server, the wallet side) add to that. TLC checks the models on
small instances; TLAPS proves the most important properties for every value of
the constants.

    tlc -workers 2 -config Converse.cfg MCConverse     # a run
    tlapm ConverseProofs.tla                           # a module of proofs

`PROJECT.json` lists the runs, the lines of source each definition translates
(`map`), the deliberately broken variant each property rejects (`mutants`; the
definitions under a `\* MUTANT of` comment), the theorems, the hazards and the
disagreements found.

## The system

A *link* pairs this machine with one wallet (a phone). A *connector* process
sends a request over the link, a person decides on the phone, and the answer
comes back, minutes later perhaps. There are two transports, iroh and WebRTC.
The pieces, bottom up:

| component (crate) | state it keeps | operations | interacts with | module |
|---|---|---|---|---|
| WebRTC conversation (`connect-webrtc`: `lib.rs`, `connector.rs`, `shared_turn.rs`) | per link and process: a mutex and the time of the last close; per link and machine: a lock file and `<key>.closed`; per call: deadline, attempt, whether the wallet confirmed | request, request if chosen, listen, removal notice, probe, pairing | the signaling server, the wallet (one channel per link), other processes through the lock and the note | `Converse` |
| Signaling and relay (`signaling.rs`, `relay.rs`, `connector.rs`) | the relay's rooms; a negotiation's candidates | join, replay the offer, candidates, answer | below a conversation | `Signaling` |
| Chunking (`chunking.rs`) | messages being reassembled | split, accept, drop the oldest | inside a channel | `Chunking` |
| TURN over TCP, TURN server (`turn_tcp.rs`, `turn_server.rs`) | allocation, permissions, channels, datagrams waiting for a permission | allocate, permit, bind, relay | below the peer connection | `Turn` |
| iroh channel (`connect-iroh/channel.rs`) | per message a stream, a status byte | send with acknowledgement, receive, close | a peer that is this SDK too | `Channel` |
| dApp and wallet side over it (`protocol.rs`, `gateway-tx`) | the request asked and answered; the transaction's status | request, respond, submit, poll | the Gateway, an approver | `WalletSide` |
| Requests and answers (`connect-types`) | none | what is asked, what an answer carries | everything | `Interaction` |
| iroh sessions: who runs one (`connect-iroh/mobile`: `link.rs`, `lock.rs`) | per link and process: a slot with a session and a hold; per machine: a lock file | get or start, close, discard | the calls of a process, other processes | `LinkHold` |
| iroh sessions: calls on one (`mobile/mod.rs`, `inbox.rs`, `link.rs`) | the reader's status, who waits for what, answers nobody asked for | pair, exchange, await, notice | the session library, the wallet | `IrohLink` |
| Errors of a call (`connect-auto/error.rs`) | none | how far each transport got; the one error told | everything above | `Verdict` |
| Race of the transports (`connect-auto`: `connector.rs`, `race.rs`) | who carries the request, who failed | ready, failed, deadline | both transports' futures, in one task | `Race` |
| Whichever phone is opened first (`connect-auto/first.rs`) | the choice, shared by all candidates | claim, listen, answer | every link over each of its transports | `FirstOf` |
| Pairing over both transports (`race.rs`, `connector.rs`) | attempts, a link waiting for its grace period | linked, failed, grace over | both transports' pairings | `Pairing` |
| Links kept in the state file (`kept.rs`, `state.rs`, `link_removal.rs`) | links, removal notices to deliver | add, remove, deliver | the file | `Kept` |
| Record of requests (`connector-mcp`: `outbox.rs`, `exchange.rs`) | `requests.json`, shared by processes; per process, the running calls (`inflight`) | interact, await_response, cancel_request, the abandoned call | the transports, other processes, the client that drops calls | `Outbox` |
| Held sessions and pairings of a server (`iroh.rs`, `link_removal.rs`, `tools.rs`) | users and generation of each held session, the pairing slot | acquire, release, adopt, forget, pair_status | the sessions, the client | `HeldLinks` |
| Request tools (`tools.rs`, `requests.rs`, `gateway.rs`, `rola`) | dApp checks, the challenge of a call | validate, simulate, guard, check the dApp, verify proofs | the record, the Gateway, the wallet's answer | `Tools` |
| Login gate, keystore, address, i18n, diagnostics | a sealed token, an encrypted file; otherwise none | issue, verify, encode, log | | not modelled |

What is hard in it:

* **Concurrency across processes.** Two connectors on a machine share a wallet.
  WebRTC's rendezvous is per link: two at once kill each other's channel. Over
  iroh two sessions of a link take the wallet from each other. Both transports
  use a lock inside the process *and* a file lock, with a deadline.
* **The other side is late.** The wallet notices that a connection went away
  only later, and then closes whatever channel the link has; an answer comes
  when nobody waits for it; it links on a connection that will be dropped.
* **A wallet cannot withdraw a request.** So it must be sent by one transport of
  one link, resent only when unconfirmed, and the caller must be told truthfully
  whether it may be on the phone.
* **Everything may be dropped.** A tool call is a future: the client cancels it
  at any await, and destructors close the channel, note the close, release the
  turn, give up the hold, reset the stream and settle the record.
* **Files with several writers.** `requests.json` and `connector.json` are read,
  changed and written without a lock.
* **Nothing from a peer is to be believed.** A request may be for another
  network, an answer may carry an old signature or one of another key.

## The modules

    SettledLink  <--- implements ---  Converse  -- CallVerdict -- Verdict
    OneCarrier   <--- implements ---  Race, FirstOf  (both extend Verdict)
    Pairing          Outbox           LinkHold         IrohLink
    Channel   Chunking   Signaling   Turn   Kept   HeldLinks
    Interaction <-- WalletSide, Tools
    ConverseProofs   VerdictProofs   AutoProofs   LinkHoldProofs
    OutboxProofs   IrohLinkProofs   PartsProofs   RelayProofs

`MCConverse`, `MCOutbox`, `MCLinkHold` and `MCIrohLink` give one module the
constants of a small instance. `MCAuto` (FirstOf, Race, Pairing) and `MCParts`
(eight modules) hold several: `part` says which one a behaviour is of, and the
variables of the others keep their initial values. These parts share no state
in the code either, so the product would show nothing more and be far larger.

### Converse: a link's conversations over WebRTC

One link is enough: links share no state (the turn, the notes and the wallet's
channel are all per link). A process is an element of `Proc`, a call an element
of `Conv` with a kind:

| kind | call in the code |
|---|---|
| `request` | `send_request`: sends, then listens for its answer |
| `racing` | the same, asking `chosen` before it sends (a race with other links) |
| `listen` | `await_response`: opens a channel only to listen for `Want` |
| `notice` | the notice that the link is removed: ends at its confirmation |
| `probe` | opens a channel and closes it |

`pc` follows a call: `queued` (waits for the process's mutex, `here`), `polling`
(tries the machine's file lock, `machine`), `turn`, `settling`, `connecting`,
`negotiating`, `grace` (SEND_GRACE, reading what the wallet has to say first),
`sending`, `listening`, `done`. `Finish` is every way out of a call that has the
turn: Rust drops the channel, the guard that notes the close, and the turn, in
this order, and the operators `CloseChannel`, `NoteClosed`, `ReleaseTurn` are
those drops. `Again` is the loop of `converse`: it drops the first two and
keeps the turn. `Drop` is the caller dropping the future at any await, `Crash`
the process killed at any point, of which the system only releases the lock.

The wallet is the environment, as the code and its comments describe it: it
keeps one channel per link, confirms what it receives unless it was not reading
yet or refuses it, answers a pending request on whatever channel the link has
then, may remove the link or lose its app, and notices each closed connection
`WALLET_NOTICE` later, when it tears down the channel the link has *at that
moment* (`torn` records it).

A tick is about two seconds. `now` advances only when nothing due is left to do
(`Due`): a timeout fires at its time, and races with what arrives at that time
in any order. `SEND_GRACE` and the polling interval are below a tick.

`SettledLink` is what the turn promises: one channel at a time, each opened
`WALLET_SETTLE` after the last closed. `OneSettledChannel` is the refinement.

### Verdict, CallVerdict: what a caller is told

`WebrtcReach` and `IrohReach` are the two `match`es of `error.rs`, `Unreachable`
the choice among several. `CallVerdict` joins them with Converse to compare
what a call is told with what became of its request.

### Race, FirstOf, OneCarrier, Pairing: `connect-auto`

`OneCarrier` is the promise of a race: chosen once, sent only by the chosen one.

`Race` is one request over a link's transports. The race is one task around a
*biased* `select!`: an arm is polled only when those above it are pending. The
model has one action per arm with that guard (`Polled`), because the order is
what keeps WebRTC, which opens its channel and sends without asking, from
sending after iroh was ready. Iroh's exchange is modelled by its steps: a send
that may have reached the phone is not repeated (`IrohUncertain`), and while it
sends nothing looks at the waiter (`IrohAnswered`).

The wallet may answer before the carrier read its confirmation. `early` is such an
answer until the carrier listens, which then reads it. The deadline around the
send, or a resend on another channel, leaves it unread, and `NoAnswerIsLost`
excepts just these.

`FirstOf` is the same over several links, where a candidate *claims* before it
sends, and the chosen phone may answer over its other transport; `early` is as
in `Race`.

`Pairing` is the pairing's race: a wallet that links over WebRTC waits
`IROH_GRACE` for iroh, which is kept if it links.

### Outbox: the record and the calls that keep it

`disk` is `requests.json`, `Load`/`Save` the two halves of a change, between
which only *other* processes run (within a process the change has no await and
a mutex). `Does` queues the changes a handler makes, in order; `Idle(p)` says it
made them all, and is a guard of the next handler of that process. Calls are
`<<request, "send">>` (interact) and `<<request, "await">>` (await_response);
`stage` is where one is, `steps` the progress its transport reported and its
loop has not read. `Abort` is the client dropping the call: `Unfinished` is the
guard whose `Drop` settles the record. `Dies`/`Starts` are a killed process and
the one started after it. The route (iroh or WebRTC) is chosen at `Init`.

### LinkHold: who runs a link's iroh session

Of `mobile/link.rs` and `lock.rs`, for one link. `slotLink` and `slotHold` are
the registry's slot of each process, `mutex` the async mutex around it. A
session is named by the call that started it and a hold (the file lock) by the
call that took it. Rust frees both when the last `Arc` to them goes: `Alive` and
`Held` enumerate the owners (a slot, a call's handle, a task that closes, a
start under way) instead of counting references.

`Enter` .. `Started` are `get_or_start` with its three awaits; `StartDropped` is
its future dropped at any of them, by the deadline of `start_link` (`TimesOut`)
or by the caller (`Cancelled`). `Discard` is the guard of a pairing, which never
waits and leaves the session to a background task when it may take it out of
the slot. `EnterClose`, `Closed` and `CloseDropped` are `close`. `Killed` ends a
process, of which the system releases the locks, and `Dropped` is the connector
itself dropped when no call is on it, which ends the sessions it has.

### IrohLink: calls on one session

`events` is what the session library queued, in order, for the one task that
reads them: `CountsState` and `Publishes` are two steps, as there is an await
between them. `waiting`, `unclaimed` and `old` are `inbox.rs`. `Pair` is the
call that waits for the wallet to link, on a connection of its own that is
dropped afterwards (`linkedOn` is that connection, `dropped` records what was
lost on which, `grace` that the grace period ended the wait). The other calls are an exchange, an await or a
removal notice; `taken` counts the requests the wallet took of each. `Sends` has
every outcome of the library's send, and `AfterSend` what the code does next.

### Channel, Interaction, WalletSide: one SDK to another

`Channel` is one direction: every message a stream in three pieces (length,
body, end) that arrive as they are written, and a status byte back. Both ends
may be cancelled anywhere; `inbound` is what a cancelled receive keeps.
Messages of all kinds arrive, those of another implementation too.

`Interaction` is what a request asks and an answer carries. `WalletSide` runs a
dApp's requests against a wallet's `respond`: check the network and the
manifest, ask, sign, submit, poll. The Gateway may fail before or after it did
what it was asked, and `ledger` is what really happened.

### HeldLinks, Tools, Kept: the MCP server

`HeldLinks` is one thread: what is between two awaits is one step. `held` has
the users and the generation of `Iroh::held`, `timers` the releases scheduled
with the generation they saw, `slot`/`attempt`/`poll` a pairing and who collects
it. `forgotten` remembers the links let go of for good.

`Tools` follows a call of a request tool through its checks in the code's
order. Signatures are records of a key and the message signed; a wallet may
answer with any that exists, made now by its own key or earlier and elsewhere.

`Kept` has tasks that change the state file at the same time: those one program
spawned (`kept.rs:241`, `306`) and those of other programs, which the code treats
alike, as nothing locks the file. Each loads its copy (`Update`), then writes it
in place (`SaveBegins` empties the file, `SaveEnds` writes it). A task whose file
another one wrote meanwhile `mixes` its write with that one's, so the file may be
`torn`; `Killed` leaves an emptied one torn, too. `over` holds the removals that
were saved since a task loaded its copy, and `undone` those which such a copy was
then written over. `Tells` and `Told` are the delivery of a notice.

### Turn, Chunking, Signaling: below a WebRTC channel

`Turn` is the driver's `drive` loop on one end of a stream and the relay's
session on the other, one action per frame read. `turn_server.rs` permits every
peer; another relay may refuse one (`ReadsForbidden`). `Chunking` is the
reassembler under packages of several messages interleaved. `Signaling` has the
relay's rooms, the websockets as queues (`box`, `out`), the extension's
negotiation and several wallets that come and go.

## The runs

| run | instance | shows |
|---|---|---|
| `converse` | 2 requests (one racing) in 2 processes, 2 attempts, no crashes; 1.0 M states | `OneConversation`, `NoChannelTorn`, `BusyMeansNothingSent`, `TurnIsFreed`, `TimeoutsTellWhatHappened`, `NothingConfirmedIsResent`, and the refinement `OneSettledChannel` |
| `converse_crash` | a notice, a listener and a probe in 2 processes that may be killed; 142 K states | the liveness `EveryCallReturns` |
| `auto` | 2 links with 4 candidates; every plan of a race and of a pairing; 119 K states | one carrier (`OneCarries`, `RaceHasOneCarrier`, refinements), the answer kept and from the right phone (`TheChosenAnswers`, `NoAnswerIsLost`, `RaceKeepsTheAnswer`), exact errors (`RaceSaysNoNetwork`, `AFailureLeavesTheOther`), the pairing (`NoLinkIsLost`, `IrohIsPreferred`), and that all end (`EveryRequestReturns`, `LinkedPairingEnds`) |
| `outbox` | 2 requests, a process killed at any step and its successor, both routes; 1.7 M states | `DeliveryIsRecorded`, `AnswerIsRecorded`, `SendingOverIroh` |
| `link_hold` | 2 processes: a pairing, a use and a close in one, a use in the other; one killed, one session ending by itself; 153 K states | `OneProcess`, `AClosedLinkIsFree`, `EveryCallReturns` |
| `iroh_link` | a pairing, an exchange, and a second call of every kind; 2 connections of the wallet; 230 K states | `AskedOnce`, `WaitedForIsNotKept`, `NotOverTheLinking`, `CallsReturn` |
| `parts` | eight modules, one at a time; 1.4 M states | `SendTellsTheTruth`, `ClosingConfirms` (Channel); `AnswerIsTrueOfTheLedger`, `OnlyWhatWasAskedIsSigned` (WalletSide); `NoSessionIsLeft`, `IdleIsUnused` (HeldLinks); `RemovalIsKept` (Kept); `VerifiedIsOfThisRequest` (Tools); `TheBurstArrives` (Turn); `EveryMessageIsTold` (Chunking); `EveryWalletIsOffered` (Signaling) |

The other five are counterexamples to what a comment of the code says:

| run | comment | what happens |
|---|---|---|
| `converse_verdict` | `NoNetwork`: "Nothing was sent." | a request is sent and its channel is lost before the confirmation, with no time left to send again: `NoNetwork` |
| `outbox_stop` | `Ended::Cancelled`: "`cancel_request` stopped it." | `await_response` for a request whose call still runs stops that call, then is stopped itself |
| `outbox_stuck` | a record still `sending` "belongs to a process that died" | over WebRTC a call cancelled while the link settles leaves `sending` |
| `link_twice` | "two requests on one link never start two sessions" | a close is dropped before it ended while another call uses the session; the next request finds an empty slot with its hold and starts a second one |
| `turn_refused` | a refused peer is left out of `requested` "so a later datagram retries" | nothing takes it out: later datagrams only queue |

### Bounds, and why they are enough

* Converse: `LastStart` (no call starts later) and `MaxAnswers` (unread answers
  in a channel) bound the behaviours; nothing else is cut. Two conversations in
  two processes meet at every point of the turn; a third would only queue
  behind. `Budget = 5`, `WALLET_SETTLE = 2`, `RESEND_MARGIN = 0` leave room for a
  second and just for a third attempt after settling, and for none after that:
  both sides of `TimeForAnother` are taken, and so are `Settle` and
  `SettleBusy`. The margin of zero is harder than the code's 10 s: what holds
  without it does not depend on it. `LastStart = 1` lets the second call start
  while the first is queued, connecting, open or over. `SEND_ATTEMPTS = 2` is
  the code's 3 reduced by one: a first, a repeated and a refused attempt all
  occur. `WALLET_NOTICE = 1 < WALLET_SETTLE` is what the code's comment claims
  of its constant; with a later notice `NoChannelTorn` does not hold, nor does
  the code say so.
* Converse with crashes is a smaller instance with the other three kinds.
  `NoChannelTorn` is not checked there: a killed process notes nothing, which
  `connector.rs` documents as not covered.
* FirstOf, Race and Pairing have no bound: their state is finite. FirstOf with
  two links of two transports has every pair of candidates: same link, same
  transport, neither.
* Outbox: two requests from two processes that run one after the other
  (`AtFirst`, `Starts`) show the restart; two at once lose updates (see
  "Noticed"). Each request is awaited later at most once, and cleared at most
  once.
* LinkHold: `Crashes = 1` and `Ends = 1` (a session that ends by itself). The
  four calls are one of each kind in a process and one in another, so every
  pair of kinds meets in the slot and the file lock is contended; any of them
  may be dropped at any await. The theorem removes the bound.
* IrohLink: `UNCLAIMED_MAX = 1` makes the cache overflow with two answers, where
  the code keeps more. `Connections = 2` is the linking and one regular
  connection, or one lost and one after it. `MaxEvents = 3` unread events let a
  state change and an answer be read late and in both orders, behind the end of
  the connection they are about. The theorems about it have no bounds.
* Channel: 2 messages, so that the confirmation of one meets the next.
* WalletSide: 2 requests, so that the answer to a dropped call meets the next
  one; 2 polls (`COMMIT_POLLS`), a first and a last.
* HeldLinks: 2 links, one replacing the other, 2 calls on them.
* Kept: 2 links of 2 wallets, and 2 tasks, which are interchangeable (the
  symmetry of the run; the tasks occur in no liveness property). Two tasks lose
  each other's updates, mix their writes and are killed at every step; the
  theorem is for any number of them.
* Tools: 2 calls, so that a signature made for one can be replayed to the other;
  signatures made elsewhere exist from the start.
* Turn: 2 peers, 2 datagrams each, `MaxQueued = 1`: the queue overflows.
* Chunking: messages of 2, 0, 1 and 2 chunks, `MaxInFlight = 2`: the third at
  once drops the oldest.
* Signaling: 2 sockets of a wallet (an old one and the next), 2 candidates.

### Fairness, and why the code justifies it

* `Converse`: weak fairness of each call's steps (the runtime polls a future
  that was woken), of the clock and of the wallet's notices. None for the
  wallet: `EveryCallReturns` holds whatever the wallet and the person do,
  because every wait has a deadline.
* `Race`: weak fairness of the call's step (it is one task) and of the deadline.
* `FirstOf`: weak fairness of each candidate (`FuturesUnordered` polls all that
  were woken), of the loop and of the deadline.
* `Pairing`: strong fairness of reading an ended attempt and the elapsed timer.
  The arm above them reports iroh's progress and would delay them for ever if
  iroh made a step on every poll. It makes a handful: progress is reported a
  few times per attempt, so the arms below are polled again and again. WebRTC's
  attempt ends, by its own timeout.
* `LinkHold`: weak fairness of what a call does inside the slot, of its deadline
  and of a session's end (the library's close has a timeout). Strong fairness of
  `EnterClose`: the async mutex is a fair queue, so a close is not overtaken for
  ever by the calls that come and go. Nothing makes a call begin.
* `IrohLink`: weak fairness of the reader and of each call's own steps; strong
  fairness of a deadline, which passes whether or not other things wake the call
  meanwhile. None for the wallet.
* `Outbox` and the modules of `parts` have safety properties only.

## The proofs

Eight modules, for any number of conversations, calls, processes, links,
candidates, requests, messages, peers and wallets, any budgets and any queues:

| module | theorems | of |
|---|---|---|
| `ConverseProofs` | `OneAtATime` (with a shared directory), `TurnComesBack`, `BusyIsBeforeSending`, `ConfirmedIsFinal`, `NothingIsTorn`, `LinkIsSettled` (the refinement of `SettledLink`), `TimeoutsAreTrue`, `TypeCorrect` | Converse; CallVerdict |
| `LinkHoldProofs` | `OneProcessPerLink`, `ClosingFrees`, `TypeCorrect` | LinkHold |
| `VerdictProofs` | lemmas about `Unreachable` | Verdict |
| `AutoProofs` | `OneCarrierSends` (the refinement of `OneCarrier`), `ChosenAnswers`, `AnswerIsKept`, `TypeCorrect`; `RaceSendsOnce` (the refinement of `OneCarrier`), `RaceAnswers`, `RaceNoNetworkExact`, `RaceTriesEach`; `LinkIsKept`, `IrohIsKept`, `PairingTriesEach` | FirstOf; Race; Pairing |
| `IrohLinkProofs` | `IsAskedOnce`, `NobodyWaitsInVain`, `LinkingIsLeft` | IrohLink |
| `OutboxProofs` | `ReturnedIsRecorded`, `KnownIsRecorded`, `SendingIsTrue` | Outbox |
| `PartsProofs` | `RemovalStays` (Kept), `SessionsAreClosed`, `IdleEndsNoUse` (HeldLinks), `VerifiedIsFresh` (Tools), `AnswersAreTrue`, `SignedWasAsked` (WalletSide), `SendsAreTrue`, `ClosingIsConfirmed` (Channel), `MessagesAreTold` (Chunking) | six of the modules of `parts` |
| `RelayProofs` | `TheLatestArrive` (Turn), `WalletsAreOffered` (Signaling) | the other two |

`PROJECT.json` says what each establishes and which property of a run it states.

### What they assume

The assumptions are the named `ASSUME`s of the modules: `ConverseAssumption`
(the kinds of the constants, `Budget > 0`, at least one attempt, `None` is no
conversation), `FirstOfAssumption`, `NobodyAssumption`, `NoTransportAssumption`
(nobody is no transport), `HoldAssumption` and `IrohLinkAssumption` (what the
constants are), `OutboxAssumption` (what they are; a request is neither a call
nor the name of a progress step) and `PartsAssumption` (numbers are numbers, the
server's calls, the peers and the wallets are finitely many, at least one message
is reassembled at once, a queue holds at least one datagram, and no peer or wallet
is one of the names for nobody).
`ToolCalls` is at most three there, since the fresh challenges are listed in
`Tools!Fresh`.

Some theorems have a hypothesis, because the code promises no more:

* `SharedDir` for `OneAtATime`: without the directory the turn is of a process
  only. `OneProcess` carries its condition itself: a machine whose lock files
  cannot be used promises nothing.
* `SharedDir /\ ~Crashes` for `NothingIsTorn` and `LinkIsSettled`: a killed
  process notes no close, as the code says of it, and without the directory no
  other process reads the note. `NothingIsTorn` also has `WALLET_NOTICE <
  WALLET_SETTLE`, the claim of the comment at `WALLET_SETTLE`: how soon a wallet
  notices is the wallet's.
* `OneAtATime` of `OutboxProofs` (at most one process is there at first, and
  another starts when it is gone): `requests.json` is read, changed and written
  under a lock of the process only, so two processes lose each other's changes.
  It is what the run `outbox` checks, with a killed process and its successor.
* `~EarlyAwait` for `SendingIsTrue`: an `await_response` of a request whose call
  still runs takes its place in `App::inflight`, so both are stopped (the run
  `outbox_stop`) and the record keeps saying "sending".

### The arguments

None of the properties is inductive. Each module has an invariant that is, each
action a lemma that says it keeps it (or a group of actions that disturb the
same part), and the theorem reads the property off.

**Converse.** `IInv` is:

* `TurnInv` ties the locks to the program counters, both ways: who is past the
  mutex holds it, who is past `take_turn` holds the machine's lock, and a lock
  is held only by someone who is there. The second direction is what a crash
  and a dropped future need, and what `TurnIsFreed` reads off.
* `SendInv` relates the number of sends to the attempt and the phase: before a
  send it is less than the attempt, a call in `sending` or in `grace` with
  something to send was not confirmed, one in `listening` was. `ConfirmedIsFinal`
  is its consequence: `Send` is only enabled for what is not delivered.
* `NotesInv` says that a note is never of the future and, for a call that goes
  around the loop again, that settling ends before its deadline. It is what
  makes `SettleBusy` impossible for a request that was sent: `TimeForAnother`
  left more than `WALLET_SETTLE`, the close was noted at `now`, and no other
  conversation can write a later note while this one holds the turn (`OthersNotes`;
  without the shared directory, notes of other processes are not read).

`SettledInv` relates the channels to the notes: every close was noted, unless
the conversation whose channel died is still there to note it; whoever opens a
channel, or is about to, found the last note `WALLET_SETTLE` old; and a close
is noticed within `WALLET_NOTICE` of the last note. Its proof sorts the steps by
what they do to the channels (`Moves`, `Closes`, `Dies`, `Stays`) before it looks
at the invariant, and `LinkIsSettled` uses the same sorting for the steps of
`SettledLink`. `TellsInv` says what a timeout found: a request in `sending` was
put on a channel, and each timeout is of its own phase.

The three shared endings (`FinishKeeps`, `AgainKeeps`, `LeaveQueueKeeps`) carry
most of the actions.

**FirstOf.** Only the chosen candidate is past its claim, and an answer only came
to a transport of the chosen link (`CameInv`). While one is unread somebody
listens where it is, or is the carrier and will (`Listener`), unless it was
`early`. `reaches` holds what the failures said; `LeastNatural` gives the *first*
final error of a list of any length.

**Race.** `PlaceInv` says for each place of the task who carries the request and
who still may. `WebrtcInv` is why WebRTC, which never asks, sends alone: the
opening of its channel is read before its future is polled again, so it is past
its grace only as the carrier or with that news unread. `AnswerInv`: the answer
came to a transport that is still listened to, or was `early`. `ReachInv`: what
the race counted is what its failures said, so "no network" is told of all of
them or not at all.

**Pairing.** `KnownInv`: while the pairing runs, the wallet linked exactly over
the transports whose attempt is unread as linked, and over WebRTC while it waits
for iroh, which is then still trying.

**LinkHold.** That two processes have no sessions of a link at once follows from
who *owns* the lock file, and ownership is spread over slots, handles, sessions
and tasks. `HoldInv` adds to the types:

* `StartersHold`: a call that starts a session has a hold in hand, while lock
  files can be used. `SessionsHold`: every session still open has a hold.
* `HoldsStayHome`: a hold in a call's hand, in a slot or with a session is of
  that process.
* `HoldsAgree`: all holds that anybody owns are of one process.

All actions but two only take owners away: `NothingTaken` says so once, and
`HeldShrinks` that then no hold can come to life (a session that is `Alive`
after such a step was before it, a hold `Held` after it was before it). What is
left is `TakeHold`, which takes the lock only when nobody has it, and `Started`,
which passes it from a call to its session. The property is then immediate: two
open sessions have holds, which agree, and each is of its session's process.
`ClosingFrees` needs where everything is (`PlaceInv`): slots and calls have
sessions of their own process, whoever waits in a slot has its mutex, and so the
slot that a close emptied is still empty when it lets go.

**IrohLink.** `AskedInv` counts: a request was taken at most once, and not at all
while its call is on the way to sending it. `WaitedForIsNotKept` is inductive
with the types, since a call that registers takes what is kept first. `LinkInv`
says what nothing else in the code does: while the wallet is on the connection
it linked over, the `linkClient` is the last event and the number of states read
is still the one it was read with, so only the grace period lets the pairing
return; and no other call begins before that.

**Outbox.** A change is queued by a handler and made by two later steps, so the
file is behind what the calls know. `Soon(p, r)` is what the record of `r` says
once the change that `p` queued is made, and the invariant speaks of it:
`OneThread` (one process, whose thread is in one place), `QueueInv` (the queued
change fits what the file says, and takes no answer back), `RecordInv` (where a
request's calls may be given what its record is about to say), `CallInv` (the
progress a call has not read, and what it returned, are of it), and with them
`DeliveredInv` and `SendingInv`, the properties about `Soon` in place of the
file.

**Kept.** `Keeps` is said of the file and, in `CopyKeeps`, of each copy a task is
about to write: a link removed here is not in it and its notice is, except for
the removals `undone` in the file, and for those in `over` in a copy. A save
(`SaveEnds`) makes its copy the file, its `over` part of `undone`, and its own
removal part of the `over` of the others. So nothing is assumed of how many tasks
there are or of where each is.

**HeldLinks.** `Counted`: the entry of a held link counts exactly the calls that
use it (`Cardinality`), and when it counts none a release with its present
generation is scheduled. `OneLink` and `LinkedFirst` say that the file has at
most the link that was paired last.

**Tools.** `Unsigned`: nobody signed a call's own challenge before the call sent
it. What was there before (`before`) is therefore not of it.

**WalletSide.** `AtWork` is what the wallet's request passed on its way to where
it is (refusals, the approval, no answer yet, nothing on the ledger before
submitting), `TellsTheLedger` what an answer given says of the ledger, which
only moves on.

**Channel.** `StreamInv` relates the two ends of a stream (what was written, what
the receiver answered and whether it handed the message over), `SentInv` what a
send may return, and `InboundInv` what a half-read message may be. That the last
message's confirmation arrived when the receiver closed is part of it.

**Chunking.** A message whose `metaData` left is waited for or told of, not both
and once (`Once`); one that is waited for lacks what did not leave yet.
`OnceMore` and `OnceLess` are the lemmas about sequences this needs: an element
added at the end, and one removed anywhere.

**Turn.** `ChannelsAreOfPeers`: a channel is of one permitted peer, and the relay
bound it before the client uses it, which is why a datagram sent over a channel
and one sent with the peer's address reach the same peer in the order they were
sent in. `FramesAreGood` says that of what is still in the stream, so the relay
drops nothing of it. `PeersAreServed`: a peer not yet permitted has nothing but
its queue, the latest of what was sent; of one that is, `Latest` says that what
left and what is in the stream follow each other without a gap. The stream is
shared by all peers, so `Way` is the set of positions a peer's datagrams have in
it: a frame taken from its head shifts them (`LatestShifts`, or `LatestLeaves`
for its owner), one put behind leaves them alone or adds one (`LatestMore`,
`LatestAdds`), and a permission adds the whole queue (`LatestGoes`).

**Signaling.** `Offered`: what a wallet has, what is in its box and what is on the
way to it are three runs of numbers (`Run`), each from where the one before ends;
reading moves a number from the second to the first, routing from the third to
the second. `Announcements`: a wallet is announced once, so it is offered once;
and a wallet that is announced or away is `Fresh`, with nothing of this
negotiation. Like the property, the invariant says nothing once the negotiation
ended.

### What is only model-checked

Of what the passing runs check, the liveness properties: `EveryCallReturns` of
Converse and of LinkHold, `EveryRequestReturns`, `LinkedPairingEnds` and
`CallsReturn`. TLAPS does not do fairness and ENABLED. Every invariant, action
property and refinement of those runs is stated by a theorem.

## Noticed, without a run of its own

Stated as a definition of a module, and false (or not checked) as it stands:

* `Outbox!OneInTheQueue` (`exchange.rs:187`, "refuses to send while an earlier
  request may still be waiting"): two calls pass the guard while the first
  awaits its dApp check. Two processes also undo each other's changes of the
  record.
* `Race!DeadlineMeansNothingSent` (`connector.rs:639-647`): at a race's deadline
  the carrier is counted as unreachable, although it sent.
* `HeldLinks!PairingCanBeCollected` (`tools.rs:882`): `pair_status` awaits the
  outcome of one pairing and then clears the slot, in which there may be a newer
  one by now.
* `LinkHold!HeldForASession` (`link.rs:417-424`) and `BusyIsAnother`
  (`mod.rs:428`): a start that is dropped leaves its hold in the slot, so the
  link stays held without a session, and a call may be told of a busy link
  whose holder is its own process.
* `IrohLink!NoAnswerDiesWithItsWaiter` (`inbox.rs:3-9`): an answer that comes
  while its call still awaits the confirmation of the request is lost when the
  deadline passes there: the call ends as unconfirmed. `Race` and `FirstOf` have
  the same (`early`, `connect-iroh/src/mobile/mod.rs:1261`).
* `Signaling!TheWinnerHasEveryCandidate`: local candidates go to the wallet that
  appeared last, the answer may come from the one before.
* `WalletSide!AnswersAreOwn`: after a dropped call, the next one takes the answer
  to the one before for its own and returns that transaction's id.
* `WalletSide!RejectedIsForGood`: `submit` says `SubmitRejected` of every answer
  that is not a success, the Gateway's own failures too.

Seen while reading:

* `tools.rs` (about 1196) says that only a definitive simulated failure blocks a
  transaction; `gateway.rs` counts any 4xx and a missing receipt as one.
* A pairing dropped while it closes after failing leaves its hold (`mod.rs:582`:
  the guard is disarmed before the close).
* A finished pairing that nobody collected is replaced by the next
  `pair_wallet`.
* Tasks of one process and of several lose each other's updates of
  `connector.json`, and a writer killed half-way, or two that write at once, leave
  a file that does not parse. `Kept` has all of it, and `RemovalIsKept` excepts
  just these cases (`undone`, `torn`).
* A call that opens a session of a link after that was removed or replaced
  (`HeldLinks`: `Exchanges` of a `forgotten` link) schedules nothing that closes
  it. `NoSessionIsLeft` and `IdleIsUnused` except these.
* `transports.json` is written only after the old session was let go of, which
  is awaited.
* `turn_server.rs` keeps `peers` over a refresh to zero and a new allocation.
* The extension's socket stays in the relay's room until its next event.
* The open timeout of a channel counts twice (connecting to signaling, then the
  negotiation), so a call may outlast its budget.
* Another request's answer that arrives behind the wanted one goes with the
  channel.
* `cancel_request` speaks of a request that another process is sending by what
  the record says; only the last 200 records are kept.
* A client that reuses the id of a running call overwrites its abort handle.
* Only the first proof of an account proof is verified and shown.

## What is left out

In the modelled parts:

* Converse: the content of messages; a negotiation fails or succeeds, its
  messages are Signaling's; pairing over WebRTC is its outcome in Pairing;
  progress reports.
* A process killed between the close of a channel and its note: `Crash` happens
  between actions, and `Finish` is one.
* Race: the probe of a link and the delivery of removal notices around it.
* FirstOf: a wallet that answers and removes the link before the chosen call
  registered to wait; a WebRTC candidate that is not chosen is dropped before
  anything could be answered over it.
* Outbox: a record stops counting after 15 or 16 minutes, and only the last 200
  are kept; `ignore_pending`; a write that fails; a wallet whose app loses its
  queue; `check_wallet_connection`.
* Channel, IrohLink: the endpoint, the invitation and the session library are
  their interface; diagnostics and progress.
* WalletSide, Tools: JSON, manifests (a transaction is a network and whether it
  is open-ended), quantities and persona data; building and compiling a
  transaction; linking messages; signed documents and delegations of `rola`.
* HeldLinks, Kept: names and identities of links, the wording of tools, the
  tools that only read.
* Turn: refresh, the splitting of the stream into frames, TLS. The TURN library
  is external.
* Signaling: encryption: a payload opens with the password of its link only.

Not modelled at all, and why: the login gate (two pure functions around a
sealed token), the keystore (an encrypted file), texts (`i18n`), encodings
(`address`), encryption and signatures (`crypto.rs`, most of `rola`), logging,
display and updates (`diag.rs`, `trace.rs`, `qr.rs`, `update.rs`), the tests
that need a network (`e2e_iroh.rs`) and re-exports (`sdk`, `connect`): no state,
or none that a model checker helps with.

## The plan

Done: (1) Converse with SettledLink, Verdict and CallVerdict; (2) Race, FirstOf,
Pairing with OneCarrier; (3) Outbox; (4) LinkHold and IrohLink; (5) Kept; (6)
HeldLinks and Tools; (7) Channel, WalletSide, Chunking, Turn, Signaling; (8)
proofs of what the runs of all of them check, but liveness.

Next: a composition of HeldLinks with LinkHold (the server's idle timers over the
registry's slots), and the challenge of `gate` as a token that is used twice.
