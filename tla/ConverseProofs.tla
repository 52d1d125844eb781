---------------------------- MODULE ConverseProofs ----------------------------
(***************************************************************************)
(* Converse for any conversations, processes, budgets and waits: one       *)
(* conversation at a time on the link, nothing confirmed is sent again,    *)
(* LinkBusy is told only when nothing was sent, one settled channel at a   *)
(* time, and a timeout tells how far the request got.                      *)
(***************************************************************************)
EXTENDS CallVerdict, SequenceTheorems, TLAPS

\* Who holds the process's mutex and the machine's lock, and where they are.
TurnInv ==
    /\ \A c \in Conv :
          /\ pc[c] \in {"polling"} \cup HoldsTurn => here[ProcOf[c]] = c
          /\ SharedDir /\ pc[c] \in HoldsTurn => machine = c
          /\ machine = c => pc[c] \in HoldsTurn
    /\ \A p \in Proc, c \in Conv :
          here[p] = c => ProcOf[c] = p /\ pc[c] \in {"polling"} \cup HoldsTurn

BeforeSending == {"turn", "settling", "connecting", "negotiating", "grace"}

\* How often a message was sent, against where its conversation is and what
\* it knows.
SendInv ==
    \A c \in Conv :
        /\ pc[c] \in {"idle"} \cup Queueing => sends[c] = 0
        /\ pc[c] = "sending" => Sends(c)
        /\ Sends(c) /\ pc[c] \in {"grace", "sending"} => ~delivered[c]
        /\ pc[c] = "listening" => delivered[c]
        /\ Kind[c] # "notice" => sends[c] <= attempt[c]
        /\ Kind[c] # "notice" /\ pc[c] \in BeforeSending /\ ~delivered[c] =>
              sends[c] < attempt[c]

\* The notes of the last close, against the budget of a conversation that
\* goes around the loop again.
NotesInv ==
    /\ closedDisk <= now /\ \A p \in Proc : closedHere[p] <= now
    /\ \A c \in Conv : pc[c] = "turn" /\ sends[c] > 0 => SettledAt(c) < deadline[c]

ResultInv ==
    \A c \in Conv :
        /\ result[c] # "none" => pc[c] = "done"
        /\ result[c] = "LinkBusy" => sends[c] = 0

IInv == TypeOK /\ TurnInv /\ SendInv /\ NotesInv /\ ResultInv

Phases == {"idle", "done"} \cup Queueing \cup HoldsTurn

-----------------------------------------------------------------------------
(* Ending a call, and going around the loop again *)

LEMMA InitKeeps == Init => IInv
  <1> SUFFICES ASSUME Init PROVE IInv
    OBVIOUS
  <1> USE ConverseAssumption DEF Init
  <1>1. TypeOK
    <2>1. incoming \in [Conv -> Seq(Conv \cup {Removed})]
      OBVIOUS
    <2>2. attempt \in [Conv -> 1..SEND_ATTEMPTS] /\ delivered \in [Conv -> BOOLEAN]
      BY DEF Sends
    <2> QED BY <2>1, <2>2 DEF TypeOK, Wires, Results, Queueing, HoldsTurn
  <1>2. TurnInv
    BY DEF TurnInv, Queueing, HoldsTurn
  <1>3. SendInv /\ NotesInv /\ ResultInv
    BY DEF SendInv, Queueing, BeforeSending, NotesInv, ResultInv
  <1> QED BY <1>1, <1>2, <1>3 DEF IInv

\* What each of the shared effects leaves, and what it disturbs.
LEMMA TurnTypes ==
    ASSUME NEW c \in Conv, ReleaseTurn(c),
           here \in [Proc -> Conv \cup {None}], machine \in Conv \cup {None}
    PROVE  here' \in [Proc -> Conv \cup {None}] /\ machine' \in Conv \cup {None}
  BY DEF ReleaseTurn

LEMMA NoteTypes ==
    ASSUME NEW c \in Conv, NoteClosed(c),
           now \in Nat, closedHere \in [Proc -> Int], closedDisk \in Int
    PROVE  closedHere' \in [Proc -> Int] /\ closedDisk' \in Int
  <1>1. now \in Int
    OBVIOUS
  <1>2. closedHere' \in [Proc -> Int]
    BY <1>1 DEF NoteClosed
  <1>3. closedDisk' \in Int
    BY <1>1 DEF NoteClosed
  <1> QED BY <1>2, <1>3

LEMMA ChannelTypes ==
    ASSUME NEW c \in Conv, CloseChannel(c), now \in Nat, notices \subseteq Int,
           closedAt \in Int, lost \subseteq Conv, wire \in [Conv -> Wires],
           incoming \in [Conv -> Seq(Conv \cup {Removed})]
    PROVE  /\ notices' \subseteq Int /\ closedAt' \in Int /\ lost' \subseteq Conv
           /\ wire' \in [Conv -> Wires]
           /\ incoming' \in [Conv -> Seq(Conv \cup {Removed})]
  <1>1. notices' \subseteq Int /\ closedAt' \in Int
    BY ConverseAssumption DEF CloseChannel
  <1>2. lost' \subseteq Conv /\ wire' \in [Conv -> Wires]
    BY DEF CloseChannel, Wires
  <1>3. incoming' \in [Conv -> Seq(Conv \cup {Removed})]
    BY DEF CloseChannel
  <1> QED BY <1>1, <1>2, <1>3

LEMMA TurnPasses ==
    ASSUME NEW c \in Conv, TurnInv, pc \in [Conv -> Phases],
           here \in [Proc -> Conv \cup {None}], machine \in Conv \cup {None},
           pc' = [pc EXCEPT ![c] = "done"], ReleaseTurn(c)
    PROVE  TurnInv'
  <1> USE ConverseAssumption
  <1> DEFINE Within == {"polling"} \cup HoldsTurn
  <1>1. \A d \in Conv : pc'[d] \in Within => d # c /\ pc[d] \in Within
    BY DEF Phases, HoldsTurn
  <1>2. \A d \in Conv : d # c => pc'[d] = pc[d]
    BY DEF Phases
  <1>3. \A p \in Proc : here'[p] = IF here[p] = c THEN None ELSE here[p]
    BY DEF ReleaseTurn
  <1>4. ASSUME NEW d \in Conv, d # c
        PROVE  /\ pc'[d] \in Within => here'[ProcOf[d]] = d
               /\ SharedDir /\ pc'[d] \in HoldsTurn => machine' = d
               /\ machine' = d => pc'[d] \in HoldsTurn
    <2>1. /\ pc[d] \in Within => here[ProcOf[d]] = d
          /\ SharedDir /\ pc[d] \in HoldsTurn => machine = d
          /\ machine = d => pc[d] \in HoldsTurn
      BY DEF TurnInv
    <2>2. pc'[d] = pc[d] /\ ProcOf[d] \in Proc /\ d # None
      BY <1>2, <1>4
    <2>3. pc'[d] \in Within => here'[ProcOf[d]] = d
      BY <1>3, <1>4, <2>1, <2>2
    <2>4. machine' = IF machine = c THEN None ELSE machine
      BY DEF ReleaseTurn
    <2> HIDE DEF Within
    <2>5. machine' = d <=> machine = d
      BY <1>4, <2>2, <2>4
    <2> QED BY <2>1, <2>2, <2>3, <2>5
  <1>5. machine' # c /\ \A p \in Proc : here'[p] # c
    BY <1>3 DEF ReleaseTurn
  <1>6. \A p \in Proc, d \in Conv :
            here'[p] = d => ProcOf[d] = p /\ pc'[d] \in Within
    BY <1>2, <1>3, <1>5 DEF TurnInv
  <1> QED BY <1>1, <1>4, <1>5, <1>6 DEF TurnInv, HoldsTurn

LEMMA TurnStays ==
    ASSUME NEW c \in Conv, TurnInv, pc \in [Conv -> Phases],
           NEW s \in HoldsTurn, pc[c] \in HoldsTurn,
           pc' = [pc EXCEPT ![c] = s], UNCHANGED <<here, machine>>
    PROVE  TurnInv'
  BY DEF TurnInv, HoldsTurn, Phases

\* A close noted under the turn is another process's business only, and only
\* if the processes share no directory.
LEMMA OthersNotes ==
    ASSUME NEW c \in Conv, NEW d \in Conv, d # c,
           TurnInv, pc[c] \in HoldsTurn, pc[d] \in HoldsTurn,
           closedHere \in [Proc -> Int], NoteClosed(c)
    PROVE  SettledAt(d)' = SettledAt(d)
  <1>1. ProcOf[d] # ProcOf[c] /\ ~SharedDir
    BY DEF TurnInv
  <1> QED BY <1>1, ConverseAssumption DEF SettledAt, NoteClosed

LEMMA FinishKeeps ==
    ASSUME IInv, NEW c \in Conv, pc[c] \in HoldsTurn,
           NEW r \in Results, r # "none", r = "LinkBusy" => sends[c] = 0,
           Finish(c, r)
    PROVE  IInv'
  <1>1. TypeOK'
    <2>1. TypeOK /\ CloseChannel(c) /\ NoteClosed(c) /\ ReleaseTurn(c)
      BY DEF IInv, Finish
    <2>2. here' \in [Proc -> Conv \cup {None}] /\ machine' \in Conv \cup {None}
      BY <2>1, TurnTypes DEF TypeOK
    <2>3. closedHere' \in [Proc -> Int] /\ closedDisk' \in Int
      BY <2>1, NoteTypes DEF TypeOK
    <2>4. /\ notices' \subseteq Int /\ closedAt' \in Int /\ lost' \subseteq Conv
          /\ wire' \in [Conv -> Wires]
          /\ incoming' \in [Conv -> Seq(Conv \cup {Removed})]
      BY <2>1, ChannelTypes DEF TypeOK
    <2>5. pc' \in [Conv -> Phases] /\ result' \in [Conv -> Results]
      BY <2>1 DEF Finish, TypeOK, Phases
    <2> QED BY <2>1, <2>2, <2>3, <2>4, <2>5
            DEF TypeOK, Finish, CloseChannel, sendVars, Phases
  <1>2. TurnInv'
    BY TurnPasses DEF IInv, TypeOK, Finish, Phases
  <1>3. SendInv'
    BY DEF IInv, TypeOK, Finish, SendInv, Sends, BeforeSending, Queueing, sendVars
  <1>4. NotesInv'
    <2>1. closedDisk' <= now' /\ \A p \in Proc : closedHere'[p] <= now'
      BY DEF IInv, Finish, TypeOK, NotesInv, NoteClosed
    <2>2. ASSUME NEW d \in Conv, pc'[d] = "turn", sends'[d] > 0
          PROVE  SettledAt(d)' < deadline'[d]
      <3>1. /\ d # c /\ pc[d] = "turn" /\ pc[d] \in HoldsTurn
            /\ sends[d] > 0 /\ deadline'[d] = deadline[d]
        BY <2>2 DEF IInv, Finish, TypeOK, HoldsTurn, sendVars
      <3>2. SettledAt(d)' = SettledAt(d)
        BY <3>1, OthersNotes DEF IInv, Finish, TypeOK
      <3> QED BY <3>1, <3>2 DEF IInv, NotesInv
    <2> QED BY <2>1, <2>2 DEF NotesInv
  <1>5. ResultInv'
    BY DEF IInv, Finish, TypeOK, ResultInv, sendVars
  <1> QED BY <1>1, <1>2, <1>3, <1>4, <1>5 DEF IInv

LEMMA AgainKeeps ==
    ASSUME IInv, NEW c \in Conv, pc[c] \in {"sending", "listening"},
           TimeForAnother(c), Again(c), UNCHANGED <<delivered, sends>>,
           attempt' \in [Conv -> 1..SEND_ATTEMPTS],
           \A d \in Conv : attempt[d] <= attempt'[d],
           Kind[c] # "notice" /\ ~delivered[c] => sends[c] < attempt'[c]
    PROVE  IInv'
  <1>1. TypeOK'
    <2>1. TypeOK /\ CloseChannel(c) /\ NoteClosed(c)
      BY DEF IInv, Again
    <2>2. closedHere' \in [Proc -> Int] /\ closedDisk' \in Int
      BY <2>1, NoteTypes DEF TypeOK
    <2>3. /\ notices' \subseteq Int /\ closedAt' \in Int /\ lost' \subseteq Conv
          /\ wire' \in [Conv -> Wires]
          /\ incoming' \in [Conv -> Seq(Conv \cup {Removed})]
      BY <2>1, ChannelTypes DEF TypeOK
    <2>4. pc' \in [Conv -> Phases]
      BY <2>1 DEF Again, TypeOK, Phases, HoldsTurn
    <2> QED BY <2>1, <2>2, <2>3, <2>4 DEF TypeOK, Again, CloseChannel, Phases
  <1>2. TurnInv'
    BY TurnStays DEF IInv, TypeOK, Again, Phases, HoldsTurn
  <1>3. SendInv'
    <2> SUFFICES ASSUME NEW d \in Conv
                 PROVE  /\ pc'[d] \in {"idle"} \cup Queueing => sends'[d] = 0
                        /\ pc'[d] = "sending" => Sends(d)
                        /\ Sends(d) /\ pc'[d] \in {"grace", "sending"} => ~delivered'[d]
                        /\ pc'[d] = "listening" => delivered'[d]
                        /\ Kind[d] # "notice" => sends'[d] <= attempt'[d]
                        /\ Kind[d] # "notice" /\ pc'[d] \in BeforeSending /\ ~delivered'[d] =>
                              sends'[d] < attempt'[d]
      BY DEF SendInv, Sends
    <2>1. /\ attempt[d] \in Nat /\ attempt'[d] \in Nat /\ sends[d] \in Nat
          /\ attempt[d] <= attempt'[d] /\ sends'[d] = sends[d] /\ delivered'[d] = delivered[d]
      <3>1. attempt \in [Conv -> 1..SEND_ATTEMPTS] /\ sends \in [Conv -> Nat]
        BY DEF IInv, TypeOK
      <3> QED BY <3>1, ConverseAssumption
    <2>2. CASE d = c
      BY <2>1, <2>2 DEF IInv, TypeOK, Again, SendInv, Queueing
    <2>3. CASE d # c
      <3>1. pc'[d] = pc[d]
        BY <2>3 DEF IInv, TypeOK, Again
      <3> QED BY <2>1, <3>1 DEF IInv, SendInv
    <2> QED BY <2>2, <2>3
  <1>4. NotesInv'
    <2>1. closedDisk' <= now' /\ \A p \in Proc : closedHere'[p] <= now'
      BY DEF IInv, Again, TypeOK, NotesInv, NoteClosed
    <2>2. ASSUME NEW d \in Conv, pc'[d] = "turn", sends'[d] > 0
          PROVE  SettledAt(d)' < deadline'[d]
      <3>1. CASE d = c
        <4>1. now \in Nat /\ closedHere \in [Proc -> Int] /\ closedDisk <= now /\ closedDisk \in Int
              /\ NoteClosed(c) /\ deadline[c] \in Nat /\ deadline' = deadline /\ ProcOf[c] \in Proc
          BY ConverseAssumption DEF IInv, Again, TypeOK, NotesInv
        <4>2. SettledAt(c)' = now + WALLET_SETTLE
          BY <4>1 DEF SettledAt, NoteClosed, Later
        <4> QED BY <3>1, <4>1, <4>2, ConverseAssumption DEF TimeForAnother
      <3>2. CASE d # c
        <4>1. pc[d] = "turn" /\ pc[d] \in HoldsTurn /\ deadline'[d] = deadline[d]
          BY <2>2, <3>2 DEF IInv, Again, TypeOK, HoldsTurn
        <4>2. SettledAt(d)' = SettledAt(d)
          BY <3>2, <4>1, OthersNotes DEF IInv, Again, TypeOK, HoldsTurn
        <4> QED BY <2>2, <4>1, <4>2 DEF IInv, NotesInv
      <3> QED BY <3>1, <3>2
    <2> QED BY <2>1, <2>2 DEF NotesInv
  <1>5. ResultInv'
    BY DEF IInv, Again, TypeOK, ResultInv
  <1> QED BY <1>1, <1>2, <1>3, <1>4, <1>5 DEF IInv

LEMMA LeaveQueueKeeps ==
    ASSUME IInv, NEW c \in Conv, NEW r \in Results, r # "none", LeaveQueue(c, r)
    PROVE  IInv'
  <1>1. TypeOK'
    <2>1. here' \in [Proc -> Conv \cup {None}] /\ machine' \in Conv \cup {None}
      BY TurnTypes DEF IInv, TypeOK, LeaveQueue
    <2>2. pc' \in [Conv -> Phases] /\ result' \in [Conv -> Results]
      BY DEF IInv, LeaveQueue, TypeOK, Phases
    <2> QED BY <2>1, <2>2 DEF IInv, LeaveQueue, TypeOK, Phases, sendVars, channelVars, walletVars
  <1>2. TurnInv'
    BY TurnPasses DEF IInv, TypeOK, LeaveQueue, Phases
  <1>3. SendInv'
    BY DEF IInv, LeaveQueue, TypeOK, SendInv, Sends, BeforeSending, Queueing, sendVars
  <1>4. NotesInv'
    BY DEF IInv, LeaveQueue, TypeOK, NotesInv, SettledAt, sendVars
  <1>5. ResultInv'
    BY DEF IInv, LeaveQueue, TypeOK, ResultInv, SendInv, Queueing, sendVars
  <1> QED BY <1>1, <1>2, <1>3, <1>4, <1>5 DEF IInv

-----------------------------------------------------------------------------
(* Each action keeps the invariant: queueing *)

LEMMA StartKeeps ==
    ASSUME IInv, NEW c \in Conv, Start(c)
    PROVE  IInv'
  <1>1. deadline' \in [Conv -> Nat] /\ pc' \in [Conv -> Phases]
    BY ConverseAssumption DEF IInv, TypeOK, Start, Phases, Queueing
  <1>2. TypeOK'
    BY <1>1 DEF IInv, TypeOK, Start, turnVars, sendVars, channelVars, walletVars, Phases
  <1>3. TurnInv'
    <2>1. /\ pc[c] = "idle" /\ pc' = [pc EXCEPT ![c] = "queued"]
          /\ here' = here /\ machine' = machine /\ pc \in [Conv -> Phases]
      BY DEF IInv, TypeOK, Start, turnVars, Phases
    <2>2. {"idle", "queued"} \cap ({"polling"} \cup HoldsTurn) = {}
      BY DEF HoldsTurn
    <2>3. \A d \in Conv : pc'[d] = IF d = c THEN "queued" ELSE pc[d]
      BY <2>1
    <2> QED BY <2>1, <2>2, <2>3 DEF IInv, TurnInv
  <1>4. SendInv'
    BY DEF IInv, TypeOK, Start, sendVars, SendInv, Sends, BeforeSending, Queueing
  <1>5. NotesInv'
    BY DEF IInv, TypeOK, Start, turnVars, sendVars, NotesInv, SettledAt
  <1>6. ResultInv'
    BY DEF IInv, TypeOK, Start, sendVars, ResultInv
  <1> QED BY <1>2, <1>3, <1>4, <1>5, <1>6 DEF IInv

LEMMA TakeHereKeeps ==
    ASSUME IInv, NEW c \in Conv, TakeHere(c)
    PROVE  IInv'
  <1>1. here' \in [Proc -> Conv \cup {None}] /\ pc' \in [Conv -> Phases]
    BY DEF IInv, TypeOK, TakeHere, Phases, Queueing
  <1>2. TypeOK'
    BY <1>1 DEF IInv, TypeOK, TakeHere, sendVars, channelVars, walletVars, Phases
  <1>3. TurnInv'
    <2>1. /\ pc[c] = "queued" /\ here[ProcOf[c]] = None /\ ProcOf[c] \in Proc
          /\ pc' = [pc EXCEPT ![c] = "polling"]
          /\ here' = [here EXCEPT ![ProcOf[c]] = c] /\ machine' = machine
          /\ pc \in [Conv -> Phases] /\ here \in [Proc -> Conv \cup {None}]
      BY ConverseAssumption DEF IInv, TypeOK, TakeHere, Phases
    <2>2. ASSUME NEW d \in Conv, d # c
          PROVE  /\ pc'[d] \in {"polling"} \cup HoldsTurn => here'[ProcOf[d]] = d
                 /\ SharedDir /\ pc'[d] \in HoldsTurn => machine' = d
                 /\ machine' = d => pc'[d] \in HoldsTurn
      <3>1. pc'[d] = pc[d] /\ d # None /\ ProcOf[d] \in Proc
        BY <2>1, <2>2, ConverseAssumption
      <3>2. here[ProcOf[d]] = d => here'[ProcOf[d]] = d
        BY <2>1, <3>1
      <3> QED BY <2>1, <3>1, <3>2 DEF IInv, TurnInv
    <2>3. here'[ProcOf[c]] = c /\ pc'[c] = "polling" /\ machine' # c
      BY <2>1 DEF IInv, TurnInv, HoldsTurn
    <2>4. ASSUME NEW p \in Proc, NEW d \in Conv, here'[p] = d
          PROVE  ProcOf[d] = p /\ pc'[d] \in {"polling"} \cup HoldsTurn
      <3>1. CASE p = ProcOf[c]
        BY <2>1, <2>4, <3>1
      <3>2. CASE p # ProcOf[c]
        <4>1. here[p] = d
          BY <2>1, <2>4, <3>2
        <4>2. ProcOf[d] = p /\ pc[d] \in {"polling"} \cup HoldsTurn /\ d # c
          BY <2>1, <3>2, <4>1 DEF IInv, TurnInv
        <4> QED BY <2>1, <4>2
      <3> QED BY <3>1, <3>2
    <2>5. pc'[c] \notin HoldsTurn
      BY <2>3 DEF HoldsTurn
    <2> QED BY <2>2, <2>3, <2>4, <2>5 DEF TurnInv
  <1>4. SendInv'
    BY DEF IInv, TypeOK, TakeHere, sendVars, SendInv, Sends, BeforeSending, Queueing
  <1>5. NotesInv'
    BY DEF IInv, TypeOK, TakeHere, sendVars, NotesInv, SettledAt
  <1>6. ResultInv'
    BY DEF IInv, TypeOK, TakeHere, sendVars, ResultInv
  <1> QED BY <1>2, <1>3, <1>4, <1>5, <1>6 DEF IInv

LEMMA TakeMachineKeeps ==
    ASSUME IInv, NEW c \in Conv, TakeMachine(c)
    PROVE  IInv'
  <1>1. TypeOK'
    <2>1. machine' \in Conv \cup {None} /\ pc' \in [Conv -> Phases]
      BY DEF IInv, TypeOK, TakeMachine, Phases, HoldsTurn
    <2> QED BY <2>1 DEF IInv, TypeOK, TakeMachine, sendVars, channelVars, walletVars, Phases
  <1>2. TurnInv'
    <2>1. /\ pc[c] = "polling" /\ (SharedDir => machine = None)
          /\ pc' = [pc EXCEPT ![c] = "turn"] /\ here' = here
          /\ machine' = IF SharedDir THEN c ELSE machine
          /\ pc \in [Conv -> Phases]
      BY DEF IInv, TypeOK, TakeMachine, MachineFree, Phases
    <2>2. pc'[c] = "turn" /\ \A d \in Conv : d # c => pc'[d] = pc[d]
      BY <2>1
    <2>3. "turn" \in HoldsTurn /\ "polling" \notin HoldsTurn
      BY DEF HoldsTurn
    <2>4. \A d \in Conv : SharedDir => pc[d] \notin HoldsTurn
      BY <2>1, ConverseAssumption DEF IInv, TurnInv
    <2>5. \A d \in Conv : d # c =>
             /\ pc'[d] \in {"polling"} \cup HoldsTurn => here'[ProcOf[d]] = d
             /\ SharedDir => pc'[d] \notin HoldsTurn
             /\ machine' = d => pc'[d] \in HoldsTurn
      BY <2>1, <2>2, <2>4 DEF IInv, TurnInv
    <2>6. here'[ProcOf[c]] = c /\ (SharedDir => machine' = c)
      BY <2>1 DEF IInv, TurnInv
    <2>7. \A p \in Proc, d \in Conv :
             here'[p] = d => ProcOf[d] = p /\ pc'[d] \in {"polling"} \cup HoldsTurn
      BY <2>1, <2>2, <2>3 DEF IInv, TurnInv
    <2> QED BY <2>2, <2>3, <2>5, <2>6, <2>7 DEF TurnInv
  <1>3. SendInv'
    BY DEF IInv, TypeOK, TakeMachine, sendVars, SendInv, Sends, BeforeSending, Queueing
  <1>4. NotesInv'
    BY DEF IInv, TypeOK, TakeMachine, sendVars, NotesInv, SettledAt, SendInv, Queueing
  <1>5. ResultInv'
    BY DEF IInv, TypeOK, TakeMachine, sendVars, ResultInv
  <1> QED BY <1>1, <1>2, <1>3, <1>4, <1>5 DEF IInv

LEMMA QueueTimeoutKeeps ==
    ASSUME IInv, NEW c \in Conv, QueueTimeout(c)
    PROVE  IInv'
  BY LeaveQueueKeeps DEF QueueTimeout, Results

-----------------------------------------------------------------------------
(* Opening a channel *)

\* A move within the turn that sends nothing and changes no note.
LEMMA MoveKeeps ==
    ASSUME IInv, NEW c \in Conv, NEW s \in HoldsTurn \ {"turn", "sending"},
           pc[c] \in {"turn", "settling", "connecting", "negotiating"},
           s = "listening" => delivered[c],
           s = "grace" /\ Sends(c) => ~delivered[c],
           pc' = [pc EXCEPT ![c] = s],
           timer' \in [Conv -> Int], window' \in [Conv -> Nat],
           walletChan' \in Conv \cup {None},
           UNCHANGED <<now, turnVars, deadline, sendVars, channelVars, result,
                       notices, pending, torn, closedAt>>
    PROVE  IInv'
  <1>1. TypeOK'
    <2>1. pc' \in [Conv -> Phases]
      BY DEF IInv, TypeOK, Phases
    <2> QED BY <2>1 DEF IInv, TypeOK, turnVars, sendVars, channelVars, Phases
  <1>2. TurnInv'
    <2>1. pc[c] \in HoldsTurn
      BY DEF HoldsTurn
    <2> QED BY <2>1, TurnStays DEF IInv, TypeOK, turnVars, Phases
  <1>3. SendInv'
    <2>1. \A d \in Conv : pc'[d] = IF d = c THEN s ELSE pc[d]
      BY DEF IInv, TypeOK
    <2>2. s \notin {"idle", "sending", "turn"} \cup Queueing
      BY DEF HoldsTurn, Queueing
    <2> QED BY <2>1, <2>2 DEF IInv, sendVars, SendInv, Sends, BeforeSending
  <1>4. NotesInv'
    BY DEF IInv, TypeOK, turnVars, sendVars, NotesInv, SettledAt
  <1>5. ResultInv'
    BY DEF IInv, TypeOK, sendVars, ResultInv
  <1> QED BY <1>1, <1>2, <1>3, <1>4, <1>5 DEF IInv

LEMMA SettledAtInt ==
    ASSUME TypeOK, NEW c \in Conv
    PROVE  SettledAt(c) \in Int
  <1>1. closedHere[ProcOf[c]] \in Int /\ closedDisk \in Int
    BY ConverseAssumption DEF TypeOK
  <1> QED BY <1>1, ConverseAssumption DEF SettledAt, Later

LEMMA SettleKeeps ==
    ASSUME IInv, NEW c \in Conv, Settle(c)
    PROVE  IInv'
  <1>1. timer' \in [Conv -> Int] /\ window' \in [Conv -> Nat] /\ walletChan' \in Conv \cup {None}
    BY SettledAtInt DEF IInv, TypeOK, Settle, walletVars
  <1> QED BY <1>1, MoveKeeps DEF Settle, walletVars, HoldsTurn

LEMMA SettleBusyKeeps ==
    ASSUME IInv, NEW c \in Conv, SettleBusy(c)
    PROVE  IInv'
  <1>1. pc[c] = "turn" /\ SettledAt(c) >= deadline[c] /\ Finish(c, "LinkBusy")
    BY DEF SettleBusy
  <1>2. SettledAt(c) \in Int /\ deadline[c] \in Nat /\ sends[c] \in Nat
    BY SettledAtInt DEF IInv, TypeOK
  <1>3. sends[c] = 0
    BY <1>1, <1>2 DEF IInv, NotesInv
  <1> QED BY <1>1, <1>3, FinishKeeps DEF Results, HoldsTurn

LEMMA EstablishKeeps ==
    ASSUME IInv, NEW c \in Conv, Establish(c)
    PROVE  IInv'
  <1>1. Later(deadline[c] - now, 0) \in Nat
    BY DEF IInv, TypeOK, Later
  <1>2. timer' \in [Conv -> Int] /\ window' \in [Conv -> Nat] /\ walletChan' \in Conv \cup {None}
    BY <1>1 DEF IInv, TypeOK, Establish, walletVars
  <1> QED BY <1>2, MoveKeeps DEF Establish, walletVars, HoldsTurn

LEMMA SignalingConnectedKeeps ==
    ASSUME IInv, NEW c \in Conv, SignalingConnected(c)
    PROVE  IInv'
  <1>1. timer' \in [Conv -> Int] /\ window' \in [Conv -> Nat] /\ walletChan' \in Conv \cup {None}
    BY DEF IInv, TypeOK, SignalingConnected, NegotiationEnd, walletVars
  <1> QED BY <1>1, MoveKeeps DEF SignalingConnected, walletVars, HoldsTurn

LEMMA EstablishFailsKeeps ==
    ASSUME IInv, NEW c \in Conv, EstablishFails(c)
    PROVE  IInv'
  <1>1. PICK e \in ChannelErrors : Finish(c, e) /\ pc[c] \in HoldsTurn
    BY DEF EstablishFails, ChannelErrors, HoldsTurn
  <1> QED BY <1>1, FinishKeeps DEF Results, ChannelErrors

LEMMA ChannelOpensKeeps ==
    ASSUME IInv, NEW c \in Conv, ChannelOpens(c)
    PROVE  IInv'
  <1> DEFINE s == IF delivered[c] /\ Kind[c] # "probe" THEN "listening" ELSE "grace"
  <1>1. /\ s \in HoldsTurn \ {"turn", "sending"}
        /\ s = "listening" => delivered[c]
        /\ s = "grace" /\ Sends(c) => ~delivered[c]
    BY DEF HoldsTurn, Sends
  <1>2. /\ timer' \in [Conv -> Int] /\ window' \in [Conv -> Nat]
        /\ walletChan' \in Conv \cup {None}
    BY DEF IInv, TypeOK, ChannelOpens
  <1>3. /\ pc[c] = "negotiating" /\ pc' = [pc EXCEPT ![c] = s]
        /\ UNCHANGED <<now, turnVars, deadline, sendVars, channelVars, result,
                       notices, pending, torn, closedAt>>
    BY DEF ChannelOpens
  <1> HIDE DEF s
  <1> QED BY <1>1, <1>2, <1>3, MoveKeeps

-----------------------------------------------------------------------------
(* Sending *)

LEMMA EndsInGraceKeeps ==
    ASSUME IInv, NEW c \in Conv, RemovedInGrace(c) \/ ProbeEnds(c) \/ NotChosen(c)
    PROVE  IInv'
  <1>1. PICK r \in {"ok", "LinkRemoved", "notChosen"} : Finish(c, r) /\ pc[c] = "grace"
    BY DEF RemovedInGrace, ProbeEnds, NotChosen, RemovalOutcome
  <1> QED BY <1>1, FinishKeeps DEF Results, HoldsTurn

LEMMA SendKeeps ==
    ASSUME IInv, NEW c \in Conv, Send(c)
    PROVE  IInv'
  <1>1. TypeOK'
    <2>1. /\ pc' \in [Conv -> Phases] /\ sends' \in [Conv -> Nat]
          /\ wire' \in [Conv -> Wires]
      <3>1. pc' \in [Conv -> Phases]
        BY DEF IInv, TypeOK, Send, Phases, HoldsTurn
      <3>2. sends' \in [Conv -> Nat]
        BY DEF IInv, TypeOK, Send
      <3>3. wire' \in [Conv -> Wires]
        BY DEF IInv, TypeOK, Send, Wires
      <3> QED BY <3>1, <3>2, <3>3
    <2>2. timer' \in [Conv -> Int]
      BY ConverseAssumption DEF IInv, TypeOK, Send, Later
    <2> QED BY <2>1, <2>2 DEF IInv, TypeOK, Send, turnVars, walletVars, Phases
  <1>2. TurnInv'
    <2>1. "sending" \in HoldsTurn /\ pc[c] \in HoldsTurn
      BY DEF Send, HoldsTurn
    <2> QED BY <2>1, TurnStays DEF IInv, TypeOK, Send, turnVars, Phases
  <1>3. SendInv'
    <2>1. /\ pc[c] = "grace" /\ Sends(c) /\ attempt' = attempt /\ delivered' = delivered
          /\ \A d \in Conv : pc'[d] = IF d = c THEN "sending" ELSE pc[d]
          /\ \A d \in Conv : sends'[d] = IF d = c THEN sends[c] + 1 ELSE sends[d]
      BY DEF IInv, TypeOK, Send
    <2>2. sends[c] \in Nat /\ attempt[c] \in Nat
      BY ConverseAssumption DEF IInv, TypeOK
    <2>3. ~delivered[c] /\ (Kind[c] # "notice" => sends[c] < attempt[c])
      BY <2>1 DEF IInv, SendInv, BeforeSending
    <2> QED BY <2>1, <2>2, <2>3 DEF IInv, SendInv, Sends, BeforeSending, Queueing
  <1>4. NotesInv'
    BY DEF IInv, TypeOK, Send, turnVars, NotesInv, SettledAt
  <1>5. ResultInv'
    BY DEF IInv, TypeOK, Send, ResultInv
  <1> QED BY <1>1, <1>2, <1>3, <1>4, <1>5 DEF IInv

LEMMA ConfirmedKeeps ==
    ASSUME IInv, NEW c \in Conv, Confirmed(c)
    PROVE  IInv'
  <1>1. CASE Kind[c] = "notice"
    BY <1>1, FinishKeeps DEF Confirmed, Results, HoldsTurn
  <1>2. CASE Kind[c] # "notice"
    <2>1. TypeOK'
      <3>1. /\ pc' \in [Conv -> Phases] /\ delivered' \in [Conv -> BOOLEAN]
            /\ wire' \in [Conv -> Wires]
        BY <1>2 DEF IInv, TypeOK, Confirmed, Phases, HoldsTurn, Wires
      <3> QED BY <1>2, <3>1 DEF IInv, TypeOK, Confirmed, turnVars, walletVars, Phases
    <2>2. TurnInv'
      <3>1. "listening" \in HoldsTurn /\ pc[c] \in HoldsTurn
        BY DEF Confirmed, HoldsTurn
      <3> QED BY <1>2, <3>1, TurnStays DEF IInv, TypeOK, Confirmed, turnVars, Phases
    <2>3. SendInv'
      <3>1. /\ pc[c] = "sending" /\ attempt' = attempt /\ sends' = sends
            /\ \A d \in Conv : pc'[d] = IF d = c THEN "listening" ELSE pc[d]
            /\ \A d \in Conv : delivered'[d] = IF d = c THEN TRUE ELSE delivered[d]
        BY <1>2 DEF IInv, TypeOK, Confirmed
      <3> QED BY <3>1 DEF IInv, SendInv, Sends, BeforeSending, Queueing
    <2>4. NotesInv'
      BY <1>2 DEF IInv, TypeOK, Confirmed, turnVars, NotesInv, SettledAt
    <2>5. ResultInv'
      BY <1>2 DEF IInv, TypeOK, Confirmed, ResultInv
    <2> QED BY <2>1, <2>2, <2>3, <2>4, <2>5 DEF IInv
  <1> QED BY <1>1, <1>2

LEMMA ResendKeeps ==
    ASSUME IInv, NEW c \in Conv, Resend(c)
    PROVE  IInv'
  <1>1. /\ attempt \in [Conv -> 1..SEND_ATTEMPTS] /\ SEND_ATTEMPTS \in Nat
        /\ Kind[c] # "notice" => attempt[c] < SEND_ATTEMPTS
        /\ attempt' = [attempt EXCEPT ![c] = IF Kind[c] = "notice" THEN @ ELSE @ + 1]
    BY ConverseAssumption DEF IInv, TypeOK, Resend, Retries
  <1>2. /\ attempt' \in [Conv -> 1..SEND_ATTEMPTS]
        /\ \A d \in Conv : attempt[d] <= attempt'[d]
        /\ Kind[c] # "notice" => attempt'[c] = attempt[c] + 1
    BY <1>1
  <1>3. Kind[c] # "notice" => sends[c] < attempt'[c]
    <2>1. Kind[c] # "notice" => sends[c] <= attempt[c]
      BY DEF IInv, SendInv
    <2>2. sends[c] \in Nat /\ attempt[c] \in Nat
      BY <1>1 DEF IInv, TypeOK
    <2> QED BY <1>2, <2>1, <2>2
  <1>4. /\ pc[c] \in {"sending", "listening"} /\ TimeForAnother(c) /\ Again(c)
        /\ UNCHANGED <<delivered, sends>>
    BY DEF Resend, Retries
  <1> QED BY <1>2, <1>3, <1>4, AgainKeeps

LEMMA SendFailsKeeps ==
    ASSUME IInv, NEW c \in Conv, SendFails(c)
    PROVE  IInv'
  <1>1. PICK r \in {"ok", "LinkRemoved", "Protocol", "ConfirmationTimeout",
                    "SignalingClosed", "WebRtc"} : Finish(c, r)
    BY DEF SendFails, RemovalOutcome, SendErrors
  <1>2. pc[c] \in HoldsTurn
    BY DEF SendFails, HoldsTurn
  <1> QED BY <1>1, <1>2, FinishKeeps DEF Results, ChannelErrors

-----------------------------------------------------------------------------
(* Listening *)

\* A step that moves no conversation and touches neither the turn nor what
\* was sent.
LEMMA ElsewhereKeeps ==
    ASSUME IInv, UNCHANGED <<now, turnVars, pc, deadline, window, timer, sendVars, result>>,
           wire' \in [Conv -> Wires], incoming' \in [Conv -> Seq(Conv \cup {Removed})],
           lost' \subseteq Conv, walletChan' \in Conv \cup {None}, notices' \subseteq Int,
           pending' \subseteq Conv, torn' \subseteq Conv, closedAt' \in Int
    PROVE  IInv'
  <1>1. TypeOK'
    BY DEF IInv, TypeOK, turnVars, sendVars
  <1>2. TurnInv'
    BY DEF IInv, TurnInv, turnVars
  <1>3. SendInv' /\ NotesInv' /\ ResultInv'
    BY DEF IInv, SendInv, Sends, NotesInv, ResultInv, SettledAt, turnVars, sendVars
  <1> QED BY <1>1, <1>2, <1>3 DEF IInv

LEMMA ListenKeeps ==
    ASSUME IInv, NEW c \in Conv, Listen(c)
    PROVE  IInv'
  <1>1. CASE \E r \in {"ok", "LinkRemoved"} : Finish(c, r)
    BY <1>1, FinishKeeps DEF Listen, Results, HoldsTurn
  <1>2. CASE /\ incoming' = [incoming EXCEPT ![c] = Tail(incoming[c])]
             /\ UNCHANGED <<now, turnVars, pc, deadline, window, timer, sendVars, wire,
                            lost, result, walletVars, closedAt>>
    <2>1. incoming[c] \in Seq(Conv \cup {Removed}) /\ incoming[c] # <<>>
      BY DEF IInv, TypeOK, Listen
    <2>2. Tail(incoming[c]) \in Seq(Conv \cup {Removed})
      BY <2>1, HeadTailProperties
    <2>3. incoming' \in [Conv -> Seq(Conv \cup {Removed})]
      BY <1>2, <2>2 DEF IInv, TypeOK
    <2> QED BY <1>2, <2>3, ElsewhereKeeps DEF IInv, TypeOK, walletVars
  <1> QED BY <1>1, <1>2 DEF Listen

LEMMA ReconnectKeeps ==
    ASSUME IInv, NEW c \in Conv, Reconnect(c)
    PROVE  IInv'
  <1>1. /\ attempt' = attempt /\ delivered[c] /\ pc[c] \in {"sending", "listening"}
        /\ UNCHANGED <<delivered, sends>> /\ TimeForAnother(c) /\ Again(c)
    BY DEF IInv, SendInv, Reconnect, sendVars
  <1>2. attempt \in [Conv -> 1..SEND_ATTEMPTS] /\ SEND_ATTEMPTS \in Nat
    BY ConverseAssumption DEF IInv, TypeOK
  <1>3. attempt' \in [Conv -> 1..SEND_ATTEMPTS] /\ \A d \in Conv : attempt[d] <= attempt'[d]
    BY <1>1, <1>2
  <1> QED BY <1>1, <1>3, AgainKeeps

LEMMA ListenFailsKeeps ==
    ASSUME IInv, NEW c \in Conv, ListenFails(c)
    PROVE  IInv'
  BY FinishKeeps DEF ListenFails, Results, ChannelErrors, HoldsTurn

LEMMA DropKeeps ==
    ASSUME IInv, NEW c \in Conv, Drop(c)
    PROVE  IInv'
  BY FinishKeeps, LeaveQueueKeeps DEF Drop, Results

-----------------------------------------------------------------------------
(* Crashes, the wallet, and time *)

LEMMA CrashKeeps ==
    ASSUME IInv, NEW p \in Proc, Crash(p)
    PROVE  IInv'
  <1> DEFINE dead == {c \in Conv : ProcOf[c] = p /\ pc[c] \notin {"idle", "done"}}
  <1>1. /\ pc' = [c \in Conv |-> IF c \in dead THEN "done" ELSE pc[c]]
        /\ result' = [c \in Conv |-> IF c \in dead THEN "crashed" ELSE result[c]]
        /\ here' = [here EXCEPT ![p] = None]
        /\ machine' = IF machine \in dead THEN None ELSE machine
        /\ closedHere' = [closedHere EXCEPT ![p] = -WALLET_SETTLE]
        /\ lost' = lost \ dead
        /\ incoming' = [c \in Conv |-> IF c \in dead THEN <<>> ELSE incoming[c]]
        /\ wire' = [c \in Conv |-> IF c \in dead THEN "empty" ELSE wire[c]]
        /\ UNCHANGED <<now, closedDisk, deadline, window, timer, sendVars, walletChan, pending, torn>>
    BY DEF Crash
  <1>2. closedAt' \in Int /\ notices' \subseteq Int
    BY ConverseAssumption DEF IInv, TypeOK, Crash
  <1>3. \A c \in Conv : c \notin dead => pc[c] \in {"idle", "done"} \/ ProcOf[c] # p
    OBVIOUS
  <1>4. \A c \in dead : c \in Conv /\ ProcOf[c] = p
    OBVIOUS
  <1> HIDE DEF dead
  <1>5. TypeOK'
    <2>1. pc' \in [Conv -> Phases] /\ result' \in [Conv -> Results]
      BY <1>1 DEF IInv, TypeOK, Phases, Results
    <2>2. here' \in [Proc -> Conv \cup {None}] /\ machine' \in Conv \cup {None}
      BY <1>1 DEF IInv, TypeOK
    <2>3. closedHere' \in [Proc -> Int]
      BY <1>1, ConverseAssumption DEF IInv, TypeOK
    <2>4. /\ lost' \subseteq Conv /\ wire' \in [Conv -> Wires]
          /\ incoming' \in [Conv -> Seq(Conv \cup {Removed})]
      <3>1. lost' \subseteq Conv
        BY <1>1 DEF IInv, TypeOK
      <3>2. wire' \in [Conv -> Wires]
        BY <1>1 DEF IInv, TypeOK, Wires
      <3>3. incoming \in [Conv -> Seq(Conv \cup {Removed})] /\ <<>> \in Seq(Conv \cup {Removed})
        BY DEF IInv, TypeOK
      <3>4. incoming' \in [Conv -> Seq(Conv \cup {Removed})]
        BY <1>1, <3>3
      <3> QED BY <3>1, <3>2, <3>4
    <2> QED BY <1>1, <1>2, <2>1, <2>2, <2>3, <2>4 DEF IInv, TypeOK, sendVars, Phases
  <1>6. TurnInv'
    <2>1. \A c \in Conv : pc'[c] \in {"polling"} \cup HoldsTurn =>
             pc'[c] = pc[c] /\ ProcOf[c] # p /\ c \notin dead
      BY <1>1, <1>3 DEF HoldsTurn
    <2>2. \A q \in Proc : here'[q] = IF q = p THEN None ELSE here[q]
      BY <1>1 DEF IInv, TypeOK
    <2>3. \A c \in Conv : c # None /\ ProcOf[c] \in Proc
      BY ConverseAssumption
    <2>4. \A c \in Conv : pc'[c] \in {"polling"} \cup HoldsTurn => here'[ProcOf[c]] = c
      BY <2>1, <2>2, <2>3 DEF IInv, TurnInv
    <2>5. \A c \in Conv : SharedDir /\ pc'[c] \in HoldsTurn => machine' = c
      BY <1>1, <2>1 DEF IInv, TurnInv
    <2>6. \A c \in Conv : machine' = c => c \notin dead /\ machine = c
      BY <1>1, <2>3
    <2>7. \A c \in Conv : machine' = c => pc'[c] \in HoldsTurn
      BY <1>1, <2>6 DEF IInv, TurnInv
    <2>8. ASSUME NEW q \in Proc, NEW c \in Conv, here'[q] = c
          PROVE  ProcOf[c] = q /\ pc'[c] \in {"polling"} \cup HoldsTurn
      <3>1. q # p /\ here[q] = c
        BY <2>2, <2>3, <2>8
      <3>2. ProcOf[c] = q /\ pc[c] \in {"polling"} \cup HoldsTurn
        BY <3>1 DEF IInv, TurnInv
      <3> QED BY <1>1, <1>4, <3>1, <3>2
    <2> QED BY <2>4, <2>5, <2>7, <2>8 DEF TurnInv
  <1>7. SendInv'
    <2>1. \A c \in Conv : pc'[c] = pc[c] \/ pc'[c] = "done"
      BY <1>1
    <2> QED BY <1>1, <2>1 DEF IInv, SendInv, Sends, sendVars, BeforeSending, Queueing
  <1>8. NotesInv'
    <2>1. now \in Nat /\ closedDisk <= now /\ \A q \in Proc : closedHere[q] <= now
      BY DEF IInv, TypeOK, NotesInv
    <2>2. \A q \in Proc : closedHere'[q] = IF q = p THEN -WALLET_SETTLE ELSE closedHere[q]
      BY <1>1 DEF IInv, TypeOK
    <2>3. closedDisk' <= now' /\ \A q \in Proc : closedHere'[q] <= now'
      BY <1>1, <2>1, <2>2, ConverseAssumption
    <2>4. ASSUME NEW c \in Conv, pc'[c] = "turn", sends'[c] > 0
          PROVE  SettledAt(c)' < deadline'[c]
      <3>1. c \notin dead /\ pc[c] = "turn" /\ sends[c] > 0
        BY <1>1, <2>4 DEF sendVars
      <3>2. ProcOf[c] # p /\ ProcOf[c] \in Proc
        BY <1>3, <3>1, ConverseAssumption
      <3>3. SettledAt(c)' = SettledAt(c)
        BY <1>1, <2>2, <3>2 DEF SettledAt
      <3> QED BY <1>1, <3>1, <3>3 DEF IInv, NotesInv
    <2> QED BY <2>3, <2>4 DEF NotesInv
  <1>9. ResultInv'
    BY <1>1 DEF IInv, ResultInv, sendVars
  <1> QED BY <1>5, <1>6, <1>7, <1>8, <1>9 DEF IInv

LEMMA ArrivesTypes ==
    ASSUME NEW c \in Conv, NEW m \in Conv \cup {Removed}, Arrives(c, m),
           wire \in [Conv -> Wires], incoming \in [Conv -> Seq(Conv \cup {Removed})]
    PROVE  wire' \in [Conv -> Wires] /\ incoming' \in [Conv -> Seq(Conv \cup {Removed})]
  <1>1. Append(incoming[c], m) \in Seq(Conv \cup {Removed})
    BY AppendProperties
  <1> QED BY <1>1 DEF Arrives, Wires

LEMMA WalletKeeps ==
    ASSUME IInv, NEW c \in Conv, WalletStep(c)
    PROVE  IInv'
  <1>1. CASE WalletReceives(c)
    <2>1. wire' \in [Conv -> Wires] /\ pending' \subseteq Conv
      BY <1>1 DEF IInv, TypeOK, WalletReceives, Wires
    <2> QED BY <1>1, <2>1, ElsewhereKeeps DEF IInv, TypeOK, WalletReceives
  <1>2. CASE PersonDecides(c)
    <2>1. PICK i \in pending : Arrives(c, i) /\ pending' = pending \ {i}
      BY <1>2 DEF PersonDecides
    <2>2. wire' \in [Conv -> Wires] /\ incoming' \in [Conv -> Seq(Conv \cup {Removed})]
      BY <2>1, ArrivesTypes DEF IInv, TypeOK
    <2> QED BY <1>2, <2>1, <2>2, ElsewhereKeeps DEF IInv, TypeOK, PersonDecides
  <1>3. CASE PersonRemovesLink(c)
    <2>1. wire' \in [Conv -> Wires] /\ incoming' \in [Conv -> Seq(Conv \cup {Removed})]
      BY <1>3, ArrivesTypes DEF IInv, TypeOK, PersonRemovesLink
    <2>2. /\ lost' = lost \cup {c} /\ walletChan' = None /\ closedAt' = now
          /\ notices' = notices /\ pending' = pending /\ torn' = torn
      BY <1>3 DEF PersonRemovesLink
    <2>3. lost' \subseteq Conv /\ walletChan' \in Conv \cup {None} /\ closedAt' \in Int
      BY <2>2 DEF IInv, TypeOK
    <2>4. notices' \subseteq Int /\ pending' \subseteq Conv /\ torn' \subseteq Conv
      BY <2>2 DEF IInv, TypeOK
    <2>5. UNCHANGED <<now, turnVars, pc, deadline, window, timer, sendVars, result>>
      BY <1>3 DEF PersonRemovesLink
    <2> QED BY <2>1, <2>3, <2>4, <2>5, ElsewhereKeeps
  <1>4. CASE WalletDrops(c)
    <2>1. /\ wire' \in [Conv -> Wires] /\ incoming' \in [Conv -> Seq(Conv \cup {Removed})]
          /\ UNCHANGED <<now, turnVars, pc, deadline, window, timer, sendVars, result>>
      BY <1>4 DEF IInv, TypeOK, WalletDrops
    <2>2. lost' \subseteq Conv /\ walletChan' \in Conv \cup {None} /\ closedAt' \in Int
      BY <1>4 DEF IInv, TypeOK, WalletDrops
    <2>3. pending' \in {pending, {}} /\ notices' = notices /\ torn' = torn
      BY <1>4 DEF WalletDrops
    <2>4. pending' \subseteq Conv /\ notices' \subseteq Int /\ torn' \subseteq Conv
      BY <2>3 DEF IInv, TypeOK
    <2> QED BY <2>1, <2>2, <2>4, ElsewhereKeeps
  <1> QED BY <1>1, <1>2, <1>3, <1>4 DEF WalletStep

LEMMA WalletNoticesKeeps ==
    ASSUME IInv, NEW t \in notices, WalletNotices(t)
    PROVE  IInv'
  <1>1. /\ wire' \in [Conv -> Wires] /\ incoming' \in [Conv -> Seq(Conv \cup {Removed})]
        /\ UNCHANGED <<now, turnVars, pc, deadline, window, timer, sendVars, result>>
    BY DEF IInv, TypeOK, WalletNotices
  <1>2. lost' \subseteq Conv /\ torn' \subseteq Conv
    BY DEF IInv, TypeOK, WalletNotices
  <1>3. /\ walletChan' \in Conv \cup {None} /\ notices' \subseteq Int
        /\ pending' \subseteq Conv /\ closedAt' \in Int
    BY DEF IInv, TypeOK, WalletNotices
  <1> QED BY <1>1, <1>2, <1>3, ElsewhereKeeps

LEMMA TickKeeps ==
    ASSUME IInv, Tick
    PROVE  IInv'
  <1>1. TypeOK'
    <2>1. now' \in Nat
      BY DEF IInv, TypeOK, Tick
    <2> QED BY <2>1 DEF IInv, TypeOK, Tick, turnVars, sendVars, channelVars, walletVars
  <1>2. TurnInv' /\ SendInv' /\ ResultInv'
    BY DEF IInv, TurnInv, SendInv, Sends, ResultInv, Tick, turnVars, sendVars
  <1>3. NotesInv'
    <2>1. now' = now + 1 /\ now \in Nat /\ closedDisk \in Int /\ closedHere \in [Proc -> Int]
      BY DEF IInv, TypeOK, Tick
    <2> QED BY <2>1 DEF IInv, NotesInv, SettledAt, Tick, turnVars, sendVars
  <1> QED BY <1>1, <1>2, <1>3 DEF IInv

LEMMA StutterKeeps ==
    ASSUME IInv, UNCHANGED vars
    PROVE  IInv'
  BY ElsewhereKeeps DEF IInv, TypeOK, vars, channelVars, walletVars

LEMMA CallKeeps ==
    ASSUME IInv, NEW c \in Conv, CallStep(c)
    PROVE  IInv'
  BY TakeHereKeeps, TakeMachineKeeps, QueueTimeoutKeeps, SettleKeeps, SettleBusyKeeps,
     EstablishKeeps, SignalingConnectedKeeps, EstablishFailsKeeps, ChannelOpensKeeps,
     EndsInGraceKeeps, SendKeeps, ConfirmedKeeps, ResendKeeps, SendFailsKeeps,
     ListenKeeps, ReconnectKeeps, ListenFailsKeeps DEF CallStep

LEMMA NextKeeps == IInv /\ [Next]_vars => IInv'
  BY StartKeeps, CallKeeps, DropKeeps, WalletKeeps, CrashKeeps, WalletNoticesKeeps,
     TickKeeps, StutterKeeps DEF Next, Ended

-----------------------------------------------------------------------------
(* The theorems *)

LEMMA Invariance == Spec => []IInv
  BY InitKeeps, NextKeeps, PTL DEF Spec

\* Every variable of a link's conversations holds a value of its kind.
THEOREM TypeCorrect == Spec => []TypeOK
  BY Invariance, PTL DEF IInv

\* With a directory the processes share, one conversation at a time is past
\* take_turn, in all the processes of the machine, crashed ones included.
THEOREM OneAtATime ==
    ASSUME SharedDir
    PROVE  Spec => []OneConversation
  <1>1. IInv => OneConversation
    BY DEF IInv, TurnInv, OneConversation
  <1> QED BY <1>1, Invariance, PTL

\* A call that returned, failed, was dropped or died with its process holds
\* neither the process's mutex nor the machine's lock.
THEOREM TurnComesBack == Spec => []TurnIsFreed
  <1>1. IInv => TurnIsFreed
    BY DEF IInv, TurnInv, TurnIsFreed, HoldsTurn
  <1> QED BY <1>1, Invariance, PTL

\* LinkBusy is only ever told of a request that was never put on a channel.
THEOREM BusyIsBeforeSending == Spec => []BusyMeansNothingSent
  <1>1. IInv => BusyMeansNothingSent
    BY DEF IInv, ResultInv, BusyMeansNothingSent
  <1> QED BY <1>1, Invariance, PTL

\* What each step leaves of what a conversation knows it delivered.
LEMMA DeliveredStays ==
    ASSUME IInv, [Next]_vars, NEW c \in Conv, delivered[c]
    PROVE  delivered'[c] /\ sends'[c] = sends[c]
  <1>1. CASE UNCHANGED <<delivered, sends>>
    BY <1>1
  <1>2. ASSUME NEW d \in Conv, Send(d)
        PROVE  delivered'[c] /\ sends'[c] = sends[c]
    <2>1. d # c
      BY <1>2 DEF IInv, SendInv, Send
    <2> QED BY <1>2, <2>1 DEF IInv, TypeOK, Send
  <1>3. ASSUME NEW d \in Conv, Confirmed(d)
        PROVE  delivered'[c] /\ sends'[c] = sends[c]
    BY <1>3 DEF IInv, TypeOK, Confirmed, Finish, sendVars
  <1>4. ASSUME NEW d \in Conv, CallStep(d), ~Send(d), ~Confirmed(d)
        PROVE  UNCHANGED <<delivered, sends>>
    BY <1>4 DEF CallStep, TakeHere, TakeMachine, QueueTimeout, LeaveQueue, Settle, SettleBusy,
                Establish, SignalingConnected, EstablishFails, ChannelOpens, RemovedInGrace,
                ProbeEnds, NotChosen, Resend, SendFails, Listen, Reconnect, ListenFails,
                Finish, sendVars
  <1>5. ASSUME NEW d \in Conv, Start(d) \/ Drop(d) \/ WalletStep(d)
        PROVE  UNCHANGED <<delivered, sends>>
    BY <1>5 DEF Start, Drop, LeaveQueue, Finish, WalletStep, WalletReceives, PersonDecides,
                PersonRemovesLink, WalletDrops, sendVars
  <1>6. ASSUME \/ \E p \in Proc : Crash(p)
               \/ \E t \in notices : WalletNotices(t)
               \/ Tick \/ Ended \/ UNCHANGED vars
        PROVE  UNCHANGED <<delivered, sends>>
    BY <1>6 DEF Crash, WalletNotices, Tick, Ended, vars, sendVars
  <1> QED BY <1>1, <1>2, <1>3, <1>4, <1>5, <1>6 DEF Next

\* A request the wallet confirmed stays confirmed and is never put on a
\* channel again, through every loss, reopening and retry, and no request is
\* sent more than SEND_ATTEMPTS times.
THEOREM ConfirmedIsFinal == Spec => NothingConfirmedIsResent
  <1>1. ASSUME IInv, [Next]_vars, NEW c \in Conv
        PROVE  /\ delivered[c] => delivered'[c] /\ sends'[c] = sends[c]
               /\ Kind[c] # "notice" => sends'[c] <= SEND_ATTEMPTS
    <2>1. delivered[c] => delivered'[c] /\ sends'[c] = sends[c]
      BY <1>1, DeliveredStays
    <2>2. IInv'
      BY <1>1, NextKeeps
    <2>3. sends'[c] \in Nat /\ attempt'[c] \in 1..SEND_ATTEMPTS /\ SEND_ATTEMPTS \in Nat
      BY <2>2, ConverseAssumption DEF IInv, TypeOK
    <2>4. Kind[c] # "notice" => sends'[c] <= attempt'[c]
      BY <2>2 DEF IInv, SendInv
    <2> QED BY <2>1, <2>3, <2>4
  <1>2. IInv /\ [Next]_vars =>
           [\A c \in Conv :
              /\ delivered[c] => delivered'[c] /\ sends'[c] = sends[c]
              /\ Kind[c] # "notice" => sends'[c] <= SEND_ATTEMPTS]_vars
    BY <1>1
  <1> QED BY <1>2, Invariance, PTL DEF Spec, NothingConfirmedIsResent

-----------------------------------------------------------------------------
(* One settled channel                                                     *)

Opened == {"connecting", "negotiating"} \cup HasChannel

\* Every close was noted, unless the conversation whose channel it was is still
\* there to note it; whoever opens a channel, or is about to, waited until the
\* wallet had settled after the last note; and the wallet notices each close
\* within WALLET_NOTICE of the last note.
SettledInv ==
    /\ closedAt <= now
    /\ \A c \in lost : pc[c] \in HasChannel
    /\ lost = {} => closedAt <= closedDisk
    /\ \A c \in Conv :
          /\ pc[c] \in Opened => closedDisk + WALLET_SETTLE <= now
          /\ pc[c] = "settling" => closedDisk + WALLET_SETTLE <= timer[c]
    /\ \A t \in notices : now <= t /\ t <= closedDisk + WALLET_NOTICE
    /\ WALLET_NOTICE < WALLET_SETTLE => torn = {}

\* What a step is to the channels: one conversation goes on, ...
Moves(c) ==
    /\ UNCHANGED <<now, closedDisk, closedAt, lost, notices, torn>>
    /\ \A d \in Conv : d # c => pc'[d] = pc[d] /\ timer'[d] = timer[d]
    /\ pc'[c] \in Opened => closedDisk + WALLET_SETTLE <= now
    /\ pc'[c] = "settling" => closedDisk + WALLET_SETTLE <= timer'[c]
    /\ pc[c] \in HasChannel => pc'[c] \in HasChannel
    /\ pc'[c] \in HasChannel => pc[c] \in HasChannel \cup {"negotiating"}

\* ... or ends, or begins again, and closes what it opened, ...
Closes(c) ==
    /\ pc[c] \in HoldsTurn /\ pc'[c] \in {"turn", "done"}
    /\ \A d \in Conv : d # c => pc'[d] = pc[d]
    /\ CloseChannel(c) /\ NoteClosed(c)
    /\ UNCHANGED <<now, timer>>

\* ... or its channel dies under it, ...
Dies(c) ==
    /\ pc[c] \in HasChannel /\ c \notin lost
    /\ lost' = lost \cup {c} /\ closedAt' = now
    /\ UNCHANGED <<now, closedDisk, pc, timer, notices, torn>>

\* ... or none of them does anything about it.
Stays == UNCHANGED <<now, closedDisk, closedAt, pc, timer, lost, notices, torn>>

\* A call that returns closes, notes and frees; nothing else about it matters
\* to the channels.
LEMMA FinishCloses ==
    ASSUME TypeOK, NEW c \in Conv, pc[c] \in HoldsTurn, NEW r, Finish(c, r)
    PROVE  Closes(c)
  <1>1. pc' = [pc EXCEPT ![c] = "done"] /\ UNCHANGED <<now, timer>>
        /\ CloseChannel(c) /\ NoteClosed(c)
    BY DEF Finish
  <1>2. pc'[c] = "done" /\ \A d \in Conv : d # c => pc'[d] = pc[d]
    BY <1>1 DEF TypeOK
  <1> QED BY <1>1, <1>2 DEF Closes

\* So does one that goes around the loop again.
LEMMA AgainCloses ==
    ASSUME TypeOK, NEW c \in Conv, pc[c] \in HasChannel, Again(c)
    PROVE  Closes(c)
  <1>1. pc' = [pc EXCEPT ![c] = "turn"] /\ UNCHANGED <<now, timer>>
        /\ CloseChannel(c) /\ NoteClosed(c)
    BY DEF Again
  <1>2. pc'[c] = "turn" /\ \A d \in Conv : d # c => pc'[d] = pc[d]
    BY <1>1 DEF TypeOK
  <1> QED BY <1>1, <1>2 DEF Closes, HasChannel, HoldsTurn

\* The moment a conversation settles at is after the last close that the machine
\* noted.
LEMMA SettledAfterNote ==
    ASSUME SharedDir, TypeOK, NEW c \in Conv
    PROVE  closedDisk + WALLET_SETTLE <= SettledAt(c) /\ SettledAt(c) \in Int
  <1>1. closedHere[ProcOf[c]] \in Int /\ closedDisk \in Int
    BY ConverseAssumption DEF TypeOK
  <1> QED BY <1>1, ConverseAssumption DEF SettledAt, Later

\* In the queue.
LEMMA QueueMoves ==
    ASSUME TypeOK, NEW c \in Conv,
           \/ Start(c) \/ TakeHere(c) \/ TakeMachine(c) \/ QueueTimeout(c)
           \/ \E r \in Results : LeaveQueue(c, r)
    PROVE  Moves(c)
  <1>1. /\ pc[c] \in {"idle"} \cup Queueing
        /\ \E s \in {"queued", "polling", "turn", "done"} : pc' = [pc EXCEPT ![c] = s]
        /\ UNCHANGED <<now, closedDisk, closedAt, timer, lost, notices, torn>>
    BY DEF Start, TakeHere, TakeMachine, QueueTimeout, LeaveQueue, Queueing, turnVars,
           channelVars, walletVars
  <1>2. /\ pc'[c] \in {"queued", "polling", "turn", "done"}
        /\ \A d \in Conv : d # c => pc'[d] = pc[d]
    BY <1>1 DEF TypeOK
  <1> QED BY <1>1, <1>2 DEF Moves, Opened, HasChannel, Queueing

\* On the way to a channel: it settles first, or finds it settled.
LEMMA OpeningMoves ==
    ASSUME SharedDir, TypeOK, SettledInv, NEW c \in Conv,
           \/ Settle(c) \/ Establish(c) \/ SignalingConnected(c) \/ ChannelOpens(c)
    PROVE  Moves(c)
  <1>1. UNCHANGED <<now, closedDisk, closedAt, lost, notices, torn>>
    BY DEF Settle, Establish, SignalingConnected, ChannelOpens, turnVars, channelVars, walletVars
  <1>2. \A d \in Conv : d # c => pc'[d] = pc[d] /\ timer'[d] = timer[d]
    BY DEF TypeOK, Settle, Establish, SignalingConnected, ChannelOpens
  <1>3. now \in Nat /\ timer[c] \in Int /\ closedDisk \in Int /\ WALLET_SETTLE \in Nat
    BY ConverseAssumption DEF TypeOK
  <1>4. CASE Settle(c)
    <2>1. pc[c] = "turn" /\ pc'[c] = "settling" /\ timer'[c] = SettledAt(c)
      BY <1>4 DEF Settle, TypeOK
    <2> QED BY <1>1, <1>2, <2>1, SettledAfterNote DEF Moves, Opened, HasChannel
  <1>5. CASE Establish(c)
    <2>1. pc[c] \in {"turn", "settling"} /\ pc'[c] = "connecting"
      BY <1>5 DEF Establish, TypeOK
    <2>2. closedDisk + WALLET_SETTLE <= now
      <3>1. CASE pc[c] = "turn" /\ SettledAt(c) <= now
        BY <1>3, <3>1, SettledAfterNote
      <3>2. CASE pc[c] = "settling" /\ timer[c] <= now
        BY <1>3, <3>2 DEF SettledInv
      <3> QED BY <1>5, <3>1, <3>2 DEF Establish
    <2> QED BY <1>1, <1>2, <2>1, <2>2 DEF Moves, HasChannel
  <1>6. CASE SignalingConnected(c)
    <2>1. pc[c] = "connecting" /\ pc'[c] = "negotiating"
      BY <1>6 DEF SignalingConnected, TypeOK
    <2> QED BY <1>1, <1>2, <2>1 DEF Moves, SettledInv, Opened, HasChannel
  <1>7. CASE ChannelOpens(c)
    <2>1. pc[c] = "negotiating" /\ pc'[c] \in {"listening", "grace"}
      BY <1>7 DEF ChannelOpens, TypeOK
    <2> QED BY <1>1, <1>2, <2>1 DEF Moves, SettledInv, Opened, HasChannel
  <1> QED BY <1>4, <1>5, <1>6, <1>7

\* On a channel.
LEMMA TalkingMoves ==
    ASSUME TypeOK, SettledInv, NEW c \in Conv, pc[c] \in HasChannel,
           NEW s \in HasChannel, pc' = [pc EXCEPT ![c] = s],
           \A d \in Conv : d # c => timer'[d] = timer[d],
           UNCHANGED <<now, closedDisk, closedAt, lost, notices, torn>>
    PROVE  Moves(c)
  <1>1. pc'[c] = s /\ \A d \in Conv : d # c => pc'[d] = pc[d]
    BY DEF TypeOK
  <1> QED BY <1>1 DEF Moves, SettledInv, Opened, HasChannel

\* Every step of a call moves it, closes what it opened, or is nothing to the
\* channels.
LEMMA CallStepIs ==
    ASSUME SharedDir, IInv, SettledInv, NEW c \in Conv, CallStep(c)
    PROVE  Moves(c) \/ Closes(c) \/ Stays
  <1> TypeOK
    BY DEF IInv
  <1>1. CASE TakeHere(c) \/ TakeMachine(c) \/ QueueTimeout(c)
    BY <1>1, QueueMoves
  <1>2. CASE Settle(c) \/ Establish(c) \/ SignalingConnected(c) \/ ChannelOpens(c)
    BY <1>2, OpeningMoves
  <1>3. CASE /\ pc[c] \in HoldsTurn /\ \E r \in Results : Finish(c, r)
    BY <1>3, FinishCloses
  <1>4. CASE pc[c] \in HasChannel /\ Again(c)
    BY <1>4, AgainCloses
  <1>5. CASE SettleBusy(c) \/ EstablishFails(c) \/ RemovedInGrace(c) \/ ProbeEnds(c) \/ NotChosen(c)
    <2>1. pc[c] \in HoldsTurn /\ \E r \in Results : Finish(c, r)
      BY <1>5 DEF SettleBusy, EstablishFails, RemovedInGrace, ProbeEnds, NotChosen, Results,
                  ChannelErrors, RemovalOutcome, HoldsTurn
    <2> QED BY <1>3, <2>1
  <1>6. CASE SendFails(c) \/ ListenFails(c)
    <2>1. pc[c] \in HoldsTurn /\ \E r \in Results : Finish(c, r)
      BY <1>6 DEF SendFails, ListenFails, SendErrors, Results, ChannelErrors, RemovalOutcome, HoldsTurn
    <2> QED BY <1>3, <2>1
  <1>7. CASE Resend(c) \/ Reconnect(c)
    BY <1>4, <1>7 DEF Resend, Reconnect, HasChannel
  <1>8. CASE Send(c)
    <2>1. \A d \in Conv : d # c => timer'[d] = timer[d]
      BY <1>8 DEF Send, TypeOK
    <2> QED BY <1>8, <2>1, TalkingMoves DEF Send, HasChannel, turnVars, walletVars
  <1>9. CASE Confirmed(c)
    <2>1. CASE Kind[c] = "notice"
      BY <1>3, <1>9, <2>1 DEF Confirmed, Results, HoldsTurn
    <2>2. CASE Kind[c] # "notice"
      BY <1>9, <2>2, TalkingMoves DEF Confirmed, HasChannel, turnVars, walletVars
    <2> QED BY <2>1, <2>2
  <1>10. CASE Listen(c)
    <2>1. CASE \E r \in {"ok", "LinkRemoved"} : Finish(c, r)
      BY <1>3, <1>10, <2>1 DEF Listen, Results, HoldsTurn
    <2>2. CASE UNCHANGED <<now, turnVars, pc, deadline, window, timer, sendVars, wire,
                           lost, result, walletVars, closedAt>>
      BY <2>2 DEF Stays, turnVars, walletVars
    <2> QED BY <1>10, <2>1, <2>2 DEF Listen
  <1> QED BY <1>1, <1>2, <1>5, <1>6, <1>7, <1>8, <1>9, <1>10 DEF CallStep

\* Every step but time and the wallet's late notices.
LEMMA StepIs ==
    ASSUME SharedDir, IInv, SettledInv, NEW c \in Conv,
           Start(c) \/ CallStep(c) \/ Drop(c) \/ WalletStep(c)
    PROVE  Moves(c) \/ Closes(c) \/ Dies(c) \/ Stays
  <1> TypeOK
    BY DEF IInv
  <1>1. CASE Start(c)
    BY <1>1, QueueMoves
  <1>2. CASE CallStep(c)
    BY <1>2, CallStepIs
  <1>3. CASE Drop(c)
    BY <1>3, QueueMoves, FinishCloses DEF Drop, Results
  <1>4. CASE WalletReceives(c) \/ PersonDecides(c)
    BY <1>4 DEF WalletReceives, PersonDecides, Stays, turnVars
  <1>5. CASE PersonRemovesLink(c) \/ WalletDrops(c)
    BY <1>5 DEF PersonRemovesLink, WalletDrops, Dies, Live, turnVars
  <1> QED BY <1>1, <1>2, <1>3, <1>4, <1>5 DEF WalletStep

\* A conversation that goes on opens nothing it did not settle for.
LEMMA MovesSettled ==
    ASSUME TypeOK, SettledInv, NEW c \in Conv, Moves(c)
    PROVE  SettledInv'
  <1>1. ASSUME NEW d \in Conv
        PROVE  /\ pc'[d] \in Opened => closedDisk' + WALLET_SETTLE <= now'
               /\ pc'[d] = "settling" => closedDisk' + WALLET_SETTLE <= timer'[d]
               /\ pc[d] \in HasChannel => pc'[d] \in HasChannel
    BY DEF SettledInv, Moves
  <1>2. lost \subseteq Conv /\ lost' = lost
    BY DEF TypeOK, Moves
  <1>3. \A d \in lost' : pc'[d] \in HasChannel
    BY <1>1, <1>2 DEF SettledInv
  <1> QED BY <1>1, <1>3 DEF SettledInv, Moves

\* Who closes a channel has the turn, so nobody else has a channel, or is about
\* to have one.
LEMMA ClosesSettled ==
    ASSUME SharedDir, IInv, SettledInv, NEW c \in Conv, Closes(c)
    PROVE  SettledInv'
  <1>1. \A d \in Conv : d # c => pc'[d] = pc[d] /\ pc[d] \notin HoldsTurn
    BY DEF IInv, TurnInv, Closes
  <1>2. \A d \in Conv : pc'[d] \notin Opened \cup {"settling"}
    BY <1>1 DEF Closes, Opened, HasChannel, HoldsTurn
  <1>3. /\ now \in Nat /\ closedDisk \in Int /\ closedAt \in Int /\ closedDisk <= now
        /\ lost \subseteq Conv /\ notices \subseteq Int /\ WALLET_NOTICE \in Nat
    BY ConverseAssumption DEF IInv, TypeOK, NotesInv
  <1>4. lost' = {}
    <2>1. lost \subseteq {c}
      BY <1>1, <1>3 DEF SettledInv, HasChannel, HoldsTurn
    <2> QED BY <2>1 DEF Closes, CloseChannel
  <1>5. now' = now /\ torn' = torn /\ closedDisk' = now /\ closedAt' \in {now, closedAt}
    BY DEF Closes, CloseChannel, NoteClosed
  <1>6. closedAt' <= now' /\ closedAt' <= closedDisk'
    BY <1>3, <1>5 DEF SettledInv
  <1>7. ASSUME NEW t \in notices' PROVE now' <= t /\ t <= closedDisk' + WALLET_NOTICE
    <2>1. CASE t \in notices
      <3>1. t \in Int /\ now <= t /\ t <= closedDisk + WALLET_NOTICE
        BY <1>3, <2>1 DEF SettledInv
      <3> QED BY <1>3, <1>5, <3>1
    <2>2. CASE t = now + WALLET_NOTICE
      BY <1>3, <1>5, <2>2
    <2> QED BY <2>1, <2>2 DEF Closes, CloseChannel
  <1> QED BY <1>2, <1>4, <1>5, <1>6, <1>7 DEF SettledInv

\* A channel that died is its conversation's to note.
LEMMA DiesSettled ==
    ASSUME TypeOK, SettledInv, NEW c \in Conv, Dies(c)
    PROVE  SettledInv'
  <1>1. now' = now /\ closedAt' = now /\ lost' = lost \cup {c} /\ now \in Nat
    BY DEF Dies, TypeOK
  <1> QED BY <1>1 DEF SettledInv, Dies

\* A notice was due after WALLET_NOTICE, and a channel opened since waited for
\* longer than that: there is none to tear down.
LEMMA NoticesSettled ==
    ASSUME TypeOK, SettledInv, NEW t \in notices, WalletNotices(t)
    PROVE  SettledInv'
  <1> DEFINE hit == {c \in Conv : Live(c)}
  <1>1. /\ notices' = notices \ {t} /\ torn' = torn \cup hit /\ lost' = lost \cup hit
        /\ closedAt' = IF hit = {} THEN closedAt ELSE now
        /\ UNCHANGED <<now, closedDisk, pc, timer>>
    BY DEF WalletNotices, turnVars
  <1>2. \A c \in hit : pc[c] \in HasChannel
    BY DEF Live
  <1>3. /\ now \in Nat /\ t \in Int /\ closedDisk \in Int
        /\ WALLET_NOTICE \in Nat /\ WALLET_SETTLE \in Nat
    BY ConverseAssumption DEF TypeOK
  <1> HIDE DEF hit
  <1>4. ASSUME WALLET_NOTICE < WALLET_SETTLE PROVE hit = {}
    <2> SUFFICES ASSUME NEW c \in hit PROVE FALSE
      OBVIOUS
    <2>1. now <= t /\ t <= closedDisk + WALLET_NOTICE
      BY DEF SettledInv
    <2>2. closedDisk + WALLET_SETTLE <= now
      <3>1. c \in Conv /\ pc[c] \in HasChannel
        BY <1>2 DEF hit
      <3> QED BY <3>1 DEF SettledInv, Opened
    <2> QED BY <1>3, <1>4, <2>1, <2>2
  <1>5. closedAt' <= now' /\ (lost' = {} => closedAt' <= closedDisk')
    BY <1>1, <1>3 DEF SettledInv
  <1>6. WALLET_NOTICE < WALLET_SETTLE => torn' = {}
    BY <1>1, <1>4 DEF SettledInv
  <1> QED BY <1>1, <1>2, <1>5, <1>6 DEF SettledInv

\* Time passes only up to the next notice.
LEMMA TickSettled ==
    ASSUME TypeOK, SettledInv, Tick
    PROVE  SettledInv'
  <1>1. /\ now \in Nat /\ now' = now + 1 /\ closedDisk \in Int /\ closedAt \in Int
        /\ notices \subseteq Int /\ WALLET_SETTLE \in Nat /\ WALLET_NOTICE \in Nat
        /\ \A t \in notices : now < t
        /\ UNCHANGED <<closedDisk, closedAt, pc, timer, lost, notices, torn>>
    BY ConverseAssumption DEF TypeOK, Tick, turnVars, channelVars, walletVars
  <1>2. \A t \in notices : now + 1 <= t
    BY <1>1
  <1>3. closedAt <= now + 1 /\ (closedDisk + WALLET_SETTLE <= now => closedDisk + WALLET_SETTLE <= now + 1)
    BY <1>1 DEF SettledInv
  <1> QED BY <1>1, <1>2, <1>3 DEF SettledInv

\* What a step without a crash is.
LEMMA NextIs ==
    ASSUME SharedDir, ~Crashes, IInv, SettledInv, [Next]_vars
    PROVE  \/ \E c \in Conv : Moves(c) \/ Closes(c) \/ Dies(c)
           \/ Stays
           \/ Tick
           \/ \E t \in notices : WalletNotices(t)
  <1>1. ~ \E p \in Proc : Crash(p)
    BY DEF Crash
  <1>2. Ended \/ UNCHANGED vars => Stays
    BY DEF Ended, vars, Stays, turnVars, channelVars, walletVars
  <1> QED BY <1>1, <1>2, StepIs DEF Next

\* Without a crash every close is noted before the turn is free again.
LEMMA SettledInvariance == SharedDir /\ ~Crashes => (Spec => []SettledInv)
  <1> SUFFICES ASSUME SharedDir, ~Crashes PROVE Spec => []SettledInv
    OBVIOUS
  <1>1. Init => SettledInv
    <2> SUFFICES ASSUME Init PROVE SettledInv
      OBVIOUS
    <2>1. /\ now = 0 /\ closedAt = -WALLET_SETTLE /\ closedDisk = -WALLET_SETTLE
          /\ lost = {} /\ notices = {} /\ torn = {} /\ WALLET_SETTLE \in Nat
          /\ \A c \in Conv : pc[c] = "idle"
      BY ConverseAssumption DEF Init
    <2> QED BY <2>1 DEF SettledInv, Opened, HasChannel
  <1>2. IInv /\ SettledInv /\ [Next]_vars => SettledInv'
    <2> SUFFICES ASSUME IInv, SettledInv, [Next]_vars PROVE SettledInv'
      OBVIOUS
    <2> TypeOK
      BY DEF IInv
    <2>1. CASE \E c \in Conv : Moves(c) \/ Closes(c) \/ Dies(c)
      BY <2>1, MovesSettled, ClosesSettled, DiesSettled
    <2>2. CASE Stays
      BY <2>2 DEF SettledInv, Stays
    <2>3. CASE Tick
      BY <2>3, TickSettled
    <2>4. CASE \E t \in notices : WalletNotices(t)
      BY <2>4, NoticesSettled
    <2> QED BY <2>1, <2>2, <2>3, <2>4, NextIs
  <1> QED BY <1>1, <1>2, Invariance, PTL DEF Spec

\* connector.rs, WALLET_SETTLE: when the wallet notices a closed connection sooner
\* than a conversation settles, no channel is torn down for an earlier one's close,
\* whichever processes opened them, as long as none is killed.
THEOREM NothingIsTorn ==
    ASSUME SharedDir, ~Crashes, WALLET_NOTICE < WALLET_SETTLE
    PROVE  Spec => []NoChannelTorn
  <1>1. SettledInv => NoChannelTorn
    BY DEF SettledInv, NoChannelTorn
  <1> QED BY <1>1, SettledInvariance, PTL

\* With no crash and a shared directory, the conversations of all processes are
\* one settled channel at a time.
THEOREM LinkIsSettled ==
    ASSUME SharedDir, ~Crashes
    PROVE  Spec => OneSettledChannel
  <1>1. Init => Settled!Init
    BY DEF Init, Settled!Init, OpenChannels, HasChannel
  <1>2. ASSUME IInv, SettledInv, [Next]_vars PROVE [Settled!Next]_(Settled!vars)
    <2> TypeOK
      BY <1>2 DEF IInv
    <2>1. ASSUME NEW c \in Conv, Moves(c) PROVE [Settled!Next]_(Settled!vars)
      <3>1. \A d \in Conv : d # c => pc'[d] = pc[d]
        BY <2>1 DEF Moves
      <3>2. now' = now /\ closedAt' = closedAt /\ lost' = lost
        BY <2>1 DEF Moves
      <3>3. CASE pc[c] \in HasChannel <=> pc'[c] \in HasChannel
        <4>1. OpenChannels' = OpenChannels
          BY <3>1, <3>2, <3>3 DEF OpenChannels
        <4> QED BY <3>2, <4>1 DEF Settled!vars
      <3>4. CASE pc[c] = "negotiating" /\ pc'[c] \in HasChannel
        <4>1. \A d \in Conv : pc[d] \notin HasChannel
          BY <1>2, <3>4 DEF IInv, TurnInv, HasChannel, HoldsTurn
        <4>2. lost = {} /\ OpenChannels = {}
          BY <1>2, <4>1 DEF SettledInv, OpenChannels, TypeOK
        <4>3. OpenChannels' = {c}
          BY <3>1, <3>2, <3>4, <4>1, <4>2 DEF OpenChannels
        <4>4. closedAt <= closedDisk /\ closedDisk + WALLET_SETTLE <= now
          BY <1>2, <3>4, <4>2 DEF SettledInv, Opened
        <4>5. now >= closedAt + WALLET_SETTLE
          BY <4>4, ConverseAssumption DEF TypeOK
        <4>6. Settled!Open(c)
          BY <3>2, <4>2, <4>3, <4>5 DEF Settled!Open
        <4> QED BY <4>6 DEF Settled!Next
      <3> QED BY <2>1, <3>3, <3>4 DEF Moves, HasChannel
    <2>2. ASSUME NEW c \in Conv, Closes(c) PROVE [Settled!Next]_(Settled!vars)
      <3>1. /\ \A d \in Conv : d # c => pc'[d] = pc[d]
            /\ pc'[c] \notin HasChannel /\ lost' = lost \ {c} /\ now' = now
        BY <2>2 DEF Closes, CloseChannel, HasChannel
      <3>2. OpenChannels' = OpenChannels \ {c}
        BY <3>1 DEF OpenChannels
      <3>3. CASE c \in OpenChannels
        <4>1. closedAt' = now
          BY <2>2, <3>3 DEF Closes, CloseChannel, OpenChannels
        <4> QED BY <3>1, <3>2, <3>3, <4>1 DEF Settled!Next, Settled!Close
      <3>4. CASE c \notin OpenChannels
        <4>1. closedAt' = closedAt
          BY <2>2, <3>4 DEF Closes, CloseChannel, OpenChannels
        <4> QED BY <3>1, <3>2, <3>4, <4>1 DEF Settled!vars
      <3> QED BY <3>3, <3>4
    <2>3. ASSUME NEW c \in Conv, Dies(c) PROVE [Settled!Next]_(Settled!vars)
      <3>1. c \in OpenChannels /\ OpenChannels' = OpenChannels \ {c}
            /\ closedAt' = now /\ now' = now
        BY <2>3 DEF Dies, OpenChannels
      <3> QED BY <3>1 DEF Settled!Next, Settled!Close
    <2>4. CASE Stays
      BY <2>4 DEF Stays, Settled!vars, OpenChannels
    <2>5. CASE Tick
      <3>1. now' = now + 1 /\ closedAt' = closedAt /\ OpenChannels' = OpenChannels
        BY <2>5 DEF Tick, OpenChannels, channelVars
      <3> QED BY <3>1 DEF Settled!Next, Settled!Tick
    <2>6. ASSUME NEW t \in notices, WalletNotices(t) PROVE [Settled!Next]_(Settled!vars)
      <3> DEFINE hit == {c \in Conv : Live(c)}
      <3>1. /\ lost' = lost \cup hit /\ closedAt' = IF hit = {} THEN closedAt ELSE now
            /\ pc' = pc /\ now' = now
        BY <2>6 DEF WalletNotices
      <3>2. \A c \in hit : c \in OpenChannels
        BY DEF Live, OpenChannels
      <3>3. \A c, d \in OpenChannels : c = d
        BY <1>2 DEF IInv, TurnInv, OpenChannels, HasChannel, HoldsTurn
      <3> HIDE DEF hit
      <3>4. OpenChannels' = OpenChannels \ hit
        BY <3>1 DEF OpenChannels
      <3>5. CASE hit = {}
        BY <3>1, <3>4, <3>5 DEF Settled!vars
      <3>6. ASSUME NEW c \in hit PROVE Settled!Next
        <4>1. c \in Conv /\ c \in OpenChannels /\ OpenChannels' = OpenChannels \ {c}
          BY <3>2, <3>3, <3>4, <3>6 DEF OpenChannels
        <4>2. closedAt' = now /\ now' = now
          BY <3>1, <3>6
        <4> QED BY <4>1, <4>2 DEF Settled!Next, Settled!Close
      <3> QED BY <3>5, <3>6
    <2> QED BY <1>2, <2>1, <2>2, <2>3, <2>4, <2>5, <2>6, NextIs
  <1> QED BY <1>1, <1>2, Invariance, SettledInvariance, PTL DEF Spec, OneSettledChannel, Settled!Spec

-----------------------------------------------------------------------------
(* What a timeout tells of the request                                     *)

TellsOf(c) ==
    /\ pc[c] = "sending" => sends[c] > 0
    /\ result[c] = "ConfirmationTimeout" => sends[c] > 0 /\ ~delivered[c]
    /\ result[c] = "ResponseTimeout" => delivered[c]

\* A request is being sent only once it was put on a channel; a call that was
\* not confirmed in time had sent it, and one that was not answered in time had
\* it confirmed.
TellsInv == \A c \in Conv : TellsOf(c)

\* What a step leaves of a conversation that is not its own.
Untold(d) ==
    pc'[d] = pc[d] /\ sends'[d] = sends[d] /\ delivered'[d] = delivered[d]
    /\ result'[d] = result[d]

\* A step of one conversation tells only of that one.
LEMMA OwnTells ==
    ASSUME TellsInv, NEW c \in Conv, TellsOf(c)', \A d \in Conv : d # c => Untold(d)
    PROVE  TellsInv'
  BY DEF TellsInv, TellsOf, Untold

\* A call ends: what it returns is checked against what it did.
LEMMA FinishTells ==
    ASSUME IInv, TellsInv, NEW c \in Conv, NEW r \in Results, Finish(c, r),
           r = "ConfirmationTimeout" => pc[c] = "sending",
           r = "ResponseTimeout" => pc[c] = "listening"
    PROVE  TellsInv'
  <1>1. /\ pc' = [pc EXCEPT ![c] = "done"] /\ result' = [result EXCEPT ![c] = r]
        /\ sends' = sends /\ delivered' = delivered
    BY DEF Finish, sendVars
  <1>2. pc'[c] = "done" /\ result'[c] = r
    BY <1>1 DEF IInv, TypeOK
  <1>3. \A d \in Conv : d # c => Untold(d)
    BY <1>1 DEF IInv, TypeOK, Untold
  <1>4. pc[c] = "sending" => sends[c] > 0 /\ ~delivered[c]
    BY DEF IInv, SendInv, TellsInv, TellsOf
  <1>5. pc[c] = "listening" => delivered[c]
    BY DEF IInv, SendInv
  <1>6. TellsOf(c)'
    BY <1>1, <1>2, <1>4, <1>5 DEF TellsOf
  <1> QED BY <1>3, <1>6, OwnTells

\* A call goes on to a phase that sends nothing: it returned nothing yet.
LEMMA GoingTells ==
    ASSUME IInv, TellsInv, NEW c \in Conv, pc[c] # "done",
           NEW s, pc' = [pc EXCEPT ![c] = s], s # "sending", UNCHANGED result,
           \A d \in Conv : d # c => sends'[d] = sends[d] /\ delivered'[d] = delivered[d]
    PROVE  TellsInv'
  <1>1. pc'[c] = s /\ result'[c] = "none"
    BY DEF IInv, TypeOK, ResultInv
  <1>2. \A d \in Conv : d # c => Untold(d)
    BY DEF IInv, TypeOK, Untold
  <1>3. TellsOf(c)'
    BY <1>1 DEF TellsOf
  <1> QED BY <1>2, <1>3, OwnTells

\* A call leaves the queue: LinkBusy, or dropped.
LEMMA QueueTells ==
    ASSUME IInv, TellsInv, NEW c \in Conv, NEW r \in {"LinkBusy", "dropped"}, LeaveQueue(c, r)
    PROVE  TellsInv'
  <1>1. /\ pc' = [pc EXCEPT ![c] = "done"] /\ result' = [result EXCEPT ![c] = r]
        /\ sends' = sends /\ delivered' = delivered
    BY DEF LeaveQueue, sendVars
  <1>2. pc'[c] = "done" /\ result'[c] = r
    BY <1>1 DEF IInv, TypeOK
  <1>3. \A d \in Conv : d # c => Untold(d)
    BY <1>1 DEF IInv, TypeOK, Untold
  <1>4. TellsOf(c)'
    BY <1>2 DEF TellsOf
  <1> QED BY <1>3, <1>4, OwnTells

\* Nothing is told of by a step that no call takes.
LEMMA StillTells ==
    ASSUME TellsInv, UNCHANGED <<pc, sends, delivered, result>>
    PROVE  TellsInv'
  BY DEF TellsInv, TellsOf

\* Every step of a call.
LEMMA CallTells ==
    ASSUME IInv, TellsInv, NEW c \in Conv, CallStep(c)
    PROVE  TellsInv'
  <1>1. CASE TakeHere(c) \/ TakeMachine(c)
    BY <1>1, GoingTells DEF TakeHere, TakeMachine, sendVars
  <1>2. CASE QueueTimeout(c)
    BY <1>2, QueueTells DEF QueueTimeout
  <1>3. CASE Settle(c) \/ Establish(c) \/ SignalingConnected(c)
    BY <1>3, GoingTells DEF Settle, Establish, SignalingConnected, sendVars
  <1>4. CASE SettleBusy(c) \/ EstablishFails(c) \/ RemovedInGrace(c) \/ ProbeEnds(c) \/ NotChosen(c)
    <2>1. \E r \in Results \ {"ConfirmationTimeout", "ResponseTimeout"} : Finish(c, r)
      BY <1>4 DEF SettleBusy, EstablishFails, RemovedInGrace, ProbeEnds, NotChosen, Results,
                  ChannelErrors, RemovalOutcome
    <2> QED BY <2>1, FinishTells
  <1>5. CASE ChannelOpens(c)
    <2>1. PICK s \in {"listening", "grace"} : pc' = [pc EXCEPT ![c] = s]
      BY <1>5 DEF ChannelOpens
    <2> QED BY <1>5, <2>1, GoingTells DEF ChannelOpens, sendVars
  <1>6. CASE Send(c)
    <2>1. /\ pc[c] = "grace" /\ pc' = [pc EXCEPT ![c] = "sending"]
          /\ sends' = [sends EXCEPT ![c] = @ + 1] /\ UNCHANGED <<delivered, result>>
      BY <1>6 DEF Send
    <2>2. sends[c] \in Nat /\ sends'[c] = sends[c] + 1
      BY <2>1 DEF IInv, TypeOK
    <2>3. result'[c] = "none"
      BY <2>1 DEF IInv, ResultInv
    <2>4. \A d \in Conv : d # c => Untold(d)
      BY <2>1 DEF IInv, TypeOK, Untold
    <2>5. TellsOf(c)'
      BY <2>2, <2>3 DEF TellsOf
    <2> QED BY <2>4, <2>5, OwnTells
  <1>7. CASE Confirmed(c)
    <2>1. CASE Kind[c] = "notice"
      BY <1>7, <2>1, FinishTells DEF Confirmed, Results
    <2>2. CASE Kind[c] # "notice"
      <3>1. /\ pc[c] = "sending" /\ pc' = [pc EXCEPT ![c] = "listening"]
            /\ delivered' = [delivered EXCEPT ![c] = TRUE] /\ UNCHANGED <<sends, result>>
        BY <1>7, <2>2 DEF Confirmed
      <3>2. \A d \in Conv : d # c => sends'[d] = sends[d] /\ delivered'[d] = delivered[d]
        BY <3>1 DEF IInv, TypeOK
      <3> QED BY <3>1, <3>2, GoingTells
    <2> QED BY <2>1, <2>2
  <1>8. CASE Resend(c)
    BY <1>8, GoingTells DEF Resend, Again
  <1>9. CASE SendFails(c)
    <2>1. \E r \in Results \ {"ResponseTimeout"} : pc[c] = "sending" /\ Finish(c, r)
      BY <1>9 DEF SendFails, SendErrors, RemovalOutcome, Results, ChannelErrors
    <2> QED BY <2>1, FinishTells
  <1>10. CASE Listen(c)
    <2>1. CASE \E r \in {"ok", "LinkRemoved"} : Finish(c, r)
      BY <2>1, FinishTells DEF Results
    <2>2. CASE UNCHANGED <<now, turnVars, pc, deadline, window, timer, sendVars, wire,
                           lost, result, walletVars, closedAt>>
      BY <2>2, StillTells DEF sendVars
    <2> QED BY <1>10, <2>1, <2>2 DEF Listen
  <1>11. CASE Reconnect(c)
    BY <1>11, GoingTells DEF Reconnect, Again, sendVars
  <1>12. CASE ListenFails(c)
    <2>1. \E r \in Results \ {"ConfirmationTimeout"} : pc[c] = "listening" /\ Finish(c, r)
      BY <1>12 DEF ListenFails, Results, ChannelErrors
    <2> QED BY <2>1, FinishTells
  <1> QED BY <1>1, <1>2, <1>3, <1>4, <1>5, <1>6, <1>7, <1>8, <1>9, <1>10, <1>11, <1>12 DEF CallStep

\* And of everyone, in every process, killed or not.
LEMMA TellsInvariance == Spec => []TellsInv
  <1>1. Init => TellsInv
    BY DEF Init, TellsInv, TellsOf
  <1>2. ASSUME IInv, TellsInv, [Next]_vars PROVE TellsInv'
    <2>1. CASE \E c \in Conv : Start(c)
      BY <1>2, <2>1, GoingTells DEF Start, sendVars
    <2>2. CASE \E c \in Conv : CallStep(c)
      BY <1>2, <2>2, CallTells
    <2>3. CASE \E c \in Conv : Drop(c)
      BY <1>2, <2>3, QueueTells, FinishTells DEF Drop, Results
    <2>4. CASE \E c \in Conv : WalletStep(c)
      BY <1>2, <2>4, StillTells
         DEF WalletStep, WalletReceives, PersonDecides, PersonRemovesLink, WalletDrops, sendVars
    <2>5. CASE \E p \in Proc : Crash(p)
      <3>1. PICK p \in Proc : Crash(p)
        BY <2>5
      <3>2. /\ UNCHANGED <<sends, delivered>>
            /\ \A c \in Conv : \/ pc'[c] = pc[c] /\ result'[c] = result[c]
                               \/ pc'[c] = "done" /\ result'[c] = "crashed"
        BY <3>1 DEF Crash, sendVars
      <3> QED BY <1>2, <3>2 DEF TellsInv, TellsOf
    <2>6. CASE (\E t \in notices : WalletNotices(t)) \/ Tick \/ Ended \/ UNCHANGED vars
      BY <1>2, <2>6, StillTells DEF WalletNotices, Tick, Ended, vars, sendVars
    <2> QED BY <1>2, <2>1, <2>2, <2>3, <2>4, <2>5, <2>6 DEF Next
  <1> QED BY <1>1, <1>2, Invariance, PTL DEF Spec

\* Error::unreachable of one reach that is final is that reach, and of one that
\* is not is about the network.
LEMMA OneReach ==
    ASSUME NEW reach
    PROVE  \/ Unreachable(<<reach>>) = reach
           \/ Unreachable(<<reach>>) \in {"NoNetwork", "WalletUnreachable"}
  <1>1. CASE reach \in Reached
    BY <1>1 DEF Unreachable
  <1>2. CASE reach \notin Reached
    <2> DEFINE final == {i \in DOMAIN <<reach>> : <<reach>>[i] \notin Reached}
    <2>1. final = {1}
      BY <1>2
    <2>2. Unreachable(<<reach>>) = <<reach>>[CHOOSE i \in final : \A j \in final : i <= j]
      BY <2>1 DEF Unreachable
    <2> HIDE DEF final
    <2>3. (CHOOSE i \in final : \A j \in final : i <= j) = 1
      BY <2>1
    <2>4. <<reach>>[1] = reach
      OBVIOUS
    <2> DEFINE i0 == CHOOSE i \in final : \A j \in final : i <= j
    <2>5. i0 = 1 /\ Unreachable(<<reach>>) = <<reach>>[i0]
      BY <2>2, <2>3
    <2> HIDE DEF i0
    <2> QED BY <2>4, <2>5
  <1> QED BY <1>1, <1>2

\* error.rs: NotConfirmed is told of a request that was sent and not confirmed,
\* NoAnswer of one the wallet confirmed, whatever crashes and however often it
\* was sent again.
THEOREM TimeoutsAreTrue == Spec => []TimeoutsTellWhatHappened
  <1>1. ASSUME TellsInv PROVE TimeoutsTellWhatHappened
    <2> SUFFICES ASSUME NEW c \in Conv, Failed(c)
                 PROVE  /\ Outcome(c) = "NotConfirmed" => sends[c] > 0 /\ ~delivered[c]
                        /\ MayBeOnThePhone(Outcome(c)) => delivered[c]
      BY DEF TimeoutsTellWhatHappened
    <2>1. Outcome(c) \in {"NotConfirmed", "NoAnswer"} => Outcome(c) = WebrtcReach[result[c]]
      BY OneReach DEF Outcome, FromWebrtc
    <2>2. result[c] \in WebrtcErrors
      BY DEF Failed
    <2>3. WebrtcReach[result[c]] = "NotConfirmed" => result[c] = "ConfirmationTimeout"
      BY <2>2 DEF WebrtcErrors, WebrtcReach
    <2>4. WebrtcReach[result[c]] = "NoAnswer" => result[c] = "ResponseTimeout"
      BY <2>2 DEF WebrtcErrors, WebrtcReach
    <2> QED BY <1>1, <2>1, <2>3, <2>4 DEF TellsInv, TellsOf, MayBeOnThePhone
  <1> QED BY <1>1, TellsInvariance, PTL
=============================================================================
