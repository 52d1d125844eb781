-------------------------------- MODULE Kept --------------------------------
(***************************************************************************)
(* The state file and the links in it: crates/connect-webrtc/src/state.rs, *)
(* crates/connect-auto/src/kept.rs, notify_link_removed of its connector,  *)
(* and connect-types/src/link_removal.rs.  A change loads the whole file,  *)
(* edits the copy and writes it over the old one in place, without a lock. *)
(* Tasks do so at the same time: those that one program spawned on the     *)
(* threads of its runtime, and those of other programs with the same file. *)
(* So a file is written over by a copy loaded before its last change, and  *)
(* two that write at once may leave neither's.  A link removed here is     *)
(* kept as a notice until its wallet confirmed it, and for 30 days at most.*)
(***************************************************************************)
EXTENDS FiniteSets

CONSTANTS KeptLinks,   \* each of a wallet of its own
          Tasks        \* what changes the file or tells a notice, in any process

VARIABLES disk,        \* connector.json, as it was last written
          torn,        \* it cannot be parsed: emptied to be written, or mixed
          change,      \* what each task is at: [pc, op, link, copy, over]
          phone,       \* what each link's wallet knows of it
          asked,       \* links removed here: remove_link saved it
          undone,      \* those written over by a copy loaded before it was saved
          aged         \* notices 30 days old

kept == <<disk, torn, change, phone, asked, undone, aged>>

NoLink == "no link"
NewFile == [links |-> {}, retired |-> {}, noted |-> {}]
\* over: the links whose removal was saved since this task loaded its copy.
NoChange == [pc |-> "idle", op |-> "none", link |-> NoLink, copy |-> NewFile,
             over |-> {}]
Telling(l) == [NoChange EXCEPT !.pc = "tells", !.link = l]

KeptInit ==
    /\ disk = NewFile /\ torn = FALSE
    /\ change = [t \in Tasks |-> NoChange]
    /\ phone = [l \in KeptLinks |-> "new"]
    /\ asked = {} /\ undone = {} /\ aged = {}

(***************************************************************************)
(* LinkState                                                               *)
(***************************************************************************)

add_or_replace_link(s, l) == [s EXCEPT !.links = @ \cup {l}]

remove_link_removed_by_wallet(s, l) ==
    [s EXCEPT !.links = @ \ {l}, !.noted = @ \ {l}]

\* The link goes and its notice is kept.
retire_link(s, l) ==
    IF l \notin s.links THEN s
    ELSE [remove_link_removed_by_wallet(s, l) EXCEPT !.retired = @ \cup {l}]

forget_retired(s, l) == [s EXCEPT !.retired = @ \ {l}]
prune_retired(s) == [s EXCEPT !.retired = @ \ aged]

\* note_persona, note_wallet_relay.
Note(s, l) == IF l \in s.links THEN [s EXCEPT !.noted = @ \cup {l}] ELSE s

Changed(op, s, l) ==
    CASE op = "pair" -> add_or_replace_link(s, l)
      [] op = "retire" -> retire_link(s, l)
      [] op = "forget" -> forget_retired(s, l)
      [] op = "prune" -> prune_retired(s)
      [] op = "note" -> Note(s, l)
      [] op = "removed" -> remove_link_removed_by_wallet(s, l)

(***************************************************************************)
(* update: load, change, save                                              *)
(***************************************************************************)

\* A file that cannot be parsed, or that the change leaves as it is, is not saved.
Update(t, op, l) ==
    change' = [change EXCEPT ![t] =
                 IF torn \/ Changed(op, disk, l) = disk THEN NoChange
                 ELSE [pc |-> "loaded", op |-> op, link |-> l,
                       copy |-> Changed(op, disk, l), over |-> {}]]

Free(t) == change[t].pc = "idle"

\* std::fs::write empties the file, so that what others write next is whole,
SaveBegins(t) ==
    /\ change[t].pc = "loaded"
    /\ torn' = TRUE
    /\ change' = [u \in Tasks |->
                    IF u = t \/ change[u].pc = "mixes"
                      THEN [change[u] EXCEPT !.pc = "saves"] ELSE change[u]]
    /\ UNCHANGED <<disk, phone, asked, undone, aged>>

HasCopy(c) == c.pc \in {"loaded", "saves", "mixes"}

\* How the others go on once a task wrote the file: who emptied it before writes
\* over the start of it, and a copy loaded before a removal does not have it.
WrittenOver(c, removed) ==
    IF ~HasCopy(c) THEN c
    ELSE [c EXCEPT !.pc = IF @ = "saves" THEN "mixes" ELSE @,
                   !.over = @ \cup removed]

\* and writes it.  remove_link then tells the wallet.
SaveEnds(t) ==
    LET c == change[t]
        removed == {l \in {c.link} : c.op = "retire"} IN
    /\ c.pc \in {"saves", "mixes"}
    /\ disk' = c.copy
    /\ torn' \in {FALSE, c.pc = "mixes"}
    /\ asked' = asked \cup removed
    /\ undone' = (undone \cup c.over) \ removed
    /\ aged' = aged \ removed
    /\ change' = [u \in Tasks |->
                    IF u # t THEN WrittenOver(change[u], removed)
                    ELSE IF removed # {} THEN Telling(c.link) ELSE NoChange]
    /\ UNCHANGED phone

Killed(t) ==
    /\ ~Free(t)
    /\ change' = [change EXCEPT ![t] = NoChange]
    /\ UNCHANGED <<disk, torn, phone, asked, undone, aged>>

(***************************************************************************)
(* What changes it                                                         *)
(***************************************************************************)

\* A pairing linked: the wallet has the link before the file has.
Paired(t, l) ==
    /\ Free(t) /\ phone[l] = "new"
    /\ Update(t, "pair", l)
    /\ phone' = [phone EXCEPT ![l] = "linked"]
    /\ UNCHANGED <<disk, torn, asked, undone, aged>>

\* after_exchange, remember_wallet_relays: what an answer says about its link.
Answered(t, l) ==
    /\ Free(t) /\ phone[l] = "linked" /\ l \in disk.links
    /\ Update(t, "note", l)
    /\ UNCHANGED <<disk, torn, phone, asked, undone, aged>>

WalletRemoves(l) ==
    /\ phone[l] = "linked"
    /\ phone' = [phone EXCEPT ![l] = "removed"]
    /\ UNCHANGED <<disk, torn, change, asked, undone, aged>>

\* after_exchange, forget_links_removed_by_wallet.
HearsRemoved(t, l) ==
    /\ Free(t) /\ phone[l] = "removed" /\ l \in disk.links
    /\ Update(t, "removed", l)
    /\ UNCHANGED <<disk, torn, phone, asked, undone, aged>>

remove_link(t, l) ==
    /\ Free(t) /\ l \in disk.links
    /\ Update(t, "retire", l)
    /\ UNCHANGED <<disk, torn, phone, asked, undone, aged>>

\* deliver_removal_notices, deliver_pending_notices: the expired ones go,
GivesUp(t) ==
    /\ Free(t) /\ disk.retired \cap aged # {}
    /\ Update(t, "prune", NoLink)
    /\ UNCHANGED <<disk, torn, phone, asked, undone, aged>>

\* and each of the others is told by a task of its own.
Tells(t, l) ==
    /\ Free(t) /\ ~torn /\ l \in disk.retired
    /\ change' = [change EXCEPT ![t] = Telling(l)]
    /\ UNCHANGED <<disk, torn, phone, asked, undone, aged>>

\* MUTANT of ForgetTold: the notice goes with the attempt.
ForgetTried(t, l, confirmed) == Update(t, "forget", l)

ForgetTold(t, l, confirmed) ==
    IF confirmed THEN Update(t, "forget", l)
    ELSE change' = [change EXCEPT ![t] = NoChange]

\* notify_link_removed ends: confirmed over a transport, received without that
\* being known here, or not received.
Told(t) ==
    LET l == change[t].link IN
    /\ change[t].pc = "tells"
    /\ \E received, confirmed \in BOOLEAN :
         /\ confirmed => received
         /\ received => phone[l] \in {"linked", "told"}
         /\ phone' = IF received THEN [phone EXCEPT ![l] = "told"] ELSE phone
         /\ ForgetTold(t, l, confirmed)
    /\ UNCHANGED <<disk, torn, asked, undone, aged>>

NoticeExpires(l) ==
    /\ l \in disk.retired \ aged
    /\ aged' = aged \cup {l}
    /\ UNCHANGED <<disk, torn, change, phone, asked, undone>>

KeptNext ==
    \/ \E t \in Tasks :
         \/ SaveBegins(t) \/ SaveEnds(t) \/ Killed(t) \/ GivesUp(t) \/ Told(t)
         \/ \E l \in KeptLinks :
              Paired(t, l) \/ Answered(t, l) \/ HearsRemoved(t, l) \/ remove_link(t, l)
              \/ Tells(t, l)
    \/ \E l \in KeptLinks : WalletRemoves(l) \/ NoticeExpires(l)

(***************************************************************************)
(* Properties                                                              *)
(***************************************************************************)

\* A link removed here stays removed, and its notice is kept until the wallet
\* has it, no longer has the link, or 30 days are over (link_removal.rs), whatever
\* tasks write the file and wherever they are killed: unless the file cannot be
\* read, or a copy loaded before the removal was saved was written over it.
RemovalIsKept ==
    ~torn => \A l \in asked \ undone :
        /\ l \notin disk.links
        /\ l \in disk.retired \/ l \in aged \/ phone[l] # "linked"
=============================================================================
