------------------------------ MODULE PartsProofs ------------------------------
(***************************************************************************)
(* The parts of the system that stand for themselves: what one change of   *)
(* the state file, the held sessions, the wallet's side, the tools and the *)
(* SDK-to-SDK channel and the reassembly promise, for any number of links, *)
(* calls, requests and messages.                                           *)
(***************************************************************************)
EXTENDS MCParts, FiniteSetTheorems, SequenceTheorems, TLAPS

\* A step of the system is one of each part, or leaves that part as it is.
LEMMA KeptIsAPart == Spec => Ke!KeptInit /\ [][Ke!KeptNext]_keptVars
  <1>1. Init => Ke!KeptInit
    BY DEF Init
  <1>2. [Next]_vars => [Ke!KeptNext]_keptVars
    BY DEF Next, vars
  <1> QED BY <1>1, <1>2, PTL DEF Spec

\* A behaviour of the parts is one of the held links, ...
LEMMA HeldLinksIsAPart ==
    Spec => He!HeldLinksInit /\ [][He!HeldLinksNext]_heldLinksVars
  <1>1. Init => He!HeldLinksInit
    BY DEF Init
  <1>2. [Next]_vars => [He!HeldLinksNext]_heldLinksVars
    BY DEF Next, vars
  <1> QED BY <1>1, <1>2, PTL DEF Spec

\* ... one of the tools, ...
LEMMA ToolsIsAPart == Spec => To!ToolsInit /\ [][To!ToolsNext]_toolsVars
  <1>1. Init => To!ToolsInit
    BY DEF Init
  <1>2. [Next]_vars => [To!ToolsNext]_toolsVars
    BY DEF Next, vars
  <1> QED BY <1>1, <1>2, PTL DEF Spec

\* ... and one of the wallet side.
LEMMA WalletIsAPart == Spec => Wa!WalletSideInit /\ [][Wa!WalletSideNext]_walletVars
  <1>1. Init => Wa!WalletSideInit
    BY DEF Init
  <1>2. [Next]_vars => [Wa!WalletSideNext]_walletVars
    BY DEF Next, vars
  <1> QED BY <1>1, <1>2, PTL DEF Spec

-----------------------------------------------------------------------------
(* Kept: the state file and the links removed in it                        *)

Files == [links : SUBSET KeptLinks, retired : SUBSET KeptLinks, noted : SUBSET KeptLinks]

KeptOps == {"none", "pair", "retire", "forget", "prune", "note", "removed"}

Changes == [pc : {"idle", "loaded", "saves", "mixes", "tells"}, op : KeptOps,
            link : KeptLinks \cup {Ke!NoLink}, copy : Files, over : SUBSET KeptLinks]

KeptTypes ==
    /\ disk \in Files /\ torn \in BOOLEAN
    /\ change \in [Tasks -> Changes]
    /\ phone \in [KeptLinks -> {"new", "linked", "told", "removed"}]
    /\ asked \subseteq KeptLinks /\ undone \subseteq KeptLinks /\ aged \subseteq KeptLinks

\* What a file has to say of a link removed here.
Removed(s, l) == l \notin s.links /\ (l \in s.retired \/ l \in aged \/ phone[l] # "linked")

\* What it has to say of the removals that it knows of, all but those in without,
\* and of the links never paired.
Keeps(s, without) ==
    /\ \A l \in asked \ without : Removed(s, l)
    /\ \A l \in s.links : phone[l] # "new"

\* The copy that a task is about to save, of the file before the removals in over.
CopyKeeps(c) ==
    Ke!HasCopy(c) =>
        /\ c.op # "none"
        /\ Keeps(c.copy, undone \cup c.over)
        /\ c.op = "retire" =>
             c.link \in c.copy.retired \ c.copy.links
             /\ c.link \in KeptLinks /\ phone[c.link] # "new"

\* The link that a task tells is one that was paired.
TellsOfALink(c) == c.pc = "tells" => c.link \in KeptLinks

KeptInv ==
    /\ KeptTypes /\ Keeps(disk, undone)
    /\ \A t \in Tasks : CopyKeeps(change[t]) /\ TellsOfALink(change[t])
    /\ \A l \in asked : phone[l] # "new"

\* The state file begins within its invariant.
LEMMA KeptStarts == Ke!KeptInit => KeptInv
  <1> SUFFICES ASSUME Ke!KeptInit PROVE KeptInv
    OBVIOUS
  <1>1. disk \in Files /\ Keeps(disk, undone)
    BY DEF Ke!KeptInit, Ke!NewFile, Files, Keeps
  <1>2. Ke!NoChange \in Changes
    BY DEF Ke!NoChange, Ke!NewFile, Files, KeptOps, Changes
  <1>3. KeptTypes
    BY <1>1, <1>2 DEF Ke!KeptInit, KeptTypes
  <1> QED
    BY <1>1, <1>3 DEF Ke!KeptInit, KeptInv, CopyKeeps, TellsOfALink, Ke!NoChange, Ke!HasCopy

\* A change of a file that says what it has to gives one that does, whenever the
\* link it adds is of no removal, and the notice it drops is not needed any more.
LEMMA ChangedKeeps ==
  ASSUME KeptInv, NEW s \in Files, Keeps(s, undone), NEW op \in KeptOps \ {"none"},
         NEW l \in KeptLinks \cup {Ke!NoLink}, op # "prune" => l \in KeptLinks
  PROVE  /\ Ke!Changed(op, s, l) \in Files
         /\ op = "retire" /\ Ke!Changed(op, s, l) # s =>
              l \in s.links /\ l \in Ke!Changed(op, s, l).retired \ Ke!Changed(op, s, l).links
         /\ op \notin {"pair", "forget"} => Keeps(Ke!Changed(op, s, l), undone)
  BY DEF Keeps, Removed, Files, KeptOps, Ke!Changed, Ke!add_or_replace_link, Ke!retire_link,
         Ke!forget_retired, Ke!prune_retired, Ke!Note, Ke!remove_link_removed_by_wallet

\* How the phones may change without a removal being forgotten.
PhonesGoOn ==
    /\ phone' \in [KeptLinks -> {"new", "linked", "told", "removed"}]
    /\ \A k \in KeptLinks : phone[k] # phone'[k] =>
         phone'[k] # "new" /\ (k \in asked => phone'[k] # "linked")

\* While no file is written, what a file or a copy says stays true.
LEMMA KeepsStays ==
  ASSUME KeptInv, PhonesGoOn, aged \subseteq aged', UNCHANGED <<asked, undone>>
  PROVE  /\ \A s \in Files, w \in SUBSET KeptLinks : Keeps(s, w) => Keeps(s, w)'
         /\ \A c \in Changes : CopyKeeps(c) /\ TellsOfALink(c) => CopyKeeps(c)' /\ TellsOfALink(c)'
         /\ \A k \in asked' : phone'[k] # "new"
  <1>1. ASSUME NEW s \in Files, NEW w \in SUBSET KeptLinks, Keeps(s, w)
        PROVE  Keeps(s, w)'
    BY <1>1 DEF KeptInv, KeptTypes, Keeps, Removed, PhonesGoOn, Files
  <1>2. ASSUME NEW c \in Changes, CopyKeeps(c), TellsOfALink(c)
        PROVE  CopyKeeps(c)' /\ TellsOfALink(c)'
    <2>1. c.copy \in Files /\ undone \cup c.over \in SUBSET KeptLinks
      BY DEF Changes, KeptInv, KeptTypes
    <2>2. Keeps(c.copy, undone \cup c.over) => Keeps(c.copy, undone \cup c.over)'
      BY <1>1, <2>1
    <2> QED
      BY <1>2, <2>2 DEF CopyKeeps, TellsOfALink, Ke!HasCopy, PhonesGoOn
  <1>3. \A k \in asked' : phone'[k] # "new"
    BY DEF KeptInv, KeptTypes, PhonesGoOn
  <1> QED BY <1>1, <1>2, <1>3

\* Nor does the copy of a task that this step leaves where it is.
LEMMA OthersKeep ==
  ASSUME KeptInv, PhonesGoOn, aged \subseteq aged', UNCHANGED <<asked, undone>>,
         NEW u \in Tasks, change'[u] = change[u]
  PROVE  (CopyKeeps(change[u]) /\ TellsOfALink(change[u]))'
  <1> PICK c \in Changes : c = change[u]
    BY DEF KeptInv, KeptTypes
  <1>1. CopyKeeps(c) /\ TellsOfALink(c)
    BY DEF KeptInv, CopyKeeps, TellsOfALink
  <1>2. CopyKeeps(c)' /\ TellsOfALink(c)'
    BY <1>1, KeepsStays
  <1> QED BY <1>2 DEF CopyKeeps, TellsOfALink, Ke!HasCopy, Keeps, Removed

\* A task goes on with nothing to save.
LEMMA NothingToSave ==
  ASSUME KeptInv, NEW t \in Tasks, NEW c \in Changes, ~Ke!HasCopy(c), TellsOfALink(c),
         change' = [change EXCEPT ![t] = c], UNCHANGED <<disk, asked, undone>>,
         torn' \in BOOLEAN, PhonesGoOn, aged \subseteq aged', aged' \subseteq KeptLinks
  PROVE  KeptInv'
  <1>1. Keeps(disk, undone)' /\ \A k \in asked' : phone'[k] # "new"
    BY KeepsStays DEF KeptInv, KeptTypes
  <1>2. KeptTypes'
    BY DEF KeptInv, KeptTypes, PhonesGoOn
  <1>3. ASSUME NEW u \in Tasks
        PROVE  (CopyKeeps(change[u]) /\ TellsOfALink(change[u]))'
    <2>1. CASE u = t
      <3>1. change'[u] = c
        BY <2>1 DEF KeptInv, KeptTypes
      <3> QED BY <3>1 DEF CopyKeeps, TellsOfALink, Ke!HasCopy
    <2>2. CASE u # t
      <3>1. change'[u] = change[u]
        BY <2>2 DEF KeptInv, KeptTypes
      <3> QED BY <3>1, OthersKeep
    <2> QED BY <2>1, <2>2
  <1> QED BY <1>1, <1>2, <1>3 DEF KeptInv

\* A task that loads the file keeps what it says in its copy.
LEMMA UpdateKeeps ==
  ASSUME KeptInv, NEW t \in Tasks, NEW op \in KeptOps \ {"none"},
         NEW l \in KeptLinks \cup {Ke!NoLink}, op # "prune" => l \in KeptLinks,
         Ke!Update(t, op, l), UNCHANGED <<disk, torn, asked, undone, aged>>, PhonesGoOn,
         op = "pair" => l \notin asked /\ phone'[l] # "new",
         op = "forget" => phone'[l] # "linked"
  PROVE  KeptInv'
  <1> DEFINE copy == Ke!Changed(op, disk, l)
             loaded == [pc |-> "loaded", op |-> op, link |-> l, copy |-> copy, over |-> {}]
  <1>1. Keeps(disk, undone)' /\ (\A k \in asked' : phone'[k] # "new")
    BY KeepsStays DEF KeptInv, KeptTypes
  <1>2. CASE change' = [change EXCEPT ![t] = Ke!NoChange]
    <2>1. Ke!NoChange \in Changes /\ ~Ke!HasCopy(Ke!NoChange) /\ TellsOfALink(Ke!NoChange)
      BY DEF Ke!NoChange, Ke!NewFile, Files, KeptOps, Changes, Ke!HasCopy, TellsOfALink
    <2> QED
      BY <1>2, <2>1, NothingToSave DEF KeptInv, KeptTypes
  <1>3. CASE change' = [change EXCEPT ![t] = loaded] /\ copy # disk
    <2>1. disk \in Files /\ Keeps(disk, undone)
      BY DEF KeptInv, KeptTypes
    <2>2. /\ copy \in Files
          /\ op = "retire" => l \in disk.links /\ l \in copy.retired \ copy.links
          /\ op \notin {"pair", "forget"} => Keeps(copy, undone)
      BY <1>3, <2>1, ChangedKeeps
    <2>3. op = "pair" => copy.links = disk.links \cup {l} /\ copy.retired = disk.retired
      BY <2>1 DEF Ke!Changed, Ke!add_or_replace_link, Files
    <2>4. op = "forget" => copy.links = disk.links /\ copy.retired = disk.retired \ {l}
      BY <2>1 DEF Ke!Changed, Ke!forget_retired, Files
    <2> HIDE DEF copy
    <2>5. PICK s \in Files : s = copy
      BY <2>2
    <2>6. Keeps(s, undone)'
      <3>1. CASE op \notin {"pair", "forget"}
        <4>1. Keeps(s, undone)
          BY <2>2, <2>5, <3>1 DEF Keeps, Removed
        <4> QED BY <4>1, KeepsStays DEF KeptInv, KeptTypes, Keeps, Removed
      <3>2. CASE op = "pair"
        BY <1>1, <2>3, <2>5, <3>2 DEF Keeps, Removed, KeptInv, KeptTypes, Files
      <3>3. CASE op = "forget"
        BY <1>1, <2>4, <2>5, <3>3 DEF Keeps, Removed, KeptInv, KeptTypes, Files
      <3> QED BY <3>1, <3>2, <3>3
    <2>7. loaded \in Changes
      BY <2>2 DEF Changes
    <2>8. KeptTypes'
      BY <1>3, <2>7 DEF KeptInv, KeptTypes, PhonesGoOn
    <2>9. ASSUME NEW u \in Tasks
          PROVE  (CopyKeeps(change[u]) /\ TellsOfALink(change[u]))'
      <3>1. CASE u = t
        <4>1. change'[u] = [pc |-> "loaded", op |-> op, link |-> l, copy |-> s, over |-> {}]
          BY <1>3, <2>5, <3>1 DEF KeptInv, KeptTypes
        <4>2. op = "retire" => phone'[l] # "new" /\ l \in s.retired \ s.links
          BY <1>1, <2>2, <2>5 DEF Keeps
        <4> QED
          BY <2>6, <4>1, <4>2 DEF CopyKeeps, TellsOfALink, Ke!HasCopy, Keeps, Removed, KeptOps
      <3>2. CASE u # t
        <4>1. change'[u] = change[u]
          BY <1>3, <3>2 DEF KeptInv, KeptTypes
        <4> QED BY <4>1, OthersKeep
      <3> QED BY <3>1, <3>2
    <2> QED
      BY <1>1, <2>8, <2>9 DEF KeptInv
  <1> QED
    BY <1>2, <1>3 DEF Ke!Update

\* The file is emptied: the copies are as they were.
LEMMA SaveBeginsKeeps ==
  ASSUME KeptInv, NEW t \in Tasks, Ke!SaveBegins(t)
  PROVE  KeptInv'
  <1>1. /\ UNCHANGED <<disk, phone, asked, undone, aged>> /\ torn' = TRUE
        /\ change[t].pc = "loaded"
        /\ change' = [u \in Tasks |->
                        IF u = t \/ change[u].pc = "mixes"
                          THEN [change[u] EXCEPT !.pc = "saves"] ELSE change[u]]
    BY DEF Ke!SaveBegins
  <1>2. PhonesGoOn
    BY <1>1 DEF KeptInv, KeptTypes, PhonesGoOn
  <1>3. ASSUME NEW u \in Tasks
        PROVE  change'[u] \in Changes /\ (CopyKeeps(change[u]) /\ TellsOfALink(change[u]))'
    <2>1. CASE u = t \/ change[u].pc = "mixes"
      <3>1. change'[u] = [change[u] EXCEPT !.pc = "saves"] /\ change[u] \in Changes
        BY <1>1, <2>1 DEF KeptInv, KeptTypes
      <3>2. CopyKeeps(change[u]) /\ Ke!HasCopy(change[u])
        BY <1>1, <2>1 DEF KeptInv, Ke!HasCopy
      <3> QED
        BY <1>1, <3>1, <3>2
        DEF CopyKeeps, TellsOfALink, Ke!HasCopy, Keeps, Removed, Changes
    <2>2. CASE ~(u = t \/ change[u].pc = "mixes")
      <3>1. change'[u] = change[u] /\ change[u] \in Changes
        BY <1>1, <2>2 DEF KeptInv, KeptTypes
      <3> QED BY <1>1, <1>2, <3>1, OthersKeep
    <2> QED BY <2>1, <2>2
  <1>4. KeptTypes'
    BY <1>1, <1>3 DEF KeptInv, KeptTypes
  <1> QED
    BY <1>1, <1>3, <1>4 DEF KeptInv, Keeps, Removed

\* A copy is saved: the file says what it said, and the copies that do not know of
\* a removal saved now are said not to.
LEMMA SaveEndsKeeps ==
  ASSUME KeptInv, NEW t \in Tasks, Ke!SaveEnds(t)
  PROVE  KeptInv'
  <1> DEFINE removed == {l \in {change[t].link} : change[t].op = "retire"}
  <1>1. /\ disk' = change[t].copy /\ torn' \in BOOLEAN /\ phone' = phone
        /\ asked' = asked \cup removed /\ undone' = (undone \cup change[t].over) \ removed
        /\ aged' = aged \ removed
    BY DEF Ke!SaveEnds
  <1>2. change' = [u \in Tasks |->
                     IF u # t THEN Ke!WrittenOver(change[u], removed)
                     ELSE IF removed # {} THEN Ke!Telling(change[t].link) ELSE Ke!NoChange]
    BY DEF Ke!SaveEnds
  <1>3. Ke!HasCopy(change[t])
    BY DEF Ke!SaveEnds, Ke!HasCopy
  <1>4. /\ change[t] \in Changes /\ change[t].copy \in Files
        /\ Keeps(change[t].copy, undone \cup change[t].over)
        /\ removed \subseteq KeptLinks
        /\ \A l \in removed : l \in change[t].copy.retired \ change[t].copy.links
                              /\ phone[l] # "new"
    BY <1>3 DEF KeptInv, KeptTypes, CopyKeeps, Changes
  <1> HIDE DEF removed
  <1>5. Keeps(disk, undone)' /\ \A l \in asked' : phone'[l] # "new"
    BY <1>1, <1>4 DEF Keeps, Removed, KeptInv, KeptTypes, Files
  <1>6. ASSUME NEW u \in Tasks
        PROVE  change'[u] \in Changes /\ (CopyKeeps(change[u]) /\ TellsOfALink(change[u]))'
    <2>1. CASE u = t
      <3>1. change'[u] = IF removed # {} THEN Ke!Telling(change[t].link) ELSE Ke!NoChange
        BY <1>2, <2>1
      <3>2. removed # {} => change[t].link \in KeptLinks
        BY <1>4 DEF removed
      <3>3. CASE removed = {}
        BY <3>1, <3>3 DEF CopyKeeps, TellsOfALink, Ke!HasCopy, Ke!NoChange, Ke!NewFile,
                          Files, KeptOps, Changes
      <3>4. CASE removed # {}
        <4>1. change'[u] = [pc |-> "tells", op |-> "none", link |-> change[t].link,
                            copy |-> Ke!NewFile, over |-> {}]
          BY <3>1, <3>4 DEF Ke!Telling, Ke!NoChange
        <4>2. change'[u] \in Changes
          BY <3>2, <3>4, <4>1 DEF Ke!NewFile, Files, KeptOps, Changes
        <4> QED
          BY <3>2, <3>4, <4>1, <4>2 DEF CopyKeeps, TellsOfALink, Ke!HasCopy
      <3> QED BY <3>3, <3>4
    <2>2. CASE u # t /\ ~Ke!HasCopy(change[u])
      <3>1. change'[u] = change[u] /\ change[u] \in Changes
        BY <1>2, <2>2 DEF Ke!WrittenOver, KeptInv, KeptTypes
      <3> QED BY <2>2, <3>1 DEF KeptInv, CopyKeeps, TellsOfALink, Ke!HasCopy
    <2>3. CASE u # t /\ Ke!HasCopy(change[u])
      <3> PICK c \in Changes : c = change[u]
        BY DEF KeptInv, KeptTypes
      <3>1. CopyKeeps(c) /\ Ke!HasCopy(c)
        BY <2>3 DEF KeptInv, CopyKeeps, Ke!HasCopy
      <3>2. change'[u] = [c EXCEPT !.pc = IF c.pc = "saves" THEN "mixes" ELSE c.pc,
                                   !.over = c.over \cup removed]
        BY <1>2, <2>3 DEF Ke!WrittenOver
      <3>3. /\ change'[u] \in Changes /\ change'[u].pc # "tells"
            /\ change'[u].op = c.op /\ change'[u].link = c.link /\ change'[u].copy = c.copy
            /\ change'[u].over = c.over \cup removed
        <4>1. c.pc = "loaded" \/ c.pc = "saves" \/ c.pc = "mixes"
          BY <3>1 DEF Ke!HasCopy
        <4>2. c.over \cup removed \in SUBSET KeptLinks
          BY <1>4 DEF Changes
        <4>3. change'[u] = [pc |-> IF c.pc = "saves" THEN "mixes" ELSE c.pc, op |-> c.op,
                            link |-> c.link, copy |-> c.copy, over |-> c.over \cup removed]
          BY <3>2 DEF Changes
        <4> QED BY <4>1, <4>2, <4>3 DEF Changes
      <3>4. Keeps(c.copy, undone \cup c.over)
        BY <3>1 DEF CopyKeeps
      <3>5. /\ \A l \in asked' \ (undone' \cup change'[u].over) :
                  l \notin c.copy.links
                  /\ (l \in c.copy.retired \/ l \in aged' \/ phone'[l] # "linked")
            /\ \A l \in c.copy.links : phone'[l] # "new"
        BY <1>1, <3>3, <3>4 DEF Keeps, Removed
      <3>6. c.op # "none" /\ (c.op = "retire" => c.link \in c.copy.retired \ c.copy.links
                              /\ c.link \in KeptLinks /\ phone'[c.link] # "new")
        BY <1>1, <3>1 DEF CopyKeeps
      <3> QED
        BY <3>3, <3>5, <3>6 DEF CopyKeeps, TellsOfALink, Keeps, Removed
    <2> QED BY <2>1, <2>2, <2>3
  <1>7. KeptTypes'
    <2>1. DOMAIN change' = Tasks /\ change' = [u \in Tasks |-> change'[u]]
      BY <1>2
    <2>2. change' \in [Tasks -> Changes]
      BY <1>6, <2>1
    <2> QED BY <1>1, <1>4, <2>2 DEF KeptInv, KeptTypes, Changes
  <1> QED
    BY <1>5, <1>6, <1>7 DEF KeptInv

\* No step of a task, of a wallet or of time leaves the invariant.
LEMMA KeptStep ==
  ASSUME KeptInv, [Ke!KeptNext]_keptVars
  PROVE  KeptInv'
  <1> USE DEF KeptOps
  <1>1. CASE UNCHANGED keptVars
    BY <1>1 DEF keptVars, KeptInv, KeptTypes, Keeps, Removed, CopyKeeps, TellsOfALink
  <1>2. ASSUME NEW t \in Tasks, NEW l \in KeptLinks, Ke!Paired(t, l)
        PROVE  KeptInv'
    <2>1. PhonesGoOn /\ l \notin asked /\ phone'[l] # "new"
      BY <1>2 DEF Ke!Paired, KeptInv, KeptTypes, PhonesGoOn
    <2> QED BY <1>2, <2>1, UpdateKeeps DEF Ke!Paired
  <1>3. ASSUME NEW t \in Tasks, NEW l \in KeptLinks,
               Ke!Answered(t, l) \/ Ke!HearsRemoved(t, l) \/ Ke!remove_link(t, l)
        PROVE  KeptInv'
    <2>1. PICK op \in {"note", "removed", "retire"} : Ke!Update(t, op, l)
      BY <1>3 DEF Ke!Answered, Ke!HearsRemoved, Ke!remove_link
    <2>2. UNCHANGED <<disk, torn, phone, asked, undone, aged>>
      BY <1>3 DEF Ke!Answered, Ke!HearsRemoved, Ke!remove_link
    <2>3. PhonesGoOn
      BY <2>2 DEF KeptInv, KeptTypes, PhonesGoOn
    <2> QED
      BY <2>1, <2>2, <2>3, UpdateKeeps
  <1>4. ASSUME NEW t \in Tasks, Ke!GivesUp(t)
        PROVE  KeptInv'
    <2>1. PhonesGoOn
      BY <1>4 DEF Ke!GivesUp, KeptInv, KeptTypes, PhonesGoOn
    <2> QED BY <1>4, <2>1, UpdateKeeps DEF Ke!GivesUp
  <1>5. ASSUME NEW t \in Tasks, Ke!Told(t)
        PROVE  KeptInv'
    <2>1. change[t].link \in KeptLinks
      BY <1>5 DEF Ke!Told, KeptInv, TellsOfALink
    <2>2. PICK l \in KeptLinks : l = change[t].link
      BY <2>1
    <2>3. PICK received, confirmed \in BOOLEAN :
            /\ confirmed => received
            /\ received => phone[l] \in {"linked", "told"}
            /\ phone' = IF received THEN [phone EXCEPT ![l] = "told"] ELSE phone
            /\ Ke!ForgetTold(t, l, confirmed)
      BY <1>5, <2>2 DEF Ke!Told
    <2>4. PhonesGoOn /\ (confirmed => phone'[l] = "told")
      BY <2>3 DEF KeptInv, KeptTypes, PhonesGoOn
    <2>5. UNCHANGED <<disk, torn, asked, undone, aged>>
      BY <1>5 DEF Ke!Told
    <2>6. CASE confirmed
      BY <2>3, <2>4, <2>5, <2>6, UpdateKeeps DEF Ke!ForgetTold
    <2>7. CASE ~confirmed
      <3>1. Ke!NoChange \in Changes /\ ~Ke!HasCopy(Ke!NoChange) /\ TellsOfALink(Ke!NoChange)
        BY DEF Ke!NoChange, Ke!NewFile, Files, Changes, Ke!HasCopy, TellsOfALink
      <3> QED
        BY <2>3, <2>4, <2>5, <2>7, <3>1, NothingToSave DEF Ke!ForgetTold, KeptInv, KeptTypes
    <2> QED BY <2>6, <2>7
  <1>6. ASSUME NEW t \in Tasks, Ke!Killed(t)
        PROVE  KeptInv'
    <2>1. Ke!NoChange \in Changes /\ ~Ke!HasCopy(Ke!NoChange) /\ TellsOfALink(Ke!NoChange)
      BY DEF Ke!NoChange, Ke!NewFile, Files, Changes, Ke!HasCopy, TellsOfALink
    <2>2. PhonesGoOn
      BY <1>6 DEF Ke!Killed, KeptInv, KeptTypes, PhonesGoOn
    <2> QED BY <1>6, <2>1, <2>2, NothingToSave DEF Ke!Killed, KeptInv, KeptTypes
  <1>7. ASSUME NEW t \in Tasks, NEW l \in KeptLinks, Ke!Tells(t, l)
        PROVE  KeptInv'
    <2>1. /\ Ke!Telling(l) \in Changes /\ ~Ke!HasCopy(Ke!Telling(l))
          /\ TellsOfALink(Ke!Telling(l))
      BY DEF Ke!Telling, Ke!NoChange, Ke!NewFile, Files, Changes, Ke!HasCopy, TellsOfALink
    <2>2. PhonesGoOn
      BY <1>7 DEF Ke!Tells, KeptInv, KeptTypes, PhonesGoOn
    <2> QED BY <1>7, <2>1, <2>2, NothingToSave DEF Ke!Tells, Ke!Telling, KeptInv, KeptTypes
  <1>8. ASSUME NEW l \in KeptLinks, Ke!WalletRemoves(l) \/ Ke!NoticeExpires(l)
        PROVE  KeptInv'
    <2>1. /\ PhonesGoOn /\ aged \subseteq aged' /\ aged' \subseteq KeptLinks
          /\ UNCHANGED <<disk, torn, change, asked, undone>>
      BY <1>8 DEF Ke!WalletRemoves, Ke!NoticeExpires, KeptInv, KeptTypes, PhonesGoOn
    <2>2. Keeps(disk, undone)' /\ \A k \in asked' : phone'[k] # "new"
      BY <2>1, KeepsStays DEF KeptInv, KeptTypes
    <2>3. \A u \in Tasks : (CopyKeeps(change[u]) /\ TellsOfALink(change[u]))'
      BY <2>1, OthersKeep
    <2>4. KeptTypes'
      BY <2>1 DEF KeptInv, KeptTypes, PhonesGoOn
    <2> QED BY <2>2, <2>3, <2>4 DEF KeptInv
  <1> QED
    BY <1>1, <1>2, <1>3, <1>4, <1>5, <1>6, <1>7, <1>8, SaveBeginsKeeps, SaveEndsKeeps
    DEF Ke!KeptNext

\* state.rs and link_removal.rs: whatever tasks of whatever programs change the
\* state file at once, and wherever they are killed, a link removed here stays
\* removed, and its notice is kept until the wallet has it, has no such link, or 30
\* days are over, unless the file cannot be read or is written over by a copy
\* loaded before the removal was saved.
THEOREM RemovalStays == Spec => []RemovalIsKept
  <1>1. KeptInv /\ [Ke!KeptNext]_keptVars => KeptInv'
    BY KeptStep
  <1>2. KeptInv => RemovalIsKept
    BY DEF KeptInv, Keeps, Removed, RemovalIsKept, Ke!RemovalIsKept
  <1> QED
    BY <1>1, <1>2, KeptStarts, KeptIsAPart, PTL

-----------------------------------------------------------------------------
(* HeldLinks: the sessions that calls and pairings hold                    *)

HeldTypes ==
    /\ file \subseteq Links /\ session \subseteq Links /\ closing \subseteq Links
    /\ forgotten \subseteq Links /\ cut \subseteq Links
    /\ held \in [Links -> [users : Nat, generation : Nat]]
    /\ turn \in [Calls -> [pc : {"idle", "checks", "opening", "using", "over"},
                           link : Links \cup {He!NoLink}]]
    /\ \A c \in Calls : turn[c].pc # "idle" => turn[c].link \in Links
    /\ attempt \in [Links -> {"none", "running", "aborted", "iroh", "webrtc", "failed",
                              "collected"}]
    /\ poll \in [pc : {"idle", "waits", "removing", "saving"}, link : Links \cup {He!NoLink}]
    /\ poll.pc # "idle" => poll.link \in Links
    /\ slot \in Links \cup {He!NoLink}

\* Only what a pairing linked is in the file, or held, or asked for by a call.
LinkedFirst ==
    \A l \in Links : attempt[l] \in {"none", "running"} =>
        /\ l \notin file /\ held[l] = He!NotHeld
        /\ \A c \in Calls : turn[c].pc # "idle" => turn[c].link # l

\* The server keeps one link: the one it paired last.
OneLink == \A k, l \in file : k = l

\* A held link's entry counts the calls that use it; one that none uses has a
\* release scheduled, and a session is held, or being closed.
Counted(l) ==
    /\ held[l] # He!NotHeld => He!IsHeld(l)
    /\ held[l].users = Cardinality(He!Using(l))
    /\ He!IsHeld(l) /\ held[l].users = 0 => <<l, held[l].generation>> \in timers
    /\ l \in session => He!IsHeld(l) \/ l \in closing

HeldInv ==
    /\ HeldTypes /\ LinkedFirst /\ OneLink
    /\ \A l \in Links \ forgotten : Counted(l)
    /\ IdleIsUnused

\* The calls that use a link are finitely many, and counted one by one.
LEMMA UsersCounted ==
    \A l : /\ IsFiniteSet(He!Using(l)) /\ Cardinality(He!Using(l)) \in Nat
           /\ Cardinality(He!Using(l)) = 0 <=> He!Using(l) = {}
  <1> TAKE l
  <1>1. IsFiniteSet(He!Using(l))
    BY PartsAssumption, FS_Subset DEF He!Using
  <1> QED
    BY <1>1, FS_CardinalityType, FS_EmptySet

\* The held links begin within their invariant.
LEMMA HeldStarts == He!HeldLinksInit => HeldInv
  <1> SUFFICES ASSUME He!HeldLinksInit PROVE HeldInv
    OBVIOUS
  <1>1. HeldTypes /\ LinkedFirst /\ OneLink /\ IdleIsUnused
    BY DEF He!HeldLinksInit, He!NotHeld, He!NotPolling, HeldTypes, LinkedFirst, OneLink,
           IdleIsUnused, He!IdleIsUnused
  <1>2. \A l \in Links : Counted(l)
    <2>1. \A l \in Links : He!Using(l) = {}
      BY DEF He!HeldLinksInit, He!Using
    <2> QED
      BY <2>1, UsersCounted DEF He!HeldLinksInit, Counted, He!IsHeld, He!NotHeld
  <1> QED BY <1>1, <1>2 DEF HeldInv

\* What is said of a link's entry is not changed by what happens to other links.
LEMMA CountedStays ==
  ASSUME NEW l, Counted(l), UNCHANGED held[l], He!Using(l)' = He!Using(l),
         \A g : <<l, g>> \in timers /\ g = held[l].generation => <<l, g>> \in timers',
         l \in session' => l \in session, l \in closing => l \in closing' \/ l \notin session'
  PROVE  Counted(l)'
  BY DEF Counted, He!IsHeld

\* A call that begins to use its link is one user more of it, and of no other.
LEMMA UserCame ==
  ASSUME HeldTypes, NEW c \in Calls, NEW l, turn[c].link = l, turn[c].pc # "using",
         turn' = [turn EXCEPT ![c].pc = "using"]
  PROVE  /\ Cardinality(He!Using(l)') = Cardinality(He!Using(l)) + 1
         /\ \A k : k # l => He!Using(k)' = He!Using(k)
  <1>1. c \notin He!Using(l)
        /\ He!Using(l)' = He!Using(l) \cup {c}
    BY DEF He!Using, HeldTypes
  <1>2. \A k : k # l => He!Using(k)' = He!Using(k)
    BY DEF He!Using, HeldTypes
  <1> QED
    BY <1>1, <1>2, UsersCounted, FS_AddElement

\* A call that is over is one user less.
LEMMA UserWent ==
  ASSUME HeldTypes, NEW c \in Calls, NEW l, turn[c].link = l, turn[c].pc = "using",
         turn' = [turn EXCEPT ![c].pc = "over"]
  PROVE  /\ Cardinality(He!Using(l)') = Cardinality(He!Using(l)) - 1
         /\ c \in He!Using(l)
         /\ \A k : k # l => He!Using(k)' = He!Using(k)
  <1>1. c \in He!Using(l)
        /\ He!Using(l)' = He!Using(l) \ {c}
    BY DEF He!Using, HeldTypes
  <1>2. \A k : k # l => He!Using(k)' = He!Using(k)
    BY DEF He!Using, HeldTypes
  <1> QED
    BY <1>1, <1>2, UsersCounted, FS_RemoveElement

\* Whatever else a call does, the users of a link stay.
LEMMA UsersStay ==
  ASSUME HeldTypes, NEW c \in Calls, turn[c].pc # "using",
         NEW t, t.pc # "using", turn' = [turn EXCEPT ![c] = t]
  PROVE  \A k : He!Using(k)' = He!Using(k)
  BY DEF He!Using, HeldTypes

\* forget: whatever is let go of for good is no concern of the counting, and what
\* is said of the other links stays.
LEMMA ForgetKeeps ==
  ASSUME HeldInv, NEW l \in Links, He!Forget(l),
         UNCHANGED <<session, timers, turn, attempt, cut>>, slot' \in Links \cup {He!NoLink},
         file' \subseteq Links, OneLink', \A k \in file' \ file : attempt[k] \notin {"none", "running"},
         poll' \in [pc : {"idle", "waits", "removing", "saving"}, link : Links \cup {He!NoLink}],
         poll'.pc # "idle" => poll'.link \in Links
  PROVE  HeldInv'
  <1>1. HeldTypes'
    BY DEF HeldInv, HeldTypes, He!Forget, He!NotHeld
  <1>2. LinkedFirst'
    BY DEF HeldInv, HeldTypes, LinkedFirst, He!Forget, He!NotHeld
  <1>3. \A k \in (Links \ forgotten)' : Counted(k)'
    <2> SUFFICES ASSUME NEW k \in Links \ forgotten, k # l PROVE Counted(k)'
      BY DEF He!Forget
    <2>1. held'[k] = held[k] /\ He!Using(k)' = He!Using(k) /\ closing \subseteq closing'
      BY DEF He!Forget, He!Using, HeldInv, HeldTypes
    <2> QED
      BY <2>1, CountedStays DEF HeldInv
  <1>4. IdleIsUnused'
    BY DEF HeldInv, IdleIsUnused, He!IdleIsUnused, He!Forget
  <1> QED BY <1>1, <1>2, <1>3, <1>4 DEF HeldInv

\* The steps of the table itself: a close that returns, a release that comes due.
LEMMA TableKeeps ==
  ASSUME HeldInv, NEW l \in Links,
         He!Closed(l) \/ \E t \in timers : t[1] = l /\ He!IdleOver(l, t[2])
  PROVE  HeldInv'
  <1>1. CASE He!Closed(l)
    <2>1. HeldTypes' /\ LinkedFirst' /\ OneLink' /\ IdleIsUnused'
      BY <1>1 DEF He!Closed, HeldInv, HeldTypes, LinkedFirst, OneLink, IdleIsUnused, He!IdleIsUnused
    <2>2. ASSUME NEW k \in Links \ forgotten PROVE Counted(k)'
      BY <1>1, CountedStays DEF He!Closed, He!Using, HeldInv
    <2> QED
      BY <1>1, <2>1, <2>2 DEF He!Closed, HeldInv
  <1>2. ASSUME NEW g, He!IdleOver(l, g)
        PROVE  HeldInv'
    <2>1. CASE ~(He!IsHeld(l) /\ He!StillIdle(l, g))
      <3>1. HeldTypes' /\ LinkedFirst' /\ OneLink' /\ IdleIsUnused'
        BY <1>2, <2>1 DEF He!IdleOver, HeldInv, HeldTypes, LinkedFirst, OneLink, IdleIsUnused,
                          He!IdleIsUnused
      <3>2. ASSUME NEW k \in Links \ forgotten PROVE Counted(k)'
        <4>1. CASE k # l
          BY <1>2, <2>1, <4>1, CountedStays DEF He!IdleOver, He!Using, HeldInv
        <4>2. CASE k = l
          BY <1>2, <2>1, <4>2
          DEF He!IdleOver, He!Using, HeldInv, HeldTypes, Counted, He!IsHeld, He!StillIdle
        <4> QED BY <4>1, <4>2
      <3> QED
        BY <1>2, <3>1, <3>2 DEF He!IdleOver, HeldInv
    <2>2. CASE He!IsHeld(l) /\ He!StillIdle(l, g)
      <3>1. /\ held' = [held EXCEPT ![l] = He!NotHeld] /\ closing' = closing \cup {l}
            /\ UNCHANGED <<file, session, turn, slot, attempt, poll, forgotten>>
            /\ cut' = IF He!Using(l) # {} THEN cut \cup {l} ELSE cut
            /\ timers' = timers \ {<<l, g>>}
        BY <1>2, <2>2 DEF He!IdleOver
      <3>2. HeldTypes' /\ LinkedFirst' /\ OneLink'
        BY <3>1 DEF HeldInv, HeldTypes, LinkedFirst, OneLink, He!NotHeld
      <3>3. l \notin forgotten => He!Using(l) = {}
        <4>1. held[l].users = 0
          BY <2>2 DEF He!StillIdle
        <4>2. l \notin forgotten => Cardinality(He!Using(l)) = 0
          BY <4>1 DEF HeldInv, Counted
        <4> QED BY <4>2, UsersCounted
      <3>4. IdleIsUnused'
        BY <3>1, <3>3 DEF HeldInv, IdleIsUnused, He!IdleIsUnused
      <3>5. ASSUME NEW k \in Links \ forgotten PROVE Counted(k)'
        <4>1. CASE k # l
          BY <3>1, <4>1, CountedStays DEF He!Using, HeldInv, HeldTypes
        <4>2. CASE k = l
          <5>1. held'[l] = He!NotHeld /\ He!Using(l)' = {} /\ l \in closing'
            BY <3>1, <3>3, <4>2 DEF He!Using, HeldInv, HeldTypes
          <5> QED
            BY <4>2, <5>1, UsersCounted, FS_EmptySet DEF Counted, He!IsHeld, He!NotHeld
        <4> QED BY <4>1, <4>2
      <3> QED
        BY <3>1, <3>2, <3>4, <3>5 DEF HeldInv
    <2> QED BY <2>1, <2>2
  <1> QED BY <1>1, <1>2

\* The steps of a pairing.
LEMMA PairingKeeps ==
  ASSUME HeldInv, NEW l \in Links, He!pair_wallet(l) \/ He!concluded(l)
  PROVE  HeldInv'
  <1>1. CASE He!pair_wallet(l)
    <2>1. HeldTypes' /\ LinkedFirst' /\ OneLink' /\ IdleIsUnused'
      BY <1>1 DEF He!pair_wallet, HeldInv, HeldTypes, LinkedFirst, OneLink, IdleIsUnused,
                  He!IdleIsUnused
    <2>2. ASSUME NEW k \in Links \ forgotten PROVE Counted(k)'
      BY <1>1, CountedStays DEF He!pair_wallet, He!Using, HeldInv
    <2> QED
      BY <1>1, <2>1, <2>2 DEF He!pair_wallet, HeldInv
  <1>2. CASE He!concluded(l)
    <2>1. CASE UNCHANGED <<session, held, timers>>
      <3>1. HeldTypes' /\ LinkedFirst' /\ OneLink' /\ IdleIsUnused'
        BY <1>2, <2>1 DEF He!concluded, HeldInv, HeldTypes, LinkedFirst, OneLink, IdleIsUnused,
                          He!IdleIsUnused, He!Adopt
      <3>2. ASSUME NEW k \in Links \ forgotten PROVE Counted(k)'
        BY <1>2, <2>1, CountedStays DEF He!concluded, He!Using, HeldInv
      <3> QED
        BY <1>2, <3>1, <3>2 DEF He!concluded, HeldInv
    <2>2. CASE /\ attempt' = [attempt EXCEPT ![l] = "iroh"]
               /\ session' = session \cup {l} /\ He!Adopt(l)
      <3>1. HeldTypes' /\ LinkedFirst' /\ OneLink' /\ IdleIsUnused'
        BY <1>2, <2>2 DEF He!concluded, HeldInv, HeldTypes, LinkedFirst, OneLink, IdleIsUnused,
                          He!IdleIsUnused, He!Adopt
      <3>2. ASSUME NEW k \in Links \ forgotten PROVE Counted(k)'
        <4>1. CASE k # l
          BY <1>2, <2>2, <4>1, CountedStays
          DEF He!concluded, He!Adopt, He!Using, HeldInv, HeldTypes
        <4>2. CASE k = l
          <5>1. He!Using(l)' = {}
            BY <1>2 DEF He!concluded, He!Using, HeldInv, LinkedFirst
          <5>2. held'[l] = [users |-> 0, generation |-> 1] /\ <<l, 1>> \in timers'
            BY <2>2 DEF He!Adopt, HeldInv, HeldTypes
          <5> QED
            BY <4>2, <5>1, <5>2, FS_EmptySet DEF Counted, He!IsHeld
        <4> QED BY <4>1, <4>2
      <3> QED
        BY <1>2, <3>1, <3>2 DEF He!concluded, HeldInv
    <2> QED BY <1>2, <2>1, <2>2 DEF He!concluded
  <1> QED BY <1>1, <1>2

\* A call that waits for its link, or gives it up, touches no session.
LEMMA CallWaits ==
  ASSUME HeldInv, NEW c \in Calls, turn[c].pc \in {"checks", "opening"},
         NEW pc \in {"opening", "over"}, turn' = [turn EXCEPT ![c].pc = pc],
         UNCHANGED <<file, records, session, held, timers, closing, slot, attempt, poll,
                     forgotten, cut>>
  PROVE  HeldInv'
  <1>1. HeldTypes' /\ LinkedFirst' /\ OneLink' /\ IdleIsUnused'
    BY DEF HeldInv, HeldTypes, LinkedFirst, OneLink, IdleIsUnused, He!IdleIsUnused
  <1>2. \A k : He!Using(k)' = He!Using(k)
    BY DEF He!Using, HeldInv, HeldTypes
  <1>3. ASSUME NEW k \in Links \ forgotten PROVE Counted(k)'
    BY <1>2, CountedStays DEF HeldInv
  <1> QED BY <1>1, <1>3 DEF HeldInv

\* The steps of a call before it uses its link, and of its exchange.
LEMMA CallKeeps ==
  ASSUME HeldInv, NEW c \in Calls,
         \/ \E l \in Links : He!Targets(c, l)
         \/ He!NotOpened(c) \/ He!Exchanges(c)
  PROVE  HeldInv'
  <1>1. ASSUME NEW l \in Links, He!Targets(c, l)
        PROVE  HeldInv'
    <2>1. HeldTypes' /\ LinkedFirst' /\ OneLink' /\ IdleIsUnused'
      BY <1>1 DEF He!Targets, HeldInv, HeldTypes, LinkedFirst, OneLink, IdleIsUnused,
                  He!IdleIsUnused
    <2>2. \A k : He!Using(k)' = He!Using(k)
      BY <1>1, UsersStay DEF He!Targets, HeldInv
    <2>3. ASSUME NEW k \in Links \ forgotten PROVE Counted(k)'
      BY <1>1, <2>2, CountedStays DEF He!Targets, HeldInv
    <2> QED
      BY <1>1, <2>1, <2>3 DEF He!Targets, HeldInv
  <1>2. CASE He!NotOpened(c)
    BY <1>2, CallWaits DEF He!NotOpened
  <1>3. CASE He!Exchanges(c)
    <2>1. HeldTypes' /\ LinkedFirst' /\ OneLink' /\ IdleIsUnused'
      BY <1>3 DEF He!Exchanges, HeldInv, HeldTypes, LinkedFirst, OneLink, IdleIsUnused,
                  He!IdleIsUnused
    <2>2. ASSUME NEW k \in Links \ forgotten PROVE Counted(k)'
      <3>1. CASE k # turn[c].link
        BY <1>3, <3>1, CountedStays DEF He!Exchanges, He!Using, HeldInv
      <3>2. CASE k = turn[c].link
        <4>1. He!Using(k) # {} /\ He!Using(k)' = He!Using(k)
          BY <1>3, <3>2 DEF He!Exchanges, He!Using
        <4>2. held[k].users # 0
          BY <4>1, UsersCounted DEF HeldInv, Counted
        <4>3. held[k] # He!NotHeld
          BY <4>2 DEF He!NotHeld
        <4>4. He!IsHeld(k)
          BY <4>3 DEF HeldInv, Counted
        <4> QED
          BY <1>3, <4>1, <4>4 DEF He!Exchanges, HeldInv, Counted, He!IsHeld
      <3> QED BY <3>1, <3>2
    <2> QED
      BY <1>3, <2>1, <2>2 DEF He!Exchanges, HeldInv
  <1> QED BY <1>1, <1>2, <1>3

\* A call joins the users of its link, that is held or that it opened.
LEMMA JoinKeeps ==
  ASSUME HeldInv, NEW c \in Calls, turn[c].pc \in {"checks", "opening"},
         held' = He!Joined(turn[c].link), turn' = [turn EXCEPT ![c].pc = "using"],
         session \subseteq session', session' \subseteq session \cup {turn[c].link},
         UNCHANGED <<file, records, timers, closing, slot, attempt, poll, forgotten, cut>>
  PROVE  HeldInv'
  <1> DEFINE l == turn[c].link
  <1>1. l \in Links /\ held' = [held EXCEPT ![l].users = @ + 1, ![l].generation = @ + 1]
    BY DEF HeldInv, HeldTypes, He!Joined
  <1>2. HeldTypes'
    BY <1>1 DEF HeldInv, HeldTypes
  <1>3. LinkedFirst' /\ OneLink' /\ IdleIsUnused'
    BY <1>1 DEF HeldInv, HeldTypes, LinkedFirst, OneLink, IdleIsUnused, He!IdleIsUnused
  <1>4. ASSUME NEW k \in Links \ forgotten PROVE Counted(k)'
    <2>1. CASE k # l
      BY <1>1, <2>1, UserCame, CountedStays DEF HeldInv, HeldTypes
    <2>2. CASE k = l
      <3>1. Cardinality(He!Using(k)') = Cardinality(He!Using(k)) + 1
        BY <2>2, UserCame DEF HeldInv
      <3>2. held[k] \in [users : Nat, generation : Nat]
            /\ held'[k] = [users |-> held[k].users + 1, generation |-> held[k].generation + 1]
        BY <1>1, <2>2 DEF HeldInv, HeldTypes
      <3>3. held[k].users = Cardinality(He!Using(k))
        BY DEF HeldInv, Counted
      <3>4. held'[k].users = Cardinality(He!Using(k)') /\ held'[k].users > 0
            /\ held'[k].generation > 0
        BY <3>1, <3>2, <3>3
      <3> QED
        BY <3>4 DEF Counted, He!IsHeld
    <2> QED BY <2>1, <2>2
  <1> QED BY <1>2, <1>3, <1>4 DEF HeldInv

\* LinkTurn, dropped: the last user schedules the end of the session.
LEMMA TurnEndKeeps ==
  ASSUME HeldInv, NEW c \in Calls, He!TurnEnds(c)
  PROVE  HeldInv'
  <1> DEFINE l == turn[c].link
  <1>1. /\ l \in Links /\ He!Release(l) /\ turn[c].pc = "using"
        /\ turn' = [turn EXCEPT ![c].pc = "over"]
        /\ UNCHANGED <<file, records, session, closing, slot, attempt, poll, forgotten, cut>>
    BY DEF He!TurnEnds, HeldInv, HeldTypes
  <1>2. /\ held' \in [Links -> [users : Nat, generation : Nat]]
        /\ timers \subseteq timers'
        /\ \A k \in Links : k # l => held'[k] = held[k]
        /\ held[l] = He!NotHeld => held'[l] = held[l]
    <2>1. held \in [Links -> [users : Nat, generation : Nat]] /\ held[l].generation \in Nat
      BY <1>1 DEF HeldInv, HeldTypes
    <2> HIDE DEF l
    <2>2. CASE ~He!IsHeld(l)
      BY <1>1, <2>1, <2>2 DEF He!Release
    <2>3. CASE He!IsHeld(l)
      <3>1. held[l] # He!NotHeld
        BY <2>1, <2>3 DEF He!IsHeld, He!NotHeld
      <3> DEFINE users == IF held[l].users > 0 THEN held[l].users - 1 ELSE 0
      <3>2. users \in Nat /\ held[l].generation + 1 \in Nat
        BY <1>1, <2>1
      <3>3. IF users > 0
            THEN /\ held' = [held EXCEPT ![l].users = users]
                 /\ UNCHANGED timers
            ELSE /\ held' = [held EXCEPT ![l] = [users |-> 0, generation |-> @.generation + 1]]
                 /\ timers' = timers \cup {<<l, held[l].generation + 1>>}
        BY <1>1, <2>3 DEF He!Release
      <3> HIDE DEF users
      <3>4. CASE users > 0
        BY <1>1, <2>1, <3>1, <3>2, <3>3, <3>4
      <3>5. CASE ~(users > 0)
        BY <1>1, <2>1, <3>1, <3>2, <3>3, <3>5
      <3> QED BY <3>4, <3>5
    <2> QED BY <2>2, <2>3
  <1>3. HeldTypes'
    BY <1>1, <1>2 DEF HeldInv, HeldTypes
  <1>4. LinkedFirst' /\ OneLink' /\ IdleIsUnused'
    BY <1>1, <1>2 DEF HeldInv, HeldTypes, LinkedFirst, OneLink, IdleIsUnused, He!IdleIsUnused
  <1> HIDE DEF l
  <1>5. ASSUME NEW k \in Links \ forgotten PROVE Counted(k)'
    <2>1. CASE k # l
      <3>1. He!Using(k)' = He!Using(k)
        BY <1>1, <2>1, UserWent DEF HeldInv, l
      <3>2. held'[k] = held[k] /\ timers \subseteq timers' /\ UNCHANGED <<session, closing>>
        BY <1>1, <1>2, <2>1
      <3> QED
        BY <3>1, <3>2, CountedStays DEF HeldInv
    <2>2. CASE k = l
      <3>1. /\ Cardinality(He!Using(k)') = Cardinality(He!Using(k)) - 1
            /\ He!Using(k) # {}
        BY <1>1, <2>2, UserWent DEF HeldInv, l
      <3>2. /\ held[k].users = Cardinality(He!Using(k)) /\ held[k] # He!NotHeld
            /\ held[k].users # 0 /\ He!IsHeld(k)
        <4>1. Counted(k)
          BY DEF HeldInv
        <4>2. held[k].users # 0
          BY <3>1, <4>1, UsersCounted DEF Counted
        <4>3. held[k] # He!NotHeld
          BY <4>2 DEF He!NotHeld
        <4> QED BY <4>1, <4>2, <4>3 DEF Counted
      <3>3. held[k] \in [users : Nat, generation : Nat]
        BY DEF HeldInv, HeldTypes
      <3>4. CASE held[k].users = 1
        <4>1. /\ held'[k] = [users |-> 0, generation |-> held[k].generation + 1]
              /\ <<k, held[k].generation + 1>> \in timers'
          BY <1>1, <2>2, <3>2, <3>3, <3>4 DEF He!Release, HeldInv, HeldTypes
        <4> QED
          BY <3>1, <3>2, <3>3, <3>4, <4>1 DEF Counted, He!IsHeld
      <3>5. CASE held[k].users > 1
        <4>1. held'[k] = [users |-> held[k].users - 1, generation |-> held[k].generation]
          BY <1>1, <2>2, <3>2, <3>3, <3>5 DEF He!Release, HeldInv, HeldTypes
        <4>2. held'[k].users = Cardinality(He!Using(k)') /\ held'[k].users > 0
              /\ held'[k].generation > 0
          BY <3>1, <3>2, <3>3, <3>5, <4>1 DEF He!IsHeld
        <4> QED
          BY <4>2 DEF Counted, He!IsHeld
      <3> QED BY <3>2, <3>3, <3>4, <3>5
    <2> QED BY <2>1, <2>2
  <1> QED BY <1>1, <1>3, <1>4, <1>5 DEF HeldInv

\* No step of a call, a pairing or the table leaves the invariant.
LEMMA HeldStep ==
  ASSUME HeldInv, [He!HeldLinksNext]_heldLinksVars
  PROVE  HeldInv'
  <1>1. CASE UNCHANGED heldLinksVars \/ He!pair_status \/ He!PollEnds \/ He!Recorded
             \/ He!Removed
    <2>2. UNCHANGED <<held, turn, timers, session, closing, forgotten, slot, cut>>
          /\ file' \subseteq file
      BY <1>1 DEF heldLinksVars, He!pair_status, He!PollEnds, He!Recorded, He!Removed
    <2>4. /\ poll' \in [pc : {"idle", "waits", "removing", "saving"}, link : Links \cup {He!NoLink}]
          /\ poll'.pc # "idle" => poll'.link \in Links
      BY <1>1 DEF heldLinksVars, He!pair_status, He!PollEnds, He!Recorded, He!Removed, HeldInv,
                  HeldTypes, He!NotPolling
    <2>5. \/ UNCHANGED attempt
          \/ attempt' = [attempt EXCEPT ![poll.link] = "collected"]
      BY <1>1 DEF heldLinksVars, He!pair_status, He!PollEnds, He!Recorded, He!Removed
    <2>1. HeldTypes' /\ LinkedFirst' /\ OneLink' /\ IdleIsUnused'
      BY <2>2, <2>4, <2>5 DEF HeldInv, HeldTypes, LinkedFirst, OneLink, IdleIsUnused,
                              He!IdleIsUnused
    <2>3. ASSUME NEW k \in Links \ forgotten PROVE Counted(k)'
      BY <2>2, CountedStays DEF He!Using, HeldInv
    <2> QED
      BY <2>1, <2>2, <2>3 DEF HeldInv
  <1>2. ASSUME NEW c \in Calls, He!acquire(c)
        PROVE  HeldInv'
    <2>1. CASE He!IsHeld(turn[c].link)
      BY <1>2, <2>1, JoinKeeps DEF He!acquire
    <2>2. CASE ~He!IsHeld(turn[c].link)
      BY <1>2, <2>2, CallWaits DEF He!acquire
    <2> QED BY <2>1, <2>2
  <1>3. ASSUME NEW c \in Calls, He!Opened(c)
        PROVE  HeldInv'
    <2>1. CASE held' = He!Joined(turn[c].link)
      <3>1. /\ turn' = [turn EXCEPT ![c].pc = "using"]
            /\ session' = session \cup {turn[c].link} \/ session' = session
        <4>1. CASE turn' = [turn EXCEPT ![c].pc = "using"]
          BY <1>3, <4>1 DEF He!Opened
        <4>2. CASE turn' = [turn EXCEPT ![c].pc = "over"] /\ UNCHANGED held
          <5>1. held'[turn[c].link] # held[turn[c].link]
            BY <1>3, <2>1 DEF He!Opened, He!Joined, HeldInv, HeldTypes
          <5> QED BY <4>2, <5>1
        <4> QED BY <1>3, <4>1, <4>2 DEF He!Opened
      <3> QED
        BY <1>3, <2>1, <3>1, JoinKeeps DEF He!Opened
    <2>2. CASE UNCHANGED <<held, session>> /\ turn' = [turn EXCEPT ![c].pc = "over"]
      BY <1>3, <2>2, CallWaits DEF He!Opened
    <2> QED BY <1>3, <2>1, <2>2 DEF He!Opened
  <1>4. ASSUME NEW c \in Calls, He!forget_removed_by_wallet(c)
        PROVE  HeldInv'
    BY <1>4, ForgetKeeps DEF He!forget_removed_by_wallet, HeldInv, HeldTypes, OneLink
  <1>5. ASSUME NEW l \in Links, He!remove_wallet(l)
        PROVE  HeldInv'
    BY <1>5, ForgetKeeps DEF He!remove_wallet, HeldInv, HeldTypes, OneLink
  <1>6. CASE He!Collects
    <2> DEFINE l == poll.link
    <2>1. /\ l \in Links /\ slot' = He!NoLink /\ attempt[l] \in {"iroh", "webrtc", "failed"}
          /\ UNCHANGED <<session, timers, turn, cut>>
      BY <1>6, PartsAssumption DEF He!Collects, HeldInv, HeldTypes, He!NoLink
    <2>2. CASE /\ poll' = He!NotPolling /\ attempt' = [attempt EXCEPT ![l] = "collected"]
               /\ UNCHANGED <<file, records, held, closing, forgotten>>
      <3>1. HeldTypes' /\ LinkedFirst' /\ OneLink' /\ IdleIsUnused'
        BY <2>1, <2>2 DEF HeldInv, HeldTypes, LinkedFirst, OneLink, IdleIsUnused,
                          He!IdleIsUnused, He!NotPolling
      <3>2. ASSUME NEW k \in Links \ forgotten PROVE Counted(k)'
        BY <2>1, <2>2, CountedStays DEF He!Using, HeldInv
      <3> QED BY <2>2, <3>1, <3>2 DEF HeldInv
    <2>3. CASE /\ poll' = [poll EXCEPT !.pc = "saving"] /\ file' = {l} /\ UNCHANGED attempt
      <3>1. CASE UNCHANGED <<records, held, closing, forgotten>>
        <4>1. HeldTypes' /\ LinkedFirst' /\ OneLink' /\ IdleIsUnused'
          BY <2>1, <2>3, <3>1 DEF HeldInv, HeldTypes, LinkedFirst, OneLink, IdleIsUnused,
                                  He!IdleIsUnused
        <4>2. ASSUME NEW k \in Links \ forgotten PROVE Counted(k)'
          BY <2>1, <3>1, CountedStays DEF He!Using, HeldInv
        <4> QED BY <3>1, <4>1, <4>2 DEF HeldInv
      <3>2. ASSUME NEW old \in file, He!Forget(old)
            PROVE  HeldInv'
        BY <2>1, <2>3, <3>2, ForgetKeeps DEF HeldInv, HeldTypes, OneLink
      <3> QED BY <1>6, <2>3, <3>1, <3>2 DEF He!Collects
    <2> QED BY <1>6, <2>2, <2>3 DEF He!Collects
  <1> QED
    BY <1>1, <1>2, <1>3, <1>4, <1>5, <1>6, TableKeeps, PairingKeeps, CallKeeps, TurnEndKeeps
    DEF He!HeldLinksNext

\* iroh.rs, acquire, release and adopt: however calls, pairings, removals and
\* idle times interleave, no session is left that nothing uses, closes or will
\* find idle.
THEOREM SessionsAreClosed == Spec => []NoSessionIsLeft
  <1>1. HeldInv /\ [He!HeldLinksNext]_heldLinksVars => HeldInv'
    BY HeldStep
  <1>2. HeldInv => NoSessionIsLeft
    <2> SUFFICES ASSUME HeldInv, NEW l \in session \ forgotten
                 PROVE  \/ l \in closing \/ He!Using(l) # {}
                        \/ <<l, held[l].generation>> \in timers /\ held[l].users = 0
      BY DEF NoSessionIsLeft, He!NoSessionIsLeft
    <2>1. Counted(l)
      BY DEF HeldInv, HeldTypes
    <2>2. CASE held[l].users = 0
      BY <2>1, <2>2 DEF Counted
    <2>3. CASE held[l].users # 0
      BY <2>1, <2>3, UsersCounted DEF Counted
    <2> QED BY <2>2, <2>3
  <1> QED
    BY <1>1, <1>2, HeldStarts, HeldLinksIsAPart, PTL

\* iroh.rs, release: the idle time ends no session that a call uses, unless its
\* link was removed or replaced under the call.
THEOREM IdleEndsNoUse == Spec => []IdleIsUnused
  <1>1. HeldInv /\ [He!HeldLinksNext]_heldLinksVars => HeldInv'
    BY HeldStep
  <1> QED
    BY <1>1, HeldStarts, HeldLinksIsAPart, PTL DEF HeldInv

-----------------------------------------------------------------------------
(* Tools: the proofs that a tool shows as verified                         *)

AnyChallenge == To!Challenges \cup {"first", "second", "third"}
Signed == [key : {To!Own, "theirs"}, message : AnyChallenge \X {"d", "", "e"}]
Shown == [kind : {"account", "persona"},
          address : {"account", "persona"} \X {To!Own, "theirs"} \X {To!Net},
          curve : {"curve25519", "secp256k1"}, echoed : AnyChallenge, proof : Signed]
Requests == {To!NoContent} \cup
            {To!Built(i, a, c) : i \in 1..ToolCalls, a \in To!Args, c \in AnyChallenge}
AskedCalls == [pc : {"none", "simulates", "guards", "checks", "sent", "left", "over"},
               args : To!Args \cup {To!NoContent}, challenge : AnyChallenge,
               request : Requests]

ToolsTypes ==
    /\ ask \in [1..ToolCalls -> AskedCalls]
    /\ signatures \subseteq Signed
    /\ before \in [1..ToolCalls -> SUBSET Signed]
    /\ shown \in [1..ToolCalls -> [item : Shown \cup {To!NoContent},
                                   verdict : {"none", "verified", "not verified", "not checked"}]]

\* A call under way has a challenge of its own, or the one it was given.
OwnChallenge(i) ==
    /\ ask[i].args \in To!Args
    /\ ask[i].challenge = IF ask[i].args.challenge = To!NoChallenge THEN To!Fresh[i]
                          ELSE ask[i].args.challenge

\* Nobody has signed a call's own challenge before the call sent it.
Unsigned(i) ==
    /\ (\E s \in signatures : s.message[1] = To!Fresh[i]) => ask[i].pc \in {"sent", "left", "over"}
    /\ \A s \in before[i] : s.message[1] # To!Fresh[i]

\* What is shown as verified is of the call, which is over and as it was.
OfTheCall(i) ==
    /\ shown[i].verdict # "none" => ask[i].pc = "over"
    /\ shown[i].verdict = "verified" =>
         /\ OwnChallenge(i)
         /\ shown[i].item \in Shown
         /\ shown[i].item.proof.message = <<ask[i].challenge, ask[i].args.dapp>>
         /\ shown[i].item.proof.key = shown[i].item.address[2]

ToolsInv ==
    /\ ToolsTypes
    /\ \A i \in 1..ToolCalls :
         /\ ask[i].pc \notin {"none", "over"} => OwnChallenge(i)
         /\ Unsigned(i) /\ OfTheCall(i)

\* Whatever a tool is called with, its challenge is one of these and its dApp one
\* of those.
LEMMA ArgsAre == \A a \in To!Args : a.challenge \in To!Challenges /\ a.dapp \in {"d", ""}
  BY DEF To!Args, To!ArgsWith, To!Challenges

\* Every call has a challenge of its own.
LEMMA FreshAre ==
    \A i \in 1..ToolCalls : /\ To!Fresh[i] \in {"first", "second", "third"}
                            /\ \A j \in 1..ToolCalls : To!Fresh[i] = To!Fresh[j] => i = j
  <1>1. To!Fresh[1] = "first" /\ To!Fresh[2] = "second" /\ To!Fresh[3] = "third"
    BY DEF To!Fresh
  <1>2. ToolCalls \in 0..3
    BY PartsAssumption
  <1>3. \A i \in 1..ToolCalls : i = 1 \/ i = 2 \/ i = 3
    BY <1>2
  <1> QED BY <1>1, <1>3

\* A call that is over, and no call, are calls of some kind.
LEMMA OverIs == To!Over \in AskedCalls /\ To!Over.pc = "over" /\ To!NoCall \in AskedCalls
  BY DEF To!Over, To!NoCall, AskedCalls, Requests, AnyChallenge, To!Challenges

\* The tools begin within their invariant, ...
LEMMA ToolsStart == To!ToolsInit => ToolsInv
  <1> SUFFICES ASSUME To!ToolsInit PROVE ToolsInv
    OBVIOUS
  <1>1. To!Elsewhere \subseteq Signed /\ \A s \in To!Elsewhere : s.message[1] = "mine"
    <2>1. <<"mine", "e">> \in AnyChallenge \X {"d", "", "e"} /\ <<"mine", "e">>[1] = "mine"
      BY DEF AnyChallenge, To!Challenges
    <2> SUFFICES ASSUME NEW s \in To!Elsewhere PROVE s \in Signed /\ s.message[1] = "mine"
      OBVIOUS
    <2>2. PICK k \in {To!Own, "theirs"} : s = [key |-> k, message |-> <<"mine", "e">>]
      BY DEF To!Elsewhere, To!signature_message
    <2> QED BY <2>1, <2>2 DEF Signed
  <1>2. ToolsTypes
    BY <1>1, OverIs DEF To!ToolsInit, ToolsTypes, To!NotShown
  <1> QED
    BY <1>1, <1>2, FreshAre
    DEF To!ToolsInit, ToolsInv, Unsigned, OfTheCall, To!NoCall, To!NotShown

\* A call that goes on, or ends without anything shown, keeps what is said of it.
LEMMA GoesKeeps ==
  ASSUME ToolsInv, NEW i \in 1..ToolCalls,
         NEW pc \in {"guards", "checks", "left"}, ask[i].pc \in {"simulates", "guards", "checks", "sent"},
         To!Goes(i, pc) \/ To!Ends(i), ask[i].pc = "sent" => pc = "left",
         UNCHANGED <<signatures, before, shown>>
  PROVE  ToolsInv'
  <1>1. /\ ask'[i].pc \in {pc, "over"} /\ \A j \in 1..ToolCalls : j # i => ask'[j] = ask[j]
        /\ ask'[i].pc = pc => ask'[i].args = ask[i].args /\ ask'[i].challenge = ask[i].challenge
    <2>1. CASE To!Ends(i)
      BY <2>1, OverIs DEF ToolsInv, ToolsTypes, To!Ends
    <2>2. CASE To!Goes(i, pc)
      BY <2>2 DEF ToolsInv, ToolsTypes, AskedCalls, To!Goes
    <2> QED BY <2>1, <2>2
  <1>2. ToolsTypes'
    <2>1. CASE To!Ends(i)
      BY <2>1, OverIs DEF ToolsInv, ToolsTypes, To!Ends
    <2>2. CASE To!Goes(i, pc)
      <3>1. [ask[i] EXCEPT !.pc = pc] \in AskedCalls
        BY DEF ToolsInv, ToolsTypes, AskedCalls
      <3> QED BY <2>2, <3>1 DEF ToolsInv, ToolsTypes, To!Goes
    <2> QED BY <2>1, <2>2
  <1>3. shown[i].verdict = "none"
    BY DEF ToolsInv, OfTheCall
  <1> QED
    BY <1>1, <1>2, <1>3 DEF ToolsInv, OwnChallenge, Unsigned, OfTheCall

\* A call starts with a challenge nobody signed, or the one it was given.
LEMMA CalledKeeps ==
  ASSUME ToolsInv, NEW i \in 1..ToolCalls, NEW a \in To!Args, To!Called(i, a)
  PROVE  ToolsInv'
  <1> DEFINE c == IF a.challenge = To!NoChallenge THEN To!Fresh[i] ELSE a.challenge
             new == [pc |-> IF a.tool \in {"transaction", "deploy"} THEN "simulates" ELSE "guards",
                     args |-> a, challenge |-> c, request |-> To!Built(i, a, c)]
  <1>1. c \in AnyChallenge
    BY ArgsAre, FreshAre DEF AnyChallenge
  <1>2. new \in AskedCalls
    BY <1>1 DEF AskedCalls, Requests
  <1>3. /\ ask[i].pc = "none" /\ UNCHANGED <<signatures, before, shown>>
        /\ ask' = [ask EXCEPT ![i] = IF ~To!InputAccepted(a) THEN To!Over ELSE new]
    BY DEF To!Called
  <1>4. ToolsTypes'
    BY <1>2, <1>3, OverIs DEF ToolsInv, ToolsTypes
  <1>5. /\ new.pc \notin {"none", "over"} /\ new.args = a /\ new.challenge = c
        /\ To!Over.pc = "over"
    BY OverIs
  <1>6. \A j \in 1..ToolCalls : j # i => ask'[j] = ask[j]
    BY <1>3 DEF ToolsInv, ToolsTypes
  <1>7. ask'[i] = To!Over \/ ask'[i] = new
    BY <1>3 DEF ToolsInv, ToolsTypes
  <1> HIDE DEF new
  <1>8. shown[i].verdict = "none" /\ \A s \in signatures : s.message[1] # To!Fresh[i]
    BY <1>3 DEF ToolsInv, OfTheCall, Unsigned
  <1> QED
    BY <1>3, <1>4, <1>5, <1>6, <1>7, <1>8 DEF ToolsInv, OwnChallenge, Unsigned, OfTheCall

\* The request is sent: nothing signed before is signed for it.
LEMMA SentKeeps ==
  ASSUME ToolsInv, NEW i \in 1..ToolCalls, ask[i].pc = "checks", To!Goes(i, "sent"),
         before' = [before EXCEPT ![i] = signatures], UNCHANGED <<signatures, shown>>
  PROVE  ToolsInv'
  <1>1. /\ \A j \in 1..ToolCalls : j # i => ask'[j] = ask[j] /\ before'[j] = before[j]
        /\ before'[i] = signatures /\ ask'[i].pc = "sent"
        /\ ask'[i].args = ask[i].args /\ ask'[i].challenge = ask[i].challenge
    BY DEF ToolsInv, ToolsTypes, AskedCalls, To!Goes
  <1>2. ToolsTypes'
    BY DEF ToolsInv, ToolsTypes, AskedCalls, To!Goes
  <1>3. shown[i].verdict = "none" /\ \A s \in signatures : s.message[1] # To!Fresh[i]
    BY DEF ToolsInv, OfTheCall, Unsigned
  <1> QED
    BY <1>1, <1>2, <1>3 DEF ToolsInv, OwnChallenge, Unsigned, OfTheCall

\* The wallet signs a call's own challenge for no other call.
LEMMA SigningKeeps ==
  ASSUME ToolsInv, NEW i \in 1..ToolCalls, To!WalletSigns(i)
  PROVE  ToolsInv'
  <1> DEFINE new == [key |-> To!Own, message |-> <<ask[i].challenge, ask[i].args.dapp>>]
  <1>1. /\ ask[i].pc \in {"sent", "left"} /\ signatures' = signatures \cup {new}
        /\ UNCHANGED <<ask, before, shown>>
    BY DEF To!WalletSigns, To!signature_message
  <1>2. OwnChallenge(i)
    BY <1>1 DEF ToolsInv
  <1>3. ask[i].challenge \in AnyChallenge /\ ask[i].args.dapp \in {"d", "", "e"}
    BY <1>2, ArgsAre DEF OwnChallenge, ToolsInv, ToolsTypes, AskedCalls
  <1>4. new \in Signed /\ new.message[1] = ask[i].challenge
    BY <1>3 DEF Signed
  <1>5. ToolsTypes'
    BY <1>1, <1>4 DEF ToolsInv, ToolsTypes
  <1>6. \A j \in 1..ToolCalls : ask[i].challenge = To!Fresh[j] => i = j
    BY <1>2, ArgsAre, FreshAre DEF OwnChallenge, To!Challenges, To!NoChallenge
  <1> HIDE DEF new
  <1> QED
    BY <1>1, <1>4, <1>5, <1>6 DEF ToolsInv, OwnChallenge, Unsigned, OfTheCall

\* An answer's proof is shown as verified only for what was asked and signed.
LEMMA AnswerKeeps ==
  ASSUME ToolsInv, NEW i \in 1..ToolCalls, NEW item \in To!Items(i), To!Answered(i, item)
  PROVE  ToolsInv'
  <1> DEFINE v == To!Judged(i, item)
  <1>1. v = "verified" => To!verify_proof(item, ask[i].challenge, ask[i].args.dapp)
    BY DEF To!Judged, To!verdict
  <1>2. v \in {"verified", "not verified", "not checked"}
    BY DEF To!Judged, To!verdict
  <1>3. /\ ask[i].pc = "sent" /\ UNCHANGED <<signatures, before>>
        /\ shown' = [shown EXCEPT ![i] = [item |-> IF v = "verified" THEN item ELSE To!NoContent,
                                          verdict |-> v]]
        /\ IF v = "verified" THEN To!Goes(i, "over") ELSE To!Ends(i)
    BY DEF To!Answered
  <1> HIDE DEF v
  <1>4. OwnChallenge(i)
    BY <1>3 DEF ToolsInv
  <1>5. item \in Shown
    <2>1. To!Fresh[i] \in AnyChallenge
      BY FreshAre DEF AnyChallenge
    <2>2. signatures \subseteq Signed
      BY DEF ToolsInv, ToolsTypes
    <2> QED
      BY <2>1, <2>2 DEF To!Items, Shown, To!DerivedAddress, AnyChallenge, To!Challenges
  <1>6. v = "verified" => /\ item.proof.message = <<ask[i].challenge, ask[i].args.dapp>>
                          /\ item.proof.key = item.address[2]
    BY <1>1 DEF To!verify_proof, To!signature_message, To!DerivedAddress
  <1>7. /\ \A j \in 1..ToolCalls : j # i => ask'[j] = ask[j] /\ shown'[j] = shown[j]
        /\ shown'[i] = [item |-> IF v = "verified" THEN item ELSE To!NoContent, verdict |-> v]
        /\ ask'[i].pc = "over"
        /\ v = "verified" => ask'[i].args = ask[i].args /\ ask'[i].challenge = ask[i].challenge
    <2>1. CASE v = "verified"
      BY <1>3, <2>1 DEF ToolsInv, ToolsTypes, AskedCalls, To!Goes
    <2>2. CASE v # "verified"
      BY <1>3, <2>2, OverIs DEF ToolsInv, ToolsTypes, To!Ends
    <2> QED BY <2>1, <2>2
  <1>8. ToolsTypes'
    <2>1. CASE v = "verified"
      <3>1. [ask[i] EXCEPT !.pc = "over"] \in AskedCalls
        BY DEF ToolsInv, ToolsTypes, AskedCalls
      <3> QED
        BY <1>2, <1>3, <1>5, <2>1, <3>1 DEF ToolsInv, ToolsTypes, To!Goes
    <2>2. CASE v # "verified"
      BY <1>2, <1>3, <2>2, OverIs DEF ToolsInv, ToolsTypes, To!Ends
    <2> QED BY <2>1, <2>2
  <1>9. ASSUME NEW j \in 1..ToolCalls
        PROVE  /\ ask'[j].pc \notin {"none", "over"} => OwnChallenge(j)'
               /\ Unsigned(j)' /\ OfTheCall(j)'
    <2>1. CASE j # i
      BY <1>3, <1>7, <2>1 DEF ToolsInv, OwnChallenge, Unsigned, OfTheCall
    <2>2. CASE j = i
      <3>1. Unsigned(i)'
        BY <1>3, <1>7 DEF ToolsInv, Unsigned
      <3>2. OfTheCall(i)'
        BY <1>4, <1>5, <1>6, <1>7 DEF OwnChallenge, OfTheCall
      <3> QED BY <1>7, <2>2, <3>1, <3>2
    <2> QED BY <2>1, <2>2
  <1> QED BY <1>8, <1>9 DEF ToolsInv

\* A call whose request stays unanswered here ends with nothing verified.
LEMMA EndKeeps ==
  ASSUME ToolsInv, NEW i \in 1..ToolCalls, To!AnsweredWithout(i) \/ To!await_response(i)
  PROVE  ToolsInv'
  <1>1. /\ ask[i].pc \in {"sent", "left"} /\ To!Ends(i) /\ UNCHANGED <<signatures, before>>
        /\ shown' = shown \/ shown' = [shown EXCEPT ![i].verdict = "not checked"]
    BY DEF To!AnsweredWithout, To!await_response
  <1>2. /\ \A j \in 1..ToolCalls : j # i => ask'[j] = ask[j] /\ shown'[j] = shown[j]
        /\ ask'[i].pc = "over" /\ shown[i].verdict = "none"
        /\ shown'[i].verdict \in {"none", "not checked"}
    BY <1>1, OverIs DEF ToolsInv, ToolsTypes, OfTheCall, To!Ends
  <1>3. ToolsTypes'
    BY <1>1, OverIs DEF ToolsInv, ToolsTypes, To!Ends
  <1>4. ASSUME NEW j \in 1..ToolCalls
        PROVE  /\ ask'[j].pc \notin {"none", "over"} => OwnChallenge(j)'
               /\ Unsigned(j)' /\ OfTheCall(j)'
    <2>1. CASE j # i
      <3>1. UNCHANGED <<signatures, before>> /\ ask'[j] = ask[j] /\ shown'[j] = shown[j]
        BY <1>1, <1>2, <2>1
      <3> QED
        BY <3>1 DEF ToolsInv, OwnChallenge, Unsigned, OfTheCall
    <2>2. CASE j = i
      <3>1. Unsigned(i)'
        BY <1>1, <1>2 DEF ToolsInv, Unsigned
      <3>2. OfTheCall(i)'
        BY <1>2 DEF OfTheCall
      <3> QED BY <1>2, <2>2, <3>1, <3>2
    <2> QED BY <2>1, <2>2
  <1> QED BY <1>3, <1>4 DEF ToolsInv

\* No step of a tool, of the wallet or of the record leaves it.
LEMMA ToolsStep ==
  ASSUME ToolsInv, [To!ToolsNext]_toolsVars
  PROVE  ToolsInv'
  <1>1. CASE UNCHANGED toolsVars \/ To!CheckForgotten
    <2>1. UNCHANGED <<ask, signatures, before, shown>>
      BY <1>1 DEF toolsVars, To!CheckForgotten
    <2> QED
      BY <2>1 DEF ToolsInv, ToolsTypes, OwnChallenge, Unsigned, OfTheCall
  <1>2. ASSUME NEW i \in 1..ToolCalls, To!preflight(i)
        PROVE  ToolsInv'
    BY <1>2, GoesKeeps DEF To!preflight
  <1>3. ASSUME NEW i \in 1..ToolCalls, To!Guarded(i)
        PROVE  ToolsInv'
    BY <1>3, GoesKeeps DEF To!Guarded
  <1>4. ASSUME NEW i \in 1..ToolCalls, To!DappChecked(i)
        PROVE  ToolsInv'
    <2>1. CASE To!Goes(i, "sent") /\ before' = [before EXCEPT ![i] = signatures]
      BY <1>4, <2>1, SentKeeps DEF To!DappChecked
    <2>2. CASE To!Ends(i) /\ UNCHANGED before
      BY <1>4, <2>2, GoesKeeps DEF To!DappChecked
    <2> QED BY <1>4, <2>1, <2>2 DEF To!DappChecked
  <1>5. ASSUME NEW i \in 1..ToolCalls, To!TimesOut(i)
        PROVE  ToolsInv'
    BY <1>5, GoesKeeps DEF To!TimesOut
  <1> QED
    BY <1>1, <1>2, <1>3, <1>4, <1>5, CalledKeeps, SigningKeeps, AnswerKeeps, EndKeeps
    DEF To!ToolsNext

\* tools.rs, requests.rs and rola: what a tool shows as verified was signed with
\* the key of the address it is shown for, for this dApp, and not before the
\* request was sent when its challenge is the tool's own; whatever signatures the
\* wallet kept, and however it labels what it answers.
THEOREM VerifiedIsFresh == Spec => []VerifiedIsOfThisRequest
  <1>1. ToolsInv /\ [To!ToolsNext]_toolsVars => ToolsInv'
    BY ToolsStep
  <1>2. ToolsInv => VerifiedIsOfThisRequest
    <2> SUFFICES ASSUME ToolsInv, NEW i \in 1..ToolCalls, shown[i].verdict = "verified"
                 PROVE  /\ shown[i].item.proof.key = shown[i].item.address[2]
                        /\ shown[i].item.proof.message[2] = ask[i].args.dapp
                        /\ ask[i].args.challenge = To!NoChallenge =>
                             shown[i].item.proof \notin before[i]
      BY DEF VerifiedIsOfThisRequest, To!VerifiedIsOfThisRequest
    <2> QED BY DEF ToolsInv, OfTheCall, OwnChallenge, Unsigned
  <1> QED
    BY <1>1, <1>2, ToolsStart, ToolsIsAPart, PTL

-----------------------------------------------------------------------------
(* WalletSide: what the wallet signs, and what it answers                  *)

AnyRequest == UNION {Wa!Sendable(i, net) : i \in 1..Asked, net \in Wa!Networks}

\* Requests, by what they ask for.
LEMMA SendableIs ==
  ASSUME NEW r \in AnyRequest
  PROVE  /\ r.networkId \in Wa!Networks
         /\ r.discriminator = "transaction" => DOMAIN r.asks = {"send"}
         /\ r.discriminator = "preAuthorizationRequest" => DOMAIN r.asks = {"request"}
         /\ r.discriminator \in {"unauthorizedRequest", "authorizedRequest"} =>
              "request" \notin DOMAIN r.asks
  <1>1. PICK i \in 1..Asked, net \in Wa!Networks : r \in Wa!Sendable(i, net)
    BY DEF AnyRequest
  <1>2. /\ \A field, content : DOMAIN Wa!Only(field, content) = {field}
        /\ DOMAIN Wa!Nothing = {}
    BY DEF Wa!Only, Wa!Nothing
  <1>3. \A field, content : DOMAIN Wa!When(TRUE, field, content) = {field}
                           /\ DOMAIN Wa!When(FALSE, field, content) = {}
    BY <1>2 DEF Wa!When
  <1>4. ASSUME NEW c, r = Wa!account_proof_request(i, net, c, FALSE)
        PROVE  r.networkId = net /\ r.discriminator = "unauthorizedRequest"
               /\ "request" \notin DOMAIN r.asks
    <2> DEFINE f == Wa!Only("oneTimeAccounts", c)
               g == Wa!When(FALSE, "oneTimePersonaData", Wa!NoChallenge)
    <2>1. /\ r.networkId = net /\ r.discriminator = "unauthorizedRequest"
          /\ r.asks = Wa!Parts(f, g)
      BY <1>4 DEF Wa!account_proof_request, Wa!Request
    <2>2. DOMAIN f = {"oneTimeAccounts"} /\ DOMAIN g = {}
      BY <1>2, <1>3
    <2> HIDE DEF f, g
    <2>3. DOMAIN r.asks = DOMAIN f \cup DOMAIN g
      BY <2>1 DEF Wa!Parts
    <2> QED BY <2>1, <2>2, <2>3
  <1>5. CASE r = Wa!account_request(i, net)
    <2>1. DOMAIN Wa!Only("oneTimeAccounts", Wa!NoChallenge) = {"oneTimeAccounts"}
      BY <1>2
    <2> QED BY <1>5, <2>1 DEF Wa!account_request, Wa!Request
  <1>6. CASE r = Wa!login_request(i, net, "challenge", TRUE)
    <2> DEFINE f == Wa!Only("auth", "challenge")
               g == Wa!Only("oneTimeAccounts", "challenge")
               h == Wa!When(TRUE, "oneTimePersonaData", Wa!NoChallenge)
    <2>1. /\ r.networkId = net /\ r.discriminator = "authorizedRequest"
          /\ r.asks = Wa!Parts(f, Wa!Parts(g, h))
      BY <1>6 DEF Wa!login_request, Wa!Request
    <2>2. DOMAIN f = {"auth"} /\ DOMAIN g = {"oneTimeAccounts"} /\ DOMAIN h = {"oneTimePersonaData"}
      BY <1>2, <1>3
    <2> HIDE DEF f, g, h
    <2>3. DOMAIN r.asks = DOMAIN f \cup (DOMAIN g \cup DOMAIN h)
      BY <2>1 DEF Wa!Parts
    <2> QED BY <2>1, <2>2, <2>3
  <1>7. CASE r = Wa!ownership_request(i, net, "challenge")
    <2> DEFINE f == Wa!Only("auth", Wa!NoChallenge)
               g == Wa!Only("proofOfOwnership", "challenge")
    <2>1. /\ r.networkId = net /\ r.discriminator = "authorizedRequest"
          /\ r.asks = Wa!Parts(f, g)
      BY <1>7 DEF Wa!ownership_request, Wa!authorized_request, Wa!Request
    <2>2. DOMAIN f = {"auth"} /\ DOMAIN g = {"proofOfOwnership"}
      BY <1>2
    <2> HIDE DEF f, g
    <2>3. DOMAIN r.asks = DOMAIN f \cup DOMAIN g
      BY <2>1 DEF Wa!Parts
    <2> QED BY <2>1, <2>2, <2>3
  <1>8. CASE r = Wa!Request(i, net, "other", Wa!Nothing)
    BY <1>8 DEF Wa!Request
  <1>9. ASSUME NEW m, r = Wa!transaction_request(i, net, m)
        PROVE  r.networkId = net /\ r.discriminator = "transaction" /\ DOMAIN r.asks = {"send"}
    BY <1>2, <1>9 DEF Wa!transaction_request, Wa!Request
  <1>10. ASSUME NEW t, r = Wa!pre_authorization_request(i, net, t)
         PROVE  r.networkId = net /\ r.discriminator = "preAuthorizationRequest"
                /\ DOMAIN r.asks = {"request"}
    BY <1>2, <1>10 DEF Wa!pre_authorization_request, Wa!Request
  <1>11. \/ \E c : r = Wa!account_proof_request(i, net, c, FALSE)
         \/ r = Wa!account_request(i, net) \/ r = Wa!login_request(i, net, "challenge", TRUE)
         \/ r = Wa!ownership_request(i, net, "challenge")
         \/ r = Wa!Request(i, net, "other", Wa!Nothing)
         \/ \E m : r = Wa!transaction_request(i, net, m)
         \/ \E t : r = Wa!pre_authorization_request(i, net, t)
    BY <1>1 DEF Wa!Sendable
  <1> QED
    BY <1>11, <1>4, <1>5, <1>6, <1>7, <1>8, <1>9, <1>10

\* What the approver is asked of is of the wallet's network, and limited.
LEMMA ClearedIs ==
  ASSUME NEW r \in AnyRequest, Wa!Refusal(r) = "none"
  PROVE  /\ r.networkId = Wa!WalletNetwork
         /\ Wa!Asks(r, "oneTimeAccounts") =>
              r.asks["oneTimeAccounts"] \notin {Wa!NoChallenge, "short"}
         /\ Wa!Asks(r, "request") => r.asks["request"] > 0
  <1>1. r.networkId = Wa!WalletNetwork
    <2>1. Wa!NetworkId(r.networkId) = Wa!WalletNetwork
      BY DEF Wa!Refusal
    <2>2. r.networkId \in Wa!Networks
      BY SendableIs
    <2> QED BY <2>1, <2>2 DEF Wa!NetworkId, Wa!WalletNetwork, Wa!Networks
  <1>2. CASE r.discriminator \in {"unauthorizedRequest", "authorizedRequest"}
    BY <1>1, <1>2, SendableIs DEF Wa!Refusal, Wa!Asks, Wa!parse_account_proof_request
  <1>3. CASE r.discriminator = "transaction"
    BY <1>1, <1>3, SendableIs DEF Wa!Refusal, Wa!Asks
  <1>4. CASE r.discriminator = "preAuthorizationRequest"
    BY <1>1, <1>4, SendableIs DEF Wa!Refusal, Wa!Asks
  <1>5. CASE r.discriminator \notin {"unauthorizedRequest", "authorizedRequest", "transaction",
                                     "preAuthorizationRequest"}
    BY <1>5 DEF Wa!Refusal
  <1> QED BY <1>2, <1>3, <1>4, <1>5

\* How many of the requests the wallet took.
Taken == Len(request) - Len(toWallet)

WalletTypes ==
    /\ request \in Seq(AnyRequest) /\ Len(request) <= Asked
    /\ toWallet \in Seq(Nat) /\ Len(toWallet) <= Len(request)
    /\ wallet \in [at : 0..Asked, pc : {"idle", "asks", "prepares", "submits", "polls"},
                   polls : Nat]
    /\ DOMAIN answered = 1..Asked
    /\ signed \subseteq 1..Taken
    /\ ledger \in [1..Asked -> {"absent", "pending", "success", "failure", "rejected"}]

\* Requests come to the wallet in order, each once.
InOrder == \A k \in 1..Len(toWallet) : toWallet[k] = Taken + k

\* Of a request the wallet did not take there is nothing.
Untouched ==
    \A i \in 1..Asked : i > Taken => ledger[i] = "absent" /\ answered[i] = Wa!NoAnswer

\* The one it is at was cleared, is the last it took, and has no answer yet.
AtWork ==
    /\ wallet.pc = "idle" => wallet = Wa!Idle
    /\ wallet.pc # "idle" =>
         /\ wallet.at = Taken /\ Taken >= 1
         /\ answered[wallet.at] = Wa!NoAnswer
         /\ Wa!Refusal(request[wallet.at]) = "none"
         /\ wallet.pc # "polls" => ledger[wallet.at] = "absent"
         /\ wallet.pc # "asks" => wallet.at \in approved

SignedAsAsked == \A i \in signed : i \in approved /\ Wa!Refusal(request[i]) = "none"

\* What the wallet's answer to a transaction says of it.
TellsTheLedger(i) ==
    LET a == answered[i] IN
    /\ a.discriminator = "success" => ledger[i] = "success"
    /\ a.error = "submittedTransactionHasFailedTransactionStatus" => ledger[i] = "failure"
    /\ a.error = "submittedTransactionHasRejectedTransactionStatus" => ledger[i] = "rejected"
    /\ a.error \in {"wrongNetwork", "invalidRequest", "rejectedByUser",
                     "failedToPrepareTransaction"} => ledger[i] = "absent"

Tells == \A i \in 1..Len(request) : request[i].discriminator = "transaction" => TellsTheLedger(i)

WalletInv ==
    /\ WalletTypes /\ InOrder /\ Untouched /\ AtWork /\ SignedAsAsked
    /\ Tells

\* The wallet side begins within its invariant.
LEMMA WalletStarts == Wa!WalletSideInit => WalletInv
  <1> SUFFICES ASSUME Wa!WalletSideInit PROVE WalletInv
    OBVIOUS
  <1>1. Asked \in Nat
    BY PartsAssumption
  <1>2. Wa!Idle = [at |-> 0, pc |-> "idle", polls |-> 0]
    BY DEF Wa!Idle
  <1>3. WalletTypes
    BY <1>1, <1>2 DEF Wa!WalletSideInit, WalletTypes, Taken
  <1>4. Untouched
    BY DEF Wa!WalletSideInit, Untouched
  <1> QED
    BY <1>2, <1>3, <1>4 DEF Wa!WalletSideInit, WalletInv, InOrder, AtWork, SignedAsAsked, Tells

\* One more request is sent.
LEMMA AskKeeps ==
  ASSUME WalletInv, Wa!DappAsks
  PROVE  WalletInv'
  <1>1. Asked \in Nat
    BY PartsAssumption
  <1> DEFINE n == Len(request)
             m == Len(toWallet)
  <1>2. PICK r \in AnyRequest : request' = Append(request, r)
    <2>1. n + 1 \in 1..Asked
      BY <1>1 DEF Wa!DappAsks, WalletInv, WalletTypes
    <2>2. PICK net \in Wa!Networks :
            \E r \in Wa!Sendable(n + 1, net) : request' = Append(request, r)
      BY DEF Wa!DappAsks
    <2>3. Wa!Sendable(n + 1, net) \subseteq AnyRequest
      BY <2>1 DEF AnyRequest
    <2> QED BY <2>2, <2>3
  <1>3. /\ toWallet' = Append(toWallet, n + 1) /\ n + 1 <= Asked
        /\ UNCHANGED <<wallet, answered, approved, signed, ledger>>
    BY DEF Wa!DappAsks
  <1>4. n \in Nat /\ m \in Nat /\ m <= n
    BY DEF WalletInv, WalletTypes
  <1>5. /\ Len(request') = n + 1 /\ Len(toWallet') = m + 1
        /\ \A i \in 1..n : request'[i] = request[i]
        /\ \A k \in 1..m : toWallet'[k] = toWallet[k]
        /\ toWallet'[m + 1] = n + 1 /\ request'[n + 1] = r
    BY <1>2, <1>3, <1>4 DEF WalletInv, WalletTypes
  <1>6. Taken' = Taken /\ Taken = n - m /\ Taken \in 0..n
    BY <1>4, <1>5 DEF Taken
  <1>7. WalletTypes'
    BY <1>2, <1>3, <1>4, <1>5, <1>6 DEF WalletInv, WalletTypes
  <1>8. InOrder'
    <2> SUFFICES ASSUME NEW k \in 1..(m + 1) PROVE toWallet'[k] = Taken' + k
      BY <1>5 DEF InOrder
    <2>1. CASE k = m + 1
      BY <1>4, <1>5, <1>6, <2>1
    <2>2. CASE k \in 1..m
      BY <1>5, <1>6, <2>2 DEF WalletInv, InOrder
    <2> QED BY <1>4, <2>1, <2>2
  <1>9. Untouched'
    BY <1>3, <1>6 DEF WalletInv, Untouched
  <1>10. AtWork'
    <2>1. wallet.pc # "idle" => request'[wallet.at] = request[wallet.at]
      BY <1>5, <1>6 DEF WalletInv, AtWork
    <2> QED BY <1>3, <1>6, <2>1 DEF WalletInv, AtWork
  <1>11. SignedAsAsked'
    BY <1>3, <1>4, <1>5, <1>6 DEF WalletInv, WalletTypes, SignedAsAsked
  <1>12. Tells'
    <2>1. answered[n + 1] = Wa!NoAnswer
      BY <1>1, <1>3, <1>4, <1>6 DEF WalletInv, Untouched
    <2>2. Wa!NoAnswer.discriminator = "failure" /\ Wa!NoAnswer.error = "none"
      BY DEF Wa!NoAnswer, Wa!failure_response
    <2> SUFFICES ASSUME NEW i \in 1..Len(request)', request'[i].discriminator = "transaction"
                 PROVE  TellsTheLedger(i)'
      BY DEF Tells
    <2>3. CASE i = n + 1
      BY <1>3, <2>1, <2>2, <2>3 DEF TellsTheLedger
    <2>4. CASE i \in 1..n
      BY <1>3, <1>5, <2>4 DEF TellsTheLedger, WalletInv, Tells
    <2> QED BY <1>4, <1>5, <2>3, <2>4
  <1> QED BY <1>7, <1>8, <1>9, <1>10, <1>11, <1>12 DEF WalletInv

\* The dApp's other steps, and the wallet's that leave everything but the ledger.
LEMMA DappKeeps ==
  ASSUME WalletInv, UNCHANGED walletVars \/ Wa!DappDrops \/ Wa!DappReceives
  PROVE  WalletInv'
  <1>1. UNCHANGED <<request, toWallet, wallet, answered, approved, signed, ledger>>
    BY DEF walletVars, Wa!DappDrops, Wa!DappReceives
  <1> QED
    BY <1>1 DEF WalletInv, WalletTypes, InOrder, Untouched, AtWork, SignedAsAsked, Tells,
                TellsTheLedger, Taken

\* The ledger decides about what it was given, and that is no longer open.
LEMMA LedgerKeeps ==
  ASSUME WalletInv, Wa!LedgerDecides
  PROVE  WalletInv'
  <1>1. PICK i \in 1..Asked, status \in {"success", "failure", "rejected"} :
          ledger[i] = "pending" /\ ledger' = [ledger EXCEPT ![i] = status]
    BY DEF Wa!LedgerDecides
  <1>2. UNCHANGED <<request, toWallet, wallet, answered, approved, signed>>
    BY DEF Wa!LedgerDecides
  <1>3. \A j \in 1..Asked : ledger[j] # "pending" => ledger'[j] = ledger[j]
    BY <1>1 DEF WalletInv, WalletTypes
  <1>4. Taken' = Taken /\ ledger' \in [1..Asked -> {"absent", "pending", "success", "failure", "rejected"}]
    BY <1>1, <1>2 DEF WalletInv, WalletTypes, Taken
  <1>5. Asked \in Nat /\ Len(request) \in Nat /\ Len(request) <= Asked
    <2>1. Asked \in Nat
      BY PartsAssumption
    <2> QED BY <2>1 DEF WalletInv, WalletTypes
  <1>6. Tells'
    BY <1>2, <1>3, <1>5 DEF WalletInv, Tells, TellsTheLedger
  <1> QED
    BY <1>2, <1>3, <1>4, <1>6
    DEF WalletInv, WalletTypes, InOrder, Untouched, AtWork, SignedAsAsked

\* The wallet answers the request it is at, or the one it takes: truly.
LEMMA ReplyKeeps ==
  ASSUME WalletInv, NEW i \in 1..Asked, NEW a, Wa!Reply(i, a), i = Taken',
         UNCHANGED request,
         \/ UNCHANGED toWallet
         \/ toWallet # <<>> /\ toWallet' = Tail(toWallet),
         ledger' \in [1..Asked -> {"absent", "pending", "success", "failure", "rejected"}],
         \A j \in 1..Asked : j # i => ledger'[j] = ledger[j],
         approved \subseteq approved', signed \subseteq signed', signed' \subseteq signed \cup {i},
         i \in signed' => i \in approved' /\ Wa!Refusal(request[i]) = "none",
         request[i].discriminator = "transaction" =>
           /\ a.discriminator = "success" => ledger'[i] = "success"
           /\ a.error = "submittedTransactionHasFailedTransactionStatus" => ledger'[i] = "failure"
           /\ a.error = "submittedTransactionHasRejectedTransactionStatus" =>
                ledger'[i] = "rejected"
           /\ a.error \in {"wrongNetwork", "invalidRequest", "rejectedByUser",
                           "failedToPrepareTransaction"} => ledger'[i] = "absent"
  PROVE  WalletInv'
  <1>1. Asked \in Nat
    BY PartsAssumption
  <1>2. /\ DOMAIN answered' = 1..Asked /\ answered'[i] = a
        /\ \A j \in 1..Asked : j # i => answered'[j] = answered[j]
        /\ wallet' = Wa!Idle
    BY DEF Wa!Reply, WalletInv, WalletTypes
  <1>3. /\ toWallet' \in Seq(Nat) /\ Len(toWallet') <= Len(request)
        /\ Taken' \in {Taken, Taken + 1} /\ Taken \in Int
        /\ \A k \in 1..Len(toWallet') : toWallet'[k] = Taken' + k
    <2>1. CASE UNCHANGED toWallet
      BY <2>1 DEF WalletInv, WalletTypes, InOrder, Taken
    <2>2. CASE toWallet # <<>> /\ toWallet' = Tail(toWallet)
      BY <2>2 DEF WalletInv, WalletTypes, InOrder, Taken
    <2> QED BY <2>1, <2>2
  <1>4. WalletTypes'
    BY <1>1, <1>2, <1>3 DEF WalletInv, WalletTypes, Wa!Idle
  <1>5. InOrder'
    BY <1>3 DEF InOrder
  <1>6. Untouched'
    BY <1>2, <1>3 DEF WalletInv, Untouched
  <1>7. AtWork'
    BY <1>2 DEF AtWork, Wa!Idle
  <1>8. SignedAsAsked'
    BY DEF WalletInv, SignedAsAsked
  <1>9. Tells'
    BY <1>1, <1>2 DEF WalletInv, WalletTypes, Tells, TellsTheLedger
  <1> QED BY <1>4, <1>5, <1>6, <1>7, <1>8, <1>9 DEF WalletInv

\* Wallet::answer takes the next request.
LEMMA RespondKeeps ==
  ASSUME WalletInv, Wa!respond
  PROVE  WalletInv'
  <1> DEFINE i == Head(toWallet)
  <1>1. /\ wallet = Wa!Idle /\ toWallet # <<>> /\ toWallet' = Tail(toWallet)
        /\ UNCHANGED <<request, approved, signed, ledger>>
        /\ IF Wa!Refusal(request[i]) = "none"
             THEN /\ wallet' = [Wa!Idle EXCEPT !.at = i, !.pc = "asks"]
                  /\ UNCHANGED answered
             ELSE Wa!Fails(i, Wa!Refusal(request[i]))
    BY DEF Wa!respond
  <1>2. /\ i = Taken + 1 /\ Taken' = Taken + 1 /\ Taken \in 0..Len(request) /\ i \in 1..Len(request)
        /\ toWallet' \in Seq(Nat) /\ Len(toWallet') = Len(toWallet) - 1 /\ Len(toWallet) >= 1
        /\ \A k \in 1..Len(toWallet') : toWallet'[k] = toWallet[k + 1]
    <2>1. /\ Len(toWallet) \in Nat /\ Len(toWallet) >= 1 /\ Len(request) \in Nat
          /\ Len(toWallet) <= Len(request) /\ i = toWallet[1]
      BY <1>1 DEF WalletInv, WalletTypes
    <2>2. /\ toWallet' \in Seq(Nat) /\ Len(toWallet') = Len(toWallet) - 1
          /\ \A k \in 1..Len(toWallet') : toWallet'[k] = toWallet[k + 1]
      BY <1>1 DEF WalletInv, WalletTypes
    <2>3. i = Taken + 1
      BY <2>1 DEF WalletInv, InOrder
    <2> QED
      BY <1>1, <2>1, <2>2, <2>3 DEF Taken
  <1>3. i \in 1..Asked /\ Asked \in Nat
    <2>1. Asked \in Nat
      BY PartsAssumption
    <2> QED BY <1>2, <2>1 DEF WalletInv, WalletTypes
  <1>4. ledger[i] = "absent" /\ answered[i] = Wa!NoAnswer
    BY <1>2, <1>3 DEF WalletInv, Untouched
  <1> HIDE DEF i
  <1>5. CASE Wa!Refusal(request[i]) # "none"
    <2>1. Wa!Refusal(request[i]) \in {"wrongNetwork", "invalidRequest"}
      BY <1>5 DEF Wa!Refusal
    <2> DEFINE a == Wa!failure_response(i, Wa!Refusal(request[i]))
    <2>2. a.discriminator = "failure" /\ a.error \in {"wrongNetwork", "invalidRequest"}
      BY <2>1 DEF Wa!failure_response
    <2>3. Wa!Reply(i, a)
      BY <1>1, <1>5 DEF Wa!Fails
    <2>4. i \notin signed'
      BY <1>1, <1>2 DEF WalletInv, WalletTypes
    <2>5. ledger' \in [1..Asked -> {"absent", "pending", "success", "failure", "rejected"}]
      BY <1>1 DEF WalletInv, WalletTypes
    <2> HIDE DEF a
    <2> QED
      BY <1>1, <1>2, <1>3, <1>4, <2>2, <2>3, <2>4, <2>5, ReplyKeeps
  <1>6. CASE Wa!Refusal(request[i]) = "none"
    <2>1. wallet' = [at |-> i, pc |-> "asks", polls |-> 0] /\ UNCHANGED answered
      BY <1>1, <1>6 DEF Wa!Idle
    <2>2. WalletTypes'
      BY <1>1, <1>2, <1>3, <2>1 DEF WalletInv, WalletTypes
    <2>3. InOrder'
      BY <1>2 DEF WalletInv, InOrder
    <2>4. Untouched' /\ AtWork' /\ SignedAsAsked' /\ Tells'
      BY <1>1, <1>2, <1>4, <1>6, <2>1
      DEF WalletInv, Untouched, AtWork, SignedAsAsked, Tells, TellsTheLedger
    <2> QED BY <2>2, <2>3, <2>4 DEF WalletInv
  <1> QED BY <1>5, <1>6

\* The wallet goes on with the request it is at.
LEMMA WorkKeeps ==
  ASSUME WalletInv, wallet.pc # "idle", UNCHANGED <<request, toWallet, answered>>,
         wallet' \in [at : 0..Asked, pc : {"prepares", "submits", "polls"}, polls : Nat],
         wallet'.at = wallet.at, approved \subseteq approved', wallet.at \in approved',
         signed \subseteq signed', signed' \subseteq signed \cup {wallet.at},
         ledger' \in [1..Asked -> {"absent", "pending", "success", "failure", "rejected"}],
         \A j \in 1..Asked : j # wallet.at => ledger'[j] = ledger[j],
         wallet'.pc # "polls" => ledger'[wallet.at] = "absent"
  PROVE  WalletInv'
  <1>1. Taken' = Taken /\ wallet.at = Taken /\ Taken >= 1 /\ Taken \in Int
    BY DEF WalletInv, WalletTypes, AtWork, Taken
  <1>2. WalletTypes'
    BY <1>1 DEF WalletInv, WalletTypes
  <1>3. InOrder' /\ Untouched'
    BY <1>1 DEF WalletInv, InOrder, Untouched
  <1>4. AtWork' /\ SignedAsAsked'
    BY <1>1 DEF WalletInv, AtWork, SignedAsAsked
  <1>5. Tells'
    <2>1. Asked \in Nat
      BY PartsAssumption
    <2>2. TellsTheLedger(wallet.at)'
      <3>1. answered'[wallet.at] = Wa!NoAnswer
        BY DEF WalletInv, AtWork
      <3>2. Wa!NoAnswer.discriminator = "failure" /\ Wa!NoAnswer.error = "none"
        BY DEF Wa!NoAnswer, Wa!failure_response
      <3> QED BY <3>1, <3>2 DEF TellsTheLedger
    <2> QED
      BY <2>1, <2>2 DEF WalletInv, WalletTypes, Tells, TellsTheLedger
  <1> QED BY <1>2, <1>3, <1>4, <1>5 DEF WalletInv

\* The approver's decision, the preparation, the submission and the polls.
LEMMA AnsweringKeeps ==
  ASSUME WalletInv, Wa!Decided \/ Wa!Prepared \/ Wa!Submitted \/ Wa!Polled
  PROVE  WalletInv'
  <1> DEFINE i == wallet.at
             r == request[i]
  <1>1. /\ i = Taken /\ i \in 1..Asked /\ i \in 1..Len(request)
        /\ Wa!Refusal(r) = "none"
        /\ wallet.pc # "polls" => ledger[i] = "absent"
        /\ wallet.pc # "asks" => i \in approved
        /\ wallet.pc # "idle"
    <2>1. wallet.pc # "idle"
      BY DEF Wa!Decided, Wa!Prepared, Wa!Submitted, Wa!Polled
    <2>2. Asked \in Nat
      BY PartsAssumption
    <2> QED BY <2>1, <2>2 DEF WalletInv, WalletTypes, AtWork, Taken
  <1>2. UNCHANGED <<request, toWallet>> /\ Taken' = Taken
    BY DEF Wa!Decided, Wa!Prepared, Wa!Submitted, Wa!Polled, Taken
  <1>3. r \in AnyRequest
    BY <1>1 DEF WalletInv, WalletTypes
  <1>4. r.discriminator = "transaction" => ~Wa!Asks(r, "oneTimeAccounts") /\ ~Wa!Asks(r, "request")
    BY <1>3, SendableIs DEF Wa!Asks
  <1>5. /\ wallet \in [at : 0..Asked, pc : {"idle", "asks", "prepares", "submits", "polls"},
                       polls : Nat]
        /\ ledger \in [1..Asked -> {"absent", "pending", "success", "failure", "rejected"}]
    BY DEF WalletInv, WalletTypes
  <1>6. \A error : /\ Wa!failure_response(i, error).discriminator = "failure"
                   /\ Wa!failure_response(i, error).error = error
    BY DEF Wa!failure_response
  <1>7. \A field, content : /\ Wa!Success(i, field, content).discriminator = "success"
                           /\ Wa!Success(i, field, content).error = "none"
    BY DEF Wa!Success
  <1> HIDE DEF i, r
  <1>8. ASSUME NEW error, Wa!Fails(i, error), UNCHANGED <<approved, signed>>,
               ledger' \in [1..Asked -> {"absent", "pending", "success", "failure", "rejected"}],
               \A j \in 1..Asked : j # i => ledger'[j] = ledger[j],
               \/ error \in {"rejectedByUser", "failedToPrepareTransaction"} /\ ledger'[i] = "absent"
               \/ error \in {"failedToSignTransaction", "failedToSubmitTransaction"}
        PROVE  WalletInv'
    <2> DEFINE a == Wa!failure_response(i, error)
    <2>1. a.discriminator = "failure" /\ a.error = error /\ Wa!Reply(i, a)
      BY <1>6, <1>8 DEF Wa!Fails
    <2>2. i \in signed' => i \in approved' /\ Wa!Refusal(request[i]) = "none"
      BY <1>8 DEF WalletInv, SignedAsAsked
    <2> HIDE DEF a
    <2> QED
      BY <1>1, <1>2, <1>8, <2>1, <2>2, ReplyKeeps
  <1>9. ASSUME NEW a, Wa!Reply(i, a), a.discriminator = "success", a.error = "none",
               Wa!Asks(r, "oneTimeAccounts") \/ Wa!Asks(r, "request"), UNCHANGED ledger,
               approved \subseteq approved', i \in approved', signed' = signed \cup {i}
        PROVE  WalletInv'
    BY <1>1, <1>2, <1>4, <1>5, <1>9, ReplyKeeps DEF r
  <1>10. CASE Wa!Decided
    <2>1. UNCHANGED ledger /\ wallet.pc = "asks"
      BY <1>10 DEF Wa!Decided
    <2>2. CASE Wa!Fails(i, "rejectedByUser") /\ UNCHANGED <<approved, signed>>
      BY <1>1, <1>5, <1>8, <2>1, <2>2
    <2>3. CASE /\ approved' = approved \cup {i} /\ Wa!Asks(r, "oneTimeAccounts")
               /\ signed' = signed \cup {i}
               /\ Wa!Reply(i, Wa!account_proof_response(i, r.asks["oneTimeAccounts"]))
      BY <1>7, <1>9, <2>1, <2>3 DEF Wa!account_proof_response
    <2>4. CASE /\ approved' = approved \cup {i}
               /\ wallet' = [wallet EXCEPT !.pc = "prepares"] /\ UNCHANGED <<signed, answered>>
      BY <1>1, <1>2, <1>5, <2>1, <2>4, WorkKeeps DEF i
    <2> QED BY <1>10, <2>2, <2>3, <2>4 DEF Wa!Decided, i, r
  <1>11. CASE Wa!Prepared
    <2>1. UNCHANGED <<ledger, approved>> /\ wallet.pc = "prepares"
      BY <1>11 DEF Wa!Prepared
    <2>2. CASE \/ Wa!Fails(i, "failedToPrepareTransaction") /\ UNCHANGED signed
               \/ Wa!Fails(i, "failedToSignTransaction") /\ UNCHANGED signed
      BY <1>1, <1>5, <1>8, <2>1, <2>2
    <2>3. CASE /\ signed' = signed \cup {i} /\ Wa!Asks(r, "request")
               /\ Wa!Reply(i, Wa!pre_authorization_response(i, i))
      BY <1>1, <1>7, <1>9, <2>1, <2>3 DEF Wa!pre_authorization_response
    <2>4. CASE /\ signed' = signed \cup {i} /\ UNCHANGED answered
               /\ wallet' = [wallet EXCEPT !.pc = "submits"]
      BY <1>1, <1>2, <1>5, <2>1, <2>4, WorkKeeps DEF i
    <2> QED BY <1>11, <2>2, <2>3, <2>4 DEF Wa!Prepared, i, r
  <1>12. CASE Wa!Submitted
    <2>1. UNCHANGED <<approved, signed>> /\ wallet.pc = "submits"
      BY <1>12 DEF Wa!Submitted
    <2>2. ledger' = ledger \/ ledger' = [ledger EXCEPT ![i] = "pending"]
      BY <1>12 DEF Wa!Submitted, i
    <2>3. ledger' \in [1..Asked -> {"absent", "pending", "success", "failure", "rejected"}]
          /\ \A j \in 1..Asked : j # i => ledger'[j] = ledger[j]
      BY <1>1, <1>5, <2>2
    <2>4. CASE Wa!Fails(i, "failedToSubmitTransaction")
      BY <1>8, <2>1, <2>3, <2>4
    <2>5. CASE wallet' = [wallet EXCEPT !.pc = "polls"] /\ UNCHANGED answered
      BY <1>1, <1>2, <1>5, <2>1, <2>3, <2>5, WorkKeeps DEF i
    <2> QED BY <1>12, <2>4, <2>5 DEF Wa!Submitted, i
  <1>13. CASE Wa!Polled
    <2>1. UNCHANGED <<approved, signed, ledger>> /\ wallet.pc = "polls"
      BY <1>13 DEF Wa!Polled
    <2>2. ASSUME NEW status \in {ledger[i], "pending", "error"},
                 Wa!Reply(i, Wa!submission_outcome(i, status))
          PROVE  WalletInv'
      <3> DEFINE a == Wa!submission_outcome(i, status)
      <3>1. /\ a.discriminator = "success" => ledger[i] = "success"
            /\ a.error = "submittedTransactionHasFailedTransactionStatus" => ledger[i] = "failure"
            /\ a.error = "submittedTransactionHasRejectedTransactionStatus" =>
                 ledger[i] = "rejected"
            /\ a.error \notin {"wrongNetwork", "invalidRequest", "rejectedByUser",
                               "failedToPrepareTransaction"}
        BY <1>6, <1>7 DEF Wa!submission_outcome, Wa!transaction_response
      <3>2. i \in signed => i \in approved /\ Wa!Refusal(request[i]) = "none"
        BY DEF WalletInv, SignedAsAsked
      <3>3. Wa!Reply(i, a)
        BY <2>2
      <3> HIDE DEF a
      <3> QED
        BY <1>1, <1>2, <1>5, <2>1, <3>1, <3>2, <3>3, ReplyKeeps
    <2>3. CASE wallet' = [wallet EXCEPT !.polls = @ + 1] /\ UNCHANGED answered
      BY <1>1, <1>2, <1>5, <2>1, <2>3, WorkKeeps DEF i
    <2> QED BY <1>13, <2>2, <2>3 DEF Wa!Polled, i
  <1> QED BY <1>10, <1>11, <1>12, <1>13

\* No step of the dApp, of the wallet or of the Gateway leaves it, ...
LEMMA WalletStep ==
  ASSUME WalletInv, [Wa!WalletSideNext]_walletVars
  PROVE  WalletInv'
  BY AskKeeps, DappKeeps, LedgerKeeps, RespondKeeps, AnsweringKeeps DEF Wa!WalletSideNext

\* ... so it holds throughout.
LEMMA WalletInvariance == Spec => []WalletInv
  <1>1. WalletInv /\ [Wa!WalletSideNext]_walletVars => WalletInv'
    BY WalletStep
  <1> QED
    BY <1>1, WalletStarts, WalletIsAPart, PTL

\* protocol.rs, submission_outcome and respond: a success is only told of a
\* transaction that committed as one, a failure of one that failed, and every
\* refusal that says nothing was sent of one that never reached the ledger.
THEOREM AnswersAreTrue == Spec => []AnswerIsTrueOfTheLedger
  <1>1. WalletInv => AnswerIsTrueOfTheLedger
    BY DEF WalletInv, Tells, TellsTheLedger, AnswerIsTrueOfTheLedger, Wa!AnswerIsTrueOfTheLedger
  <1> QED
    BY <1>1, WalletInvariance, PTL

\* protocol.rs, Wallet::answer: what is signed was approved, is of the wallet's
\* network and is limited, whatever a peer sends and however often.
THEOREM SignedWasAsked == Spec => []OnlyWhatWasAskedIsSigned
  <1>1. WalletInv => OnlyWhatWasAskedIsSigned
    <2> SUFFICES ASSUME WalletInv, NEW i \in signed
                 PROVE  /\ i \in approved
                        /\ request[i].networkId = Wa!WalletNetwork
                        /\ Wa!Asks(request[i], "oneTimeAccounts") =>
                             request[i].asks["oneTimeAccounts"] \notin {Wa!NoChallenge, "short"}
                        /\ Wa!Asks(request[i], "request") => request[i].asks["request"] > 0
      BY DEF OnlyWhatWasAskedIsSigned, Wa!OnlyWhatWasAskedIsSigned
    <2>1. i \in 1..Len(request) /\ request \in Seq(AnyRequest)
      BY DEF WalletInv, WalletTypes, Taken
    <2>2. request[i] \in AnyRequest
      BY <2>1
    <2> QED BY <2>2, ClearedIs DEF WalletInv, SignedAsAsked
  <1> QED
    BY <1>1, WalletInvariance, PTL
-----------------------------------------------------------------------------
(* Channel: what a send returns, and what the receiver's caller has        *)

Streams == [kind : Ch!Kinds, written : 0..3, end : {"open", "finished", "reset"},
            stop : {"none", "abandoned", "tooLarge", "malformed"},
            answer : {"none", "taken", "tooLarge", "malformed", "reset"},
            arrived : BOOLEAN]

Returns == {"none", "ok", "lost", "refused", "timeout"}

ChannelTypes ==
    /\ stream \in [1..Messages -> Streams]
    /\ sent \in [1..Messages -> Returns]
    /\ inbound \in [at : 0..Messages, read : 0..3,
                    verdict : {"none", "taken", "tooLarge", "malformed"}]
    /\ opened \in 0..Messages /\ sending \in {0, opened}
    /\ next \in 1..(opened + 1) /\ last \in 0..(next - 1)
    /\ inbound.at \in {0, next - 1}
    /\ handed \in Seq(1..Messages)
    /\ conn \in {"open", "closing", "closed", "lost"} /\ hurried \in BOOLEAN

Handed == {handed[k] : k \in 1..Len(handed)}

\* Messages are handed over in the order of sending, before the one being read.
HandedInOrder ==
    /\ \A j, k \in 1..Len(handed) : j < k => handed[j] < handed[k]
    /\ \A i \in Handed : i <= last /\ i < next /\ i # inbound.at

\* The receiver refused it, or dropped it, for good.
Refused(i) ==
    \/ stream[i].answer \in {"tooLarge", "malformed", "reset"}
    \/ inbound.at = i /\ inbound.verdict \in {"tooLarge", "malformed"}

\* What the two ends know of a stream.
StreamInv(i) ==
    /\ i > opened => /\ stream[i].written = 0 /\ stream[i].end = "open"
                     /\ sent[i] = "none"
    /\ i >= next \/ i = inbound.at => stream[i].answer = "none"
    /\ i >= next => stream[i].stop = "none"
    /\ i = sending => sent[i] = "none"
    /\ stream[i].end = "finished" => stream[i].written = Ch!Pieces(i)
    /\ stream[i].arrived => stream[i].answer # "none"
    /\ stream[i].answer = "taken" <=> i \in Handed
    /\ i \in Handed => stream[i].kind = "fits" /\ stream[i].end = "finished"
    /\ stream[i].stop # "none" => Refused(i)

\* What a send returned.
SentInv(i) ==
    /\ sent[i] = "ok" => stream[i].answer = "taken"
    /\ sent[i] = "refused" => Refused(i)
    /\ sent[i] = "lost" => \/ Refused(i) \/ conn = "lost" \/ hurried
                           \/ conn = "closed" /\ i \notin Handed

\* What is being read, and how it was decided.
InboundInv ==
    LET i == inbound.at IN
    /\ i = 0 => inbound.verdict = "none" /\ inbound.read = 0
    /\ i # 0 /\ inbound.verdict = "none" /\ inbound.read >= 1 => stream[i].kind # "large"
    /\ i # 0 /\ inbound.verdict = "taken" =>
         stream[i].kind = "fits" /\ stream[i].end = "finished"

ChannelInv ==
    /\ ChannelTypes /\ HandedInOrder /\ InboundInv
    /\ \A i \in 1..Messages : StreamInv(i) /\ SentInv(i)
    /\ conn = "closed" /\ ~hurried /\ last # 0 => stream[last].arrived

\* A behaviour of the parts is one of the channel.
LEMMA ChannelIsAPart == Spec => Ch!ChannelInit /\ [][Ch!ChannelNext]_channelVars
  <1>1. Init => Ch!ChannelInit
    BY DEF Init
  <1>2. [Next]_vars => [Ch!ChannelNext]_channelVars
    BY DEF Next, vars
  <1> QED BY <1>1, <1>2, PTL DEF Spec

\* The channel begins within its invariant.
LEMMA ChannelStarts == Ch!ChannelInit => ChannelInv
  <1> SUFFICES ASSUME Ch!ChannelInit PROVE ChannelInv
    OBVIOUS
  <1>1. Messages \in Nat
    BY PartsAssumption
  <1>2. ChannelTypes
    <2>1. stream \in [1..Messages -> Streams]
      BY DEF Ch!ChannelInit, Streams, Ch!Kinds
    <2>2. sent \in [1..Messages -> Returns]
      BY DEF Ch!ChannelInit, Returns
    <2>3. /\ inbound \in [at : 0..Messages, read : 0..3,
                          verdict : {"none", "taken", "tooLarge", "malformed"}]
          /\ inbound.at = 0
      BY <1>1 DEF Ch!ChannelInit, Ch!Nothing
    <2>4. handed \in Seq(1..Messages) /\ next \in 1..(opened + 1)
      BY <1>1 DEF Ch!ChannelInit
    <2>5. opened = 0 /\ sending = 0 /\ next = 1 /\ last = 0 /\ conn = "open" /\ hurried = FALSE
      BY DEF Ch!ChannelInit
    <2>6. /\ opened \in 0..Messages /\ sending \in {0, opened} /\ last \in 0..(next - 1)
          /\ inbound.at \in {0, next - 1}
      BY <1>1, <2>3, <2>5
    <2> QED BY <2>1, <2>2, <2>3, <2>4, <2>5, <2>6 DEF ChannelTypes
  <1>3. Handed = {} /\ HandedInOrder
    BY DEF Ch!ChannelInit, Handed, HandedInOrder
  <1>4. InboundInv
    BY DEF Ch!ChannelInit, InboundInv, Ch!Nothing
  <1>5. ASSUME NEW i \in 1..Messages PROVE StreamInv(i) /\ SentInv(i)
    BY <1>1, <1>3 DEF Ch!ChannelInit, StreamInv, SentInv, Ch!Nothing, Refused
  <1> QED BY <1>2, <1>3, <1>4, <1>5 DEF ChannelInv, Ch!ChannelInit

\* What was handed over are messages of this channel.
LEMMA ItemOf ==
  ASSUME NEW S, NEW s \in Seq(S), NEW k \in 1..Len(s)
  PROVE  s[k] \in S
  OBVIOUS

\* What was handed over are messages.
LEMMA HandedAre ==
  ASSUME ChannelTypes
  PROVE  /\ Handed \subseteq 1..Messages
         /\ \A k \in 1..Len(handed) : handed[k] \in 1..Messages /\ handed[k] \in Handed
  <1>1. ASSUME NEW k \in 1..Len(handed) PROVE handed[k] \in 1..Messages
    BY ItemOf DEF ChannelTypes
  <1> QED BY <1>1 DEF Handed

\* The receiver's caller and what it was handed stay as they are.
LEMMA HandedStays ==
  ASSUME ChannelInv, UNCHANGED <<handed, last, next>>,
         \A i \in Handed : i # inbound'.at
  PROVE  Handed' = Handed /\ HandedInOrder'
  <1>1. Handed' = Handed
    BY DEF Handed
  <1> QED BY <1>1 DEF ChannelInv, HandedInOrder

\* send_message: what the sender does to its stream, and what it returns.
LEMMA SenderKeeps ==
  ASSUME ChannelInv, Ch!Write \/ Ch!Finish \/ Ch!SendEnds \/ Ch!SendAnswered
                     \/ Ch!SendLosesConnection,
         NEW i, i = sending
  PROVE  ChannelInv'
  <1>1. /\ Messages \in Nat /\ ChannelTypes /\ i \in 1..Messages /\ i = opened
        /\ UNCHANGED <<opened, inbound, next, handed, last, conn, hurried>>
        /\ sending' \in {0, i}
    <2>1. sending # 0 /\ sending' \in {0, sending}
          /\ UNCHANGED <<opened, inbound, next, handed, last, conn, hurried>>
      <3>1. CASE Ch!Write
        BY <3>1 DEF Ch!Write, Ch!Return
      <3>2. CASE Ch!Finish
        BY <3>2 DEF Ch!Finish
      <3>3. CASE Ch!SendEnds
        BY <3>3 DEF Ch!SendEnds, Ch!Return
      <3>4. CASE Ch!SendAnswered
        BY <3>4 DEF Ch!SendAnswered, Ch!Return
      <3>5. CASE Ch!SendLosesConnection
        BY <3>5 DEF Ch!SendLosesConnection, Ch!Return
      <3> QED BY <3>1, <3>2, <3>3, <3>4, <3>5
    <2>2. Messages \in Nat
      BY PartsAssumption
    <2>3. ChannelTypes
      BY DEF ChannelInv
    <2>4. i \in 1..Messages /\ i = opened
      BY <2>1, <2>2, <2>3 DEF ChannelTypes
    <2> QED BY <2>1, <2>2, <2>3, <2>4
  <1>2. Handed' = Handed /\ HandedInOrder'
    BY <1>1, HandedStays DEF ChannelInv, HandedInOrder
  <1>3. StreamInv(i) /\ SentInv(i) /\ sent[i] = "none"
    BY <1>1 DEF ChannelInv, StreamInv
  <1>4. \E r \in {"none", "ok", "lost", "refused", "timeout"} :
          /\ sent' = [sent EXCEPT ![i] = r]
          /\ r = "none" \/ sending' = 0
          /\ r = "ok" => stream[i].answer = "taken"
          /\ r = "refused" => Refused(i)
          /\ r = "lost" => \/ Refused(i) \/ conn = "lost" \/ hurried
                           \/ conn = "closed" /\ i \notin Handed
    <2>1. CASE Ch!Write
      <3>1. CASE UNCHANGED sent
        BY <1>1, <1>3, <3>1 DEF ChannelTypes
      <3>2. CASE stream[i].stop # "none" /\ Ch!Return(i, IF stream[i].stop = "abandoned" THEN "lost" ELSE "refused")
        BY <1>3, <3>2 DEF Ch!Return, StreamInv
      <3> QED BY <2>1, <3>1, <3>2 DEF Ch!Write
    <2>2. CASE Ch!Finish
      BY <1>1, <1>3, <2>2 DEF Ch!Finish, ChannelTypes
    <2>3. CASE Ch!SendEnds
      BY <2>3 DEF Ch!SendEnds, Ch!Return
    <2>4. CASE Ch!SendAnswered
      <3>1. stream[i].answer \in {"taken", "tooLarge", "malformed", "reset"}
        BY <1>1, <1>3, <2>4 DEF Ch!SendAnswered, StreamInv, ChannelTypes, Streams
      <3>2. \E r \in {"ok", "lost", "refused"} :
               /\ Ch!Return(i, r)
               /\ r = "ok" => stream[i].answer = "taken"
               /\ r # "ok" => stream[i].answer \in {"tooLarge", "malformed", "reset"}
        BY <2>4, <3>1 DEF Ch!SendAnswered
      <3> QED BY <3>2 DEF Ch!Return, Refused
    <2>5. CASE Ch!SendLosesConnection
      <3>1. Ch!Return(i, "lost") /\ conn \in {"closed", "lost"}
            /\ (stream[i].end = "finished" => ~stream[i].arrived)
        BY <1>1, <2>5 DEF Ch!SendLosesConnection, Ch!Up, ChannelTypes
      <3>2. ASSUME conn = "closed", ~hurried, i \in Handed PROVE FALSE
        <4>1. i <= last /\ last \in 0..opened /\ stream[i].end = "finished"
          BY <1>1, <1>3, <3>2 DEF ChannelInv, HandedInOrder, StreamInv, ChannelTypes
        <4>2. i = last /\ last # 0
          BY <1>1, <4>1
        <4> QED BY <3>1, <3>2, <4>1, <4>2 DEF ChannelInv
      <3> QED BY <1>1, <3>1, <3>2 DEF Ch!Return, ChannelTypes
    <2> QED BY <2>1, <2>2, <2>3, <2>4, <2>5
  <1>5. /\ stream' \in [1..Messages -> Streams]
        /\ \A j \in 1..Messages : j # i => stream'[j] = stream[j]
        /\ stream'[i].kind = stream[i].kind /\ stream'[i].stop = stream[i].stop
        /\ stream'[i].answer = stream[i].answer /\ stream'[i].arrived = stream[i].arrived
        /\ stream'[i].end = "finished" => stream'[i].written = Ch!Pieces(i)
        /\ stream[i].end = "finished" => stream'[i].end = "finished"
    <2>1. /\ stream \in [1..Messages -> Streams] /\ stream[i] \in Streams
          /\ stream[i].written \in 0..3 /\ Ch!Pieces(i) \in 0..3
      BY <1>1 DEF ChannelTypes, Ch!Pieces, Ch!Kinds, Streams
    <2>2. CASE UNCHANGED stream
      BY <1>3, <2>1, <2>2 DEF StreamInv
    <2>3. CASE stream[i].end = "open" /\ stream[i].written < Ch!Pieces(i)
               /\ stream' = [stream EXCEPT ![i].written = @ + 1]
      BY <1>1, <2>1, <2>3 DEF Streams
    <2>4. CASE stream' = [stream EXCEPT ![i].end = "reset"] /\ stream[i].end = "open"
      BY <1>1, <2>1, <2>4 DEF Streams
    <2>5. CASE stream' = [stream EXCEPT ![i].end = "finished"]
               /\ stream[i].written = Ch!Pieces(i)
      BY <1>1, <2>1, <2>5 DEF Streams
    <2>6. CASE Ch!Abandon(i)
      BY <1>1, <1>3, <2>1, <2>6 DEF Streams, Ch!Abandon, StreamInv
    <2> QED
      BY <2>2, <2>3, <2>4, <2>5, <2>6 DEF Ch!Write, Ch!Finish, Ch!SendEnds,
         Ch!SendAnswered, Ch!SendLosesConnection
  <1>6. ChannelTypes' /\ InboundInv'
    <2>1. sent' \in [1..Messages -> Returns]
      BY <1>1, <1>4 DEF ChannelTypes, Returns
    <2>2. ChannelTypes'
      BY <1>1, <1>5, <2>1 DEF ChannelTypes
    <2>3. InboundInv'
      BY <1>1, <1>5 DEF ChannelInv, InboundInv, ChannelTypes
    <2> QED BY <2>2, <2>3
  <1>7. ASSUME NEW j \in 1..Messages PROVE StreamInv(j)' /\ SentInv(j)'
    <2>1. StreamInv(j) /\ SentInv(j)
      BY DEF ChannelInv
    <2>2. CASE j # i
      <3>1. stream'[j] = stream[j] /\ sent'[j] = sent[j] /\ (Ch!Pieces(j))' = Ch!Pieces(j)
        BY <1>1, <1>4, <1>5, <2>2 DEF ChannelTypes, Ch!Pieces
      <3> QED
        BY <1>1, <1>2, <2>1, <2>2, <3>1 DEF StreamInv, SentInv, Refused
    <2>3. CASE j = i
      <3>1. (Ch!Pieces(i))' = Ch!Pieces(i) /\ (Refused(i) <=> Refused(i)')
        BY <1>1, <1>5 DEF Ch!Pieces, Refused
      <3>2. StreamInv(i)'
        BY <1>1, <1>2, <1>3, <1>4, <1>5, <3>1 DEF StreamInv, ChannelTypes
      <3>3. SentInv(i)'
        BY <1>1, <1>2, <1>3, <1>4, <1>5, <3>1 DEF SentInv, ChannelTypes
      <3> QED BY <2>3, <3>2, <3>3
    <2> QED BY <2>2, <2>3
  <1>8. (conn = "closed" /\ ~hurried /\ last # 0 => stream[last].arrived)'
    BY <1>1, <1>5 DEF ChannelInv, ChannelTypes
  <1> QED BY <1>2, <1>6, <1>7, <1>8 DEF ChannelInv

\* send_message begins: a stream of its own, of a message of any kind.
LEMMA OpenKeeps ==
  ASSUME ChannelInv, NEW kind \in Ch!Kinds, Ch!Open(kind), NEW i, i = opened + 1
  PROVE  ChannelInv'
  <1>1. Messages \in Nat
    BY PartsAssumption
  <1>2. /\ ChannelTypes /\ i \in 1..Messages /\ opened' = i /\ sending' = i
        /\ stream' = [stream EXCEPT ![i].kind = kind]
        /\ UNCHANGED <<sent, inbound, next, handed, last, conn, hurried>>
    BY <1>1 DEF ChannelInv, ChannelTypes, Ch!Open
  <1>3. Handed' = Handed /\ HandedInOrder'
    BY <1>2, HandedStays DEF ChannelInv, HandedInOrder
  <1>4. i >= next /\ i # inbound.at /\ i \notin Handed
    BY <1>1, <1>2 DEF ChannelInv, HandedInOrder, ChannelTypes
  <1>5. /\ stream' \in [1..Messages -> Streams] /\ stream'[i] = [stream[i] EXCEPT !.kind = kind]
        /\ \A j \in 1..Messages : j # i => stream'[j] = stream[j]
    <2>1. stream \in [1..Messages -> Streams] /\ stream[i] \in Streams
      BY <1>2 DEF ChannelTypes
    <2>2. [stream[i] EXCEPT !.kind = kind] \in Streams
      BY <2>1 DEF Streams
    <2> QED BY <1>2, <2>1, <2>2
  <1>6. ChannelTypes' /\ InboundInv'
    <2>1. ChannelTypes'
      BY <1>1, <1>2, <1>5 DEF ChannelTypes
    <2>2. InboundInv'
      BY <1>1, <1>2, <1>4, <1>5 DEF ChannelInv, InboundInv, ChannelTypes
    <2> QED BY <2>1, <2>2
  <1>7. ASSUME NEW j \in 1..Messages PROVE StreamInv(j)' /\ SentInv(j)'
    <2>1. StreamInv(j) /\ SentInv(j)
      BY DEF ChannelInv
    <2>2. CASE j # i
      <3>1. stream'[j] = stream[j] /\ (Ch!Pieces(j))' = Ch!Pieces(j)
        BY <1>5, <2>2 DEF Ch!Pieces
      <3> QED
        BY <1>1, <1>2, <1>3, <2>1, <2>2, <3>1 DEF StreamInv, SentInv, Refused, ChannelTypes
    <2>3. CASE j = i
      <3>1. stream[i] \in Streams
        BY <1>2 DEF ChannelTypes
      <3>2. /\ stream'[i].written = stream[i].written /\ stream'[i].end = stream[i].end
            /\ stream'[i].stop = stream[i].stop /\ stream'[i].answer = stream[i].answer
            /\ stream'[i].arrived = stream[i].arrived
        BY <1>5, <3>1 DEF Streams
      <3>3. /\ stream[i].end = "open" /\ stream[i].stop = "none" /\ stream[i].answer = "none"
            /\ ~stream[i].arrived /\ sent[i] = "none" /\ stream[i].written = 0
        BY <1>1, <1>2, <1>4, <2>1, <2>3, <3>1 DEF StreamInv, ChannelTypes, Streams
      <3> QED
        BY <1>1, <1>2, <1>3, <1>4, <2>3, <3>2, <3>3 DEF StreamInv, SentInv, ChannelTypes
    <2> QED BY <2>2, <2>3
  <1>8. (conn = "closed" /\ ~hurried /\ last # 0 => stream[last].arrived)'
    BY <1>2 DEF Ch!Open, Ch!Up
  <1> QED BY <1>3, <1>6, <1>7, <1>8 DEF ChannelInv

\* The answer on a stream reaches the sender.
LEMMA AnswerArrivesKeeps ==
  ASSUME ChannelInv, Ch!AnswerArrives
  PROVE  ChannelInv'
  <1>1. /\ Messages \in Nat /\ ChannelTypes
        /\ UNCHANGED <<opened, sending, sent, inbound, next, handed, last, conn, hurried>>
    BY PartsAssumption DEF ChannelInv, Ch!AnswerArrives
  <1>2. PICK i \in 1..Messages : /\ stream[i].answer # "none"
                                 /\ stream' = [stream EXCEPT ![i].arrived = TRUE]
    <2>1. opened \in 0..Messages
      BY <1>1 DEF ChannelTypes
    <2>2. \A k \in 1..opened : k \in 1..Messages
      BY <1>1, <2>1
    <2> QED BY <2>2 DEF Ch!AnswerArrives
  <1>3. Handed' = Handed /\ HandedInOrder'
    BY <1>1, HandedStays DEF ChannelInv, HandedInOrder
  <1>4. /\ stream' \in [1..Messages -> Streams] /\ stream'[i].arrived
        /\ stream'[i].kind = stream[i].kind /\ stream'[i].written = stream[i].written
        /\ stream'[i].end = stream[i].end /\ stream'[i].stop = stream[i].stop
        /\ stream'[i].answer = stream[i].answer
        /\ \A j \in 1..Messages : j # i => stream'[j] = stream[j]
    <2>1. stream \in [1..Messages -> Streams] /\ stream[i] \in Streams
      BY <1>1 DEF ChannelTypes
    <2> QED BY <1>2, <2>1 DEF Streams
  <1>5. ChannelTypes' /\ InboundInv'
    <2>1. ChannelTypes'
      BY <1>1, <1>4 DEF ChannelTypes
    <2>2. InboundInv'
      BY <1>1, <1>4 DEF ChannelInv, InboundInv, ChannelTypes
    <2> QED BY <2>1, <2>2
  <1>6. ASSUME NEW j \in 1..Messages PROVE StreamInv(j)' /\ SentInv(j)'
    <2>1. StreamInv(j) /\ SentInv(j)
      BY DEF ChannelInv
    <2>2. /\ (Ch!Pieces(j))' = Ch!Pieces(j) /\ stream'[j].answer = stream[j].answer
          /\ stream'[j].stop = stream[j].stop /\ stream'[j].end = stream[j].end
          /\ stream'[j].written = stream[j].written /\ stream'[j].kind = stream[j].kind
          /\ stream'[j].arrived => stream[j].answer # "none"
      BY <1>2, <1>4, <2>1 DEF Ch!Pieces, StreamInv
    <2>3. Refused(j)' <=> Refused(j)
      BY <1>1, <2>2 DEF Refused
    <2> QED
      BY <1>1, <1>3, <2>1, <2>2, <2>3 DEF StreamInv, SentInv
  <1>7. (conn = "closed" /\ ~hurried /\ last # 0 => stream[last].arrived)'
    BY <1>1 DEF Ch!AnswerArrives, Ch!Up
  <1> QED BY <1>3, <1>5, <1>6, <1>7 DEF ChannelInv

\* recv_message begins: the next stream is accepted.
LEMMA AcceptKeeps ==
  ASSUME ChannelInv, Ch!Accept
  PROVE  ChannelInv'
  <1>1. /\ Messages \in Nat /\ ChannelTypes /\ inbound.at = 0 /\ next' = next + 1
        /\ inbound'.at = next /\ inbound'.read = 0 /\ inbound'.verdict = "none"
        /\ inbound' = [at |-> next, read |-> 0, verdict |-> "none"]
        /\ next <= opened /\ conn = "open"
        /\ UNCHANGED <<stream, opened, sending, sent, handed, last, conn, hurried>>
    BY PartsAssumption DEF ChannelInv, Ch!Accept, Ch!Nothing
  <1>2. Handed' = Handed
    BY <1>1 DEF Handed
  <1>3. ChannelTypes' /\ HandedInOrder'
    <2>1. ChannelTypes'
      BY <1>1 DEF ChannelTypes
    <2>2. \A k \in Handed : k <= last /\ k < next + 1 /\ k # next
      <3>1. next \in Nat /\ Handed \subseteq Nat
        BY <1>1, HandedAre DEF ChannelTypes
      <3>2. \A k \in Handed : k <= last /\ k < next
        BY DEF ChannelInv, HandedInOrder
      <3> QED BY <3>1, <3>2
    <2>3. HandedInOrder'
      BY <1>1, <1>2, <2>2 DEF ChannelInv, HandedInOrder
    <2> QED BY <2>1, <2>3
  <1>4. InboundInv'
    BY <1>1 DEF InboundInv, ChannelTypes
  <1>5. ASSUME NEW j \in 1..Messages PROVE StreamInv(j)' /\ SentInv(j)'
    <2>1. StreamInv(j) /\ SentInv(j) /\ (Ch!Pieces(j))' = Ch!Pieces(j)
      BY <1>1 DEF ChannelInv, Ch!Pieces
    <2>2. Refused(j)' <=> Refused(j)
      BY <1>1 DEF Refused
    <2> QED
      BY <1>1, <1>2, <2>1, <2>2 DEF StreamInv, SentInv, ChannelTypes
  <1> QED BY <1>1, <1>3, <1>4, <1>5 DEF ChannelInv

\* close, and the ways in which the connection goes.
LEMMA ConnectionKeeps ==
  ASSUME ChannelInv, Ch!Close \/ Ch!Closed \/ Ch!ClosedInAHurry \/ Ch!ConnectionLost
  PROVE  ChannelInv'
  <1>1. /\ UNCHANGED <<stream, opened, sending, sent, inbound, next, handed, last>>
        /\ conn \in {"open", "closing"} /\ conn' \in {"closing", "closed", "lost"}
        /\ hurried' = hurried \/ hurried' = TRUE
        /\ conn' = "closed" => hurried' = TRUE \/ Ch!LastArrived
    <2>1. CASE Ch!Close
      BY <2>1 DEF Ch!Close
    <2>2. CASE Ch!Closed
      BY <2>2 DEF Ch!Closed
    <2>3. CASE Ch!ClosedInAHurry
      BY <2>3 DEF Ch!ClosedInAHurry
    <2>4. CASE Ch!ConnectionLost
      BY <2>4 DEF Ch!ConnectionLost, Ch!Up
    <2> QED BY <2>1, <2>2, <2>3, <2>4
  <1>2. Handed' = Handed /\ HandedInOrder'
    BY <1>1, HandedStays DEF ChannelInv, HandedInOrder
  <1>3. ChannelTypes' /\ InboundInv'
    BY <1>1 DEF ChannelInv, ChannelTypes, InboundInv
  <1>4. ASSUME NEW j \in 1..Messages PROVE StreamInv(j)' /\ SentInv(j)'
    <2>1. StreamInv(j) /\ SentInv(j) /\ (Ch!Pieces(j))' = Ch!Pieces(j)
      BY <1>1 DEF ChannelInv, Ch!Pieces
    <2>2. Refused(j)' <=> Refused(j)
      BY <1>1 DEF Refused
    <2>3. StreamInv(j)'
      BY <1>1, <1>2, <2>1, <2>2 DEF StreamInv
    <2>4. SentInv(j)'
      BY <1>1, <1>2, <2>1, <2>2 DEF SentInv
    <2> QED BY <2>3, <2>4
  <1> QED BY <1>1, <1>2, <1>3, <1>4 DEF ChannelInv, Ch!LastArrived

\* What the receiver may do to the stream it reads, short of answering it.
ReceiverDoes(i) ==
    /\ UNCHANGED <<opened, sending, sent, next, handed, last, conn, hurried>>
    /\ stream' \in [1..Messages -> Streams]
    /\ \A j \in 1..Messages : j # i => stream'[j] = stream[j]
    /\ stream'[i].kind = stream[i].kind /\ stream'[i].written = stream[i].written
    /\ stream'[i].end = stream[i].end /\ stream'[i].arrived = stream[i].arrived
    /\ \/ inbound' = Ch!Nothing /\ stream'[i].answer = "reset"
       \/ /\ inbound'.at = i /\ stream'[i].answer = "none" /\ inbound.verdict = "none"
          /\ stream'[i].stop = "none" \/ inbound'.verdict \in {"tooLarge", "malformed"}
          /\ InboundInv'
          /\ inbound' \in [at : 0..Messages, read : 0..3,
                           verdict : {"none", "taken", "tooLarge", "malformed"}]

\* Each step of the receiver does one of these.
LEMMA ReceiverDoesSo ==
  ASSUME ChannelInv, NEW i, i = inbound.at, i # 0,
         Ch!ReadPiece \/ Ch!ReadEnd \/ Ch!ReadAbandoned \/ Ch!ReceiveTimesOut
  PROVE  i \in 1..Messages /\ ReceiverDoes(i)
  <1>1. Messages \in Nat
    BY PartsAssumption
  <1>2. ChannelTypes /\ i \in 1..Messages
    BY <1>1 DEF ChannelInv, ChannelTypes
  <1>3. /\ stream \in [1..Messages -> Streams] /\ stream[i] \in Streams
        /\ StreamInv(i) /\ stream[i].answer = "none"
        /\ UNCHANGED <<opened, sending, sent, next, handed, last, conn, hurried>>
    <2>1. /\ stream \in [1..Messages -> Streams] /\ stream[i] \in Streams
          /\ StreamInv(i)
      BY <1>2 DEF ChannelTypes, ChannelInv
    <2>2. stream[i].answer = "none"
      BY <1>2, <2>1 DEF StreamInv
    <2> QED
      BY <2>1, <2>2 DEF Ch!ReadPiece, Ch!ReadEnd, Ch!ReadAbandoned, Ch!ReceiveTimesOut
  <1>4. CASE Ch!ReadAbandoned
    <2>1. stream' = [stream EXCEPT ![i].answer = "reset"] /\ inbound' = Ch!Nothing
      BY <1>4 DEF Ch!ReadAbandoned
    <2>2. [stream[i] EXCEPT !.answer = "reset"] \in Streams
      BY <1>3 DEF Streams
    <2> QED
      BY <1>2, <1>3, <2>1, <2>2 DEF ReceiverDoes, Streams
  <1>5. CASE Ch!ReceiveTimesOut
    <2>1. /\ stream' = [stream EXCEPT ![i].answer = "reset", ![i].stop = "abandoned"]
          /\ inbound' = Ch!Nothing
      BY <1>5 DEF Ch!ReceiveTimesOut
    <2>2. [stream[i] EXCEPT !.answer = "reset", !.stop = "abandoned"] \in Streams
      BY <1>3 DEF Streams
    <2> QED
      BY <1>2, <1>3, <2>1, <2>2 DEF ReceiverDoes, Streams
  <1>6. ASSUME inbound.verdict = "none"
        PROVE  stream[i].stop = "none"
    BY <1>2, <1>3, <1>6 DEF StreamInv, Refused
  <1>7. CASE Ch!ReadPiece
    <2>1. /\ inbound.verdict = "none" /\ inbound.read \in 0..2
          /\ inbound \in [at : 0..Messages, read : 0..3,
                          verdict : {"none", "taken", "tooLarge", "malformed"}]
      BY <1>2, <1>3, <1>7 DEF Ch!ReadPiece, Ch!Reading, ChannelTypes, Streams
    <2>2. PICK refuses \in {"none", "tooLarge", "malformed"} :
             /\ inbound' = [inbound EXCEPT !.read = inbound.read + 1, !.verdict = refuses]
             /\ stream' = IF refuses = "none" THEN stream
                          ELSE [stream EXCEPT ![i].stop = refuses]
             /\ inbound.read = 0 /\ stream[i].kind = "large" => refuses # "none"
      <3> DEFINE n == inbound.read + 1
                 refused == CASE n = 1 /\ stream[inbound.at].kind = "large" -> "tooLarge"
                              [] n = 3 -> "malformed"
                              [] OTHER -> "none"
      <3>1. /\ refused \in {"none", "tooLarge", "malformed"}
            /\ inbound.read = 0 /\ stream[i].kind = "large" => refused # "none"
        BY <2>1
      <3>2. /\ inbound' = [inbound EXCEPT !.read = n, !.verdict = refused]
            /\ stream' = IF refused = "none" THEN stream
                         ELSE [stream EXCEPT ![inbound.at].stop = refused]
        BY <1>7, Zenon DEF Ch!ReadPiece
      <3> HIDE DEF refused
      <3> QED BY <3>1, <3>2
    <2>3. /\ inbound'.at = i /\ inbound'.verdict = refuses
          /\ inbound'.read = inbound.read + 1
          /\ inbound' \in [at : 0..Messages, read : 0..3,
                           verdict : {"none", "taken", "tooLarge", "malformed"}]
      <3>1. inbound.read + 1 \in 0..3 /\ inbound.at = i
        BY <2>1
      <3> QED BY <2>1, <2>2, <3>1
    <2>4. /\ stream' \in [1..Messages -> Streams]
          /\ \A j \in 1..Messages : j # i => stream'[j] = stream[j]
          /\ stream'[i].kind = stream[i].kind /\ stream'[i].written = stream[i].written
          /\ stream'[i].end = stream[i].end /\ stream'[i].arrived = stream[i].arrived
          /\ stream'[i].answer = "none" /\ stream'[i].stop \in {"none", refuses}
      <3>1. CASE refuses = "none"
        BY <1>3, <1>6, <2>1, <2>2, <3>1
      <3>2. CASE refuses # "none"
        <4>1. [stream[i] EXCEPT !.stop = refuses] \in Streams
          BY <1>3, <3>2 DEF Streams
        <4> QED BY <1>2, <1>3, <2>2, <3>2, <4>1 DEF Streams
      <3> QED BY <3>1, <3>2
    <2>5. InboundInv'
      <3>1. inbound.read >= 1 => stream[i].kind # "large"
        BY <2>1 DEF ChannelInv, InboundInv
      <3>2. inbound.read = 0 \/ inbound.read >= 1
        BY <2>1
      <3> QED BY <2>2, <2>3, <2>4, <3>1, <3>2 DEF InboundInv
    <2>6. stream'[i].stop = "none" \/ inbound'.verdict \in {"tooLarge", "malformed"}
      BY <2>2, <2>3, <2>4
    <2> QED BY <1>3, <2>1, <2>3, <2>4, <2>5, <2>6 DEF ReceiverDoes
  <1>8. CASE Ch!ReadEnd
    <2>1. /\ inbound.verdict = "none" /\ inbound.read = 2 /\ UNCHANGED stream
          /\ stream[i].end = "finished" /\ stream[i].written = 2
          /\ inbound' = [inbound EXCEPT !.verdict =
                           IF stream[i].kind = "garbage" THEN "malformed" ELSE "taken"]
      BY <1>8 DEF Ch!ReadEnd, Ch!Reading, Ch!Whole
    <2>2. inbound \in [at : 0..Messages, read : 0..3,
                       verdict : {"none", "taken", "tooLarge", "malformed"}]
      BY <1>2 DEF ChannelTypes
    <2>3. /\ inbound'.at = i /\ inbound'.read = 2
          /\ inbound'.verdict = IF stream[i].kind = "garbage" THEN "malformed" ELSE "taken"
          /\ inbound' \in [at : 0..Messages, read : 0..3,
                           verdict : {"none", "taken", "tooLarge", "malformed"}]
      BY <2>1, <2>2
    <2>4. Ch!Pieces(i) = 2 /\ stream[i].kind # "large"
      BY <1>3, <2>1 DEF StreamInv, ChannelInv, InboundInv
    <2>5. stream[i].kind \in {"fits", "garbage"}
      BY <1>3, <2>4 DEF Ch!Pieces, Streams, Ch!Kinds
    <2>6. InboundInv'
      BY <2>1, <2>3, <2>5 DEF InboundInv
    <2> QED BY <1>3, <1>6, <2>1, <2>3, <2>6 DEF ReceiverDoes
  <1> QED BY <1>2, <1>4, <1>5, <1>7, <1>8

\* recv_message up to its verdict, and when its time passes.
LEMMA ReceiverKeeps ==
  ASSUME ChannelInv, NEW i \in 1..Messages, i = inbound.at, ReceiverDoes(i)
  PROVE  ChannelInv'
  <1>1. /\ Messages \in Nat /\ ChannelTypes /\ inbound'.at \in {0, i}
        /\ UNCHANGED <<opened, sending, sent, next, handed, last, conn, hurried>>
    <2>1. Messages \in Nat
      BY PartsAssumption
    <2> QED BY <2>1 DEF ChannelInv, ReceiverDoes, Ch!Nothing
  <1>2. Handed' = Handed /\ HandedInOrder' /\ i \notin Handed
    <2>1. i \notin Handed /\ Handed \subseteq 1..Messages
      <3>1. i \notin Handed
        BY DEF ChannelInv, HandedInOrder
      <3> QED BY <1>1, <3>1, HandedAre
    <2>2. \A k \in Handed : k # inbound'.at
      BY <1>1, <2>1
    <2>3. UNCHANGED <<handed, last, next>>
      BY <1>1
    <2>4. Handed' = Handed /\ HandedInOrder'
      BY <2>2, <2>3, HandedStays
    <2> QED BY <2>1, <2>4
  <1>3. stream[i].answer = "none" /\ StreamInv(i) /\ SentInv(i)
    BY DEF ChannelInv, StreamInv
  <1>4. ChannelTypes' /\ InboundInv'
    <2>1. inbound' \in [at : 0..Messages, read : 0..3,
                        verdict : {"none", "taken", "tooLarge", "malformed"}]
      BY <1>1 DEF ReceiverDoes, Ch!Nothing
    <2>2. inbound'.at \in {0, next' - 1} /\ stream' \in [1..Messages -> Streams]
      BY <1>1 DEF ReceiverDoes, ChannelTypes
    <2>3. ChannelTypes'
      BY <1>1, <2>1, <2>2 DEF ChannelTypes
    <2>4. InboundInv'
      BY DEF ReceiverDoes, Ch!Nothing, InboundInv
    <2> QED BY <2>3, <2>4
  <1>5. ASSUME NEW j \in 1..Messages PROVE StreamInv(j)' /\ SentInv(j)'
    <2>1. StreamInv(j) /\ SentInv(j)
      BY DEF ChannelInv
    <2>2. CASE j # i
      <3>1. stream'[j] = stream[j] /\ (Ch!Pieces(j))' = Ch!Pieces(j)
        BY <2>2 DEF ReceiverDoes, Ch!Pieces
      <3>2. Refused(j)' <=> Refused(j)
        BY <1>1, <2>2, <3>1 DEF Refused
      <3> QED
        BY <1>1, <1>2, <2>1, <2>2, <3>1, <3>2 DEF StreamInv, SentInv
    <2>3. CASE j = i
      <3>1. /\ (Ch!Pieces(i))' = Ch!Pieces(i) /\ stream'[i].answer \in {"none", "reset"}
            /\ stream'[i].answer = "none" \/ inbound'.at = 0
            /\ stream'[i].kind = stream[i].kind /\ stream'[i].written = stream[i].written
            /\ stream'[i].end = stream[i].end /\ stream'[i].arrived = stream[i].arrived
        BY DEF ReceiverDoes, Ch!Pieces, Ch!Nothing
      <3>2. stream'[i].stop = "none" \/ Refused(i)'
        BY DEF ReceiverDoes, Refused
      <3>3. Refused(i) => Refused(i)'
        BY <1>3 DEF ReceiverDoes, Refused
      <3>4. i < next
        BY <1>1 DEF ChannelTypes
      <3>5. StreamInv(i)'
        BY <1>1, <1>2, <1>3, <3>1, <3>2, <3>4 DEF StreamInv, ChannelTypes
      <3>6. SentInv(i)'
        BY <1>1, <1>2, <1>3, <3>3 DEF SentInv
      <3> QED BY <2>3, <3>5, <3>6
    <2> QED BY <2>2, <2>3
  <1>6. (conn = "closed" /\ ~hurried /\ last # 0 => stream[last].arrived)'
    <2>1. last # 0 => stream'[last].arrived = stream[last].arrived
      BY <1>1 DEF ReceiverDoes, ChannelTypes
    <2> QED BY <1>1, <2>1 DEF ChannelInv
  <1> QED BY <1>2, <1>4, <1>5, <1>6 DEF ChannelInv

\* The answer: the only step that hands a message over.
LEMMA AnswerIsGiven ==
  ASSUME ChannelInv, NEW i, i = inbound.at, Ch!Answer
  PROVE  ChannelInv'
  <1>1. Messages \in Nat
    BY PartsAssumption
  <1>2. ChannelTypes
    BY DEF ChannelInv
  <1>3. /\ i \in 1..Messages /\ i = next - 1 /\ last \in 0..(next - 1)
        /\ inbound.verdict \in {"taken", "tooLarge", "malformed"}
    <2>1. inbound.verdict # "none"
      BY DEF Ch!Answer
    <2>2. i # 0
      BY <2>1 DEF ChannelInv, InboundInv
    <2> QED BY <1>1, <1>2, <2>1, <2>2 DEF ChannelTypes
  <1>4. /\ conn = "open" /\ last' = i /\ inbound' = Ch!Nothing
        /\ stream' = [stream EXCEPT ![i].answer = inbound.verdict]
        /\ handed' = IF inbound.verdict = "taken" THEN Append(handed, i) ELSE handed
        /\ UNCHANGED <<opened, sending, sent, next, conn, hurried>>
    BY DEF Ch!Answer
  <1>5. StreamInv(i) /\ SentInv(i) /\ stream[i].answer = "none"
    BY <1>3 DEF ChannelInv, StreamInv
  <1>6. /\ stream' \in [1..Messages -> Streams] /\ stream'[i].answer = inbound.verdict
        /\ \A j \in 1..Messages : j # i => stream'[j] = stream[j]
        /\ stream'[i].kind = stream[i].kind /\ stream'[i].written = stream[i].written
        /\ stream'[i].end = stream[i].end /\ stream'[i].arrived = stream[i].arrived
        /\ stream'[i].stop = stream[i].stop
    <2>1. stream \in [1..Messages -> Streams] /\ stream[i] \in Streams
      BY <1>2, <1>3 DEF ChannelTypes
    <2>2. [stream[i] EXCEPT !.answer = inbound.verdict] \in Streams
      BY <1>3, <2>1 DEF Streams
    <2> QED BY <1>3, <1>4, <2>1, <2>2 DEF Streams
  <1>7. /\ handed \in Seq(1..Messages)
        /\ \A k \in 1..Len(handed) : handed[k] < i
        /\ \A j, k \in 1..Len(handed) : j < k => handed[j] < handed[k]
    <2>1. handed \in Seq(1..Messages)
      BY <1>2 DEF ChannelTypes
    <2>2. ASSUME NEW k \in 1..Len(handed) PROVE handed[k] < i
      <3>1. handed[k] \in Handed /\ handed[k] \in 1..Messages
        BY <1>2, HandedAre
      <3>2. handed[k] < next /\ handed[k] # i
        BY <3>1 DEF ChannelInv, HandedInOrder
      <3>3. next \in Nat
        BY <1>1, <1>2 DEF ChannelTypes
      <3> QED BY <1>1, <1>3, <3>1, <3>2, <3>3
    <2> QED BY <2>1, <2>2 DEF ChannelInv, HandedInOrder
  <1>8. /\ handed' \in Seq(1..Messages)
        /\ \A j, k \in 1..Len(handed') : j < k => handed'[j] < handed'[k]
        /\ \A j \in 1..Messages : j \in Handed' <=>
              j \in Handed \/ (j = i /\ inbound.verdict = "taken")
        /\ \A j \in Handed' : j \in 1..Messages /\ j <= i
        /\ i \notin Handed
    <2>1. CASE inbound.verdict # "taken"
      <3>1. handed' = handed /\ Handed' = Handed
        BY <1>4, <2>1 DEF Handed
      <3>2. \A j \in Handed : j \in 1..Messages /\ j < i
        BY <1>2, <1>7, HandedAre DEF Handed
      <3> QED BY <1>1, <1>3, <1>7, <2>1, <3>1, <3>2
    <2>2. CASE inbound.verdict = "taken"
      <3>1. /\ handed' = Append(handed, i) /\ Len(handed') = Len(handed) + 1
            /\ handed' \in Seq(1..Messages) /\ Len(handed) \in Nat
            /\ handed'[Len(handed) + 1] = i
            /\ \A k \in 1..Len(handed) : handed'[k] = handed[k]
        BY <1>3, <1>4, <1>7, <2>2
      <3>2. Handed' = Handed \cup {i}
        <4>1. Handed' \subseteq Handed \cup {i}
          <5> SUFFICES ASSUME NEW k \in 1..(Len(handed) + 1)
                       PROVE  handed'[k] \in Handed \cup {i}
            BY <3>1 DEF Handed
          <5>1. CASE k \in 1..Len(handed)
            BY <3>1, <5>1 DEF Handed
          <5>2. CASE k = Len(handed) + 1
            BY <3>1, <5>2
          <5> QED BY <3>1, <5>1, <5>2
        <4>2. ASSUME NEW k \in 1..Len(handed) PROVE handed[k] \in Handed'
          <5>1. k \in 1..Len(handed') /\ handed'[k] = handed[k]
            BY <3>1
          <5> QED BY <5>1 DEF Handed
        <4>3. i \in Handed'
          <5>1. Len(handed) + 1 \in 1..Len(handed')
            BY <3>1
          <5> QED BY <3>1, <5>1 DEF Handed
        <4>4. Handed \subseteq Handed'
          BY <4>2 DEF Handed
        <4> QED BY <4>1, <4>3, <4>4
      <3>3. \A j \in Handed : j \in 1..Messages /\ j < i
        BY <1>2, <1>7, HandedAre DEF Handed
      <3>4. ASSUME NEW j \in 1..Len(handed'), NEW k \in 1..Len(handed'), j < k
            PROVE  handed'[j] < handed'[k]
        <4>1. j \in 1..Len(handed) /\ (k \in 1..Len(handed) \/ k = Len(handed) + 1)
          BY <3>1, <3>4
        <4> QED BY <1>7, <3>1, <3>4, <4>1
      <3> QED BY <1>1, <1>3, <2>2, <3>1, <3>2, <3>3, <3>4
    <2> QED BY <2>1, <2>2
  <1>9. ChannelTypes' /\ InboundInv'
    <2>1. inbound' \in [at : 0..Messages, read : 0..3,
                        verdict : {"none", "taken", "tooLarge", "malformed"}]
          /\ inbound'.at = 0 /\ inbound'.verdict = "none" /\ inbound'.read = 0
      BY <1>1, <1>4 DEF Ch!Nothing
    <2>2. last' \in 0..(next' - 1) /\ inbound'.at \in {0, next' - 1}
      BY <1>1, <1>3, <1>4, <2>1
    <2>3. ChannelTypes'
      BY <1>2, <1>4, <1>6, <1>8, <2>1, <2>2 DEF ChannelTypes
    <2>4. InboundInv'
      BY <2>1 DEF InboundInv
    <2> QED BY <2>3, <2>4
  <1>10. HandedInOrder'
    <2>1. \A j \in Handed' : j <= last' /\ j < next' /\ j # inbound'.at
      <3>1. next \in Nat /\ inbound'.at = 0
        BY <1>1, <1>2, <1>4 DEF ChannelTypes, Ch!Nothing
      <3> QED BY <1>1, <1>3, <1>4, <1>8, <3>1
    <2> QED BY <1>8, <2>1 DEF HandedInOrder
  <1>11. ASSUME NEW j \in 1..Messages PROVE StreamInv(j)' /\ SentInv(j)'
    <2>1. StreamInv(j) /\ SentInv(j) /\ inbound'.at = 0
      BY <1>4 DEF ChannelInv, Ch!Nothing
    <2>2. CASE j # i
      <3>1. stream'[j] = stream[j] /\ (Ch!Pieces(j))' = Ch!Pieces(j)
            /\ (j \in Handed' <=> j \in Handed)
        BY <1>6, <1>8, <2>2 DEF Ch!Pieces
      <3>2. Refused(j)' <=> Refused(j)
        BY <1>1, <2>1, <2>2, <3>1 DEF Refused
      <3>3. StreamInv(j)'
        BY <1>1, <1>4, <2>1, <2>2, <3>1, <3>2 DEF StreamInv
      <3>4. SentInv(j)'
        BY <1>4, <2>1, <3>1, <3>2 DEF SentInv
      <3> QED BY <3>3, <3>4
    <2>3. CASE j = i
      <3>1. /\ (Ch!Pieces(i))' = Ch!Pieces(i) /\ i \notin Handed
            /\ i \in Handed' <=> inbound.verdict = "taken"
        BY <1>3, <1>6, <1>8 DEF Ch!Pieces
      <3>2. Refused(i) => inbound.verdict # "taken"
        BY <1>5, <1>6 DEF Refused
      <3>3. inbound.verdict # "taken" => Refused(i)'
        BY <1>3, <1>6 DEF Refused
      <3>4. inbound.verdict = "taken" =>
              stream[i].kind = "fits" /\ stream[i].end = "finished"
        BY <1>3 DEF ChannelInv, InboundInv
      <3>5. i < next /\ next \in Nat
        BY <1>1, <1>2, <1>3 DEF ChannelTypes
      <3>6. StreamInv(i)'
        BY <1>1, <1>3, <1>4, <1>5, <1>6, <2>1, <3>1, <3>2, <3>3, <3>4, <3>5 DEF StreamInv
      <3>7. SentInv(i)'
        BY <1>3, <1>4, <1>5, <1>6, <3>1, <3>2, <3>3 DEF SentInv
      <3> QED BY <2>3, <3>6, <3>7
    <2> QED BY <2>2, <2>3
  <1> QED BY <1>4, <1>9, <1>10, <1>11 DEF ChannelInv

\* No step of either end leaves the invariant, ...
LEMMA ChannelStep ==
  ASSUME ChannelInv, [Ch!ChannelNext]_channelVars
  PROVE  ChannelInv'
  <1>1. CASE UNCHANGED channelVars
    BY <1>1 DEF channelVars, ChannelInv, ChannelTypes, HandedInOrder, InboundInv, StreamInv,
       SentInv, Handed, Refused, Ch!Pieces
  <1>2. ASSUME NEW kind \in Ch!Kinds, Ch!Open(kind) PROVE ChannelInv'
    BY <1>2, OpenKeeps
  <1>3. CASE Ch!ReadPiece \/ Ch!ReadEnd \/ Ch!ReadAbandoned \/ Ch!ReceiveTimesOut
    <2>1. inbound.at # 0
      BY <1>3 DEF Ch!ReadPiece, Ch!ReadEnd, Ch!ReadAbandoned, Ch!ReceiveTimesOut, Ch!Reading
    <2> QED BY <1>3, <2>1, ReceiverDoesSo, ReceiverKeeps
  <1> QED
    BY <1>1, <1>2, <1>3, SenderKeeps, AnswerArrivesKeeps, AcceptKeeps, AnswerIsGiven,
       ConnectionKeeps DEF Ch!ChannelNext

\* ... so it holds throughout.
LEMMA ChannelInvariance == Spec => []ChannelInv
  <1>1. ChannelInv /\ [Ch!ChannelNext]_channelVars => ChannelInv'
    BY ChannelStep
  <1> QED
    BY <1>1, ChannelStarts, ChannelIsAPart, PTL

\* A message was handed over when it is somewhere in what was.
LEMMA HandedIs ==
  ASSUME ChannelInv, NEW i \in 1..Messages
  PROVE  (\E k \in DOMAIN handed : handed[k] = i) <=> i \in Handed
  <1>1. DOMAIN handed = 1..Len(handed)
    BY DEF ChannelInv, ChannelTypes
  <1> QED BY <1>1 DEF Handed

\* channel.rs, deliver and recv_message: what a send returns is what became of
\* the message, and messages are handed over whole, once and in order.
THEOREM SendsAreTrue == Spec => []SendTellsTheTruth
  <1>1. ASSUME ChannelInv PROVE SendTellsTheTruth
    <2>1. ASSUME NEW i \in 1..Messages
          PROVE  /\ sent[i] = "ok" => i \in Handed
                 /\ sent[i] = "refused" => i \notin Handed
                 /\ i \in Handed => /\ stream[i].kind = "fits" /\ stream[i].end = "finished"
                                    /\ stream[i].written = Ch!Pieces(i)
      <3>1. StreamInv(i) /\ SentInv(i)
        BY <1>1 DEF ChannelInv
      <3>2. i \in Handed => ~Refused(i)
        BY <1>1, <3>1 DEF ChannelInv, HandedInOrder, StreamInv, Refused
      <3> QED BY <3>1, <3>2 DEF StreamInv, SentInv
    <2>2. \A j, k \in DOMAIN handed : j < k => handed[j] < handed[k]
      <3>1. DOMAIN handed = 1..Len(handed)
        BY <1>1 DEF ChannelInv, ChannelTypes
      <3> QED BY <1>1, <3>1 DEF ChannelInv, HandedInOrder
    <2>3. \A i \in 1..Messages :
             (\E k \in DOMAIN handed : handed[k] = i) <=> i \in Handed
      BY <1>1, HandedIs
    <2> QED BY <2>1, <2>2, <2>3 DEF SendTellsTheTruth, Ch!SendTellsTheTruth
  <1> QED
    BY <1>1, ChannelInvariance, PTL

\* channel.rs, close: the sender of the last message learns that it arrived,
\* unless the connection goes by itself or close_timeout passes.
THEOREM ClosingIsConfirmed == Spec => []ClosingConfirms
  <1>1. ASSUME ChannelInv PROVE ClosingConfirms
    <2> SUFFICES ASSUME NEW k \in DOMAIN handed, sent[handed[k]] = "lost"
                 PROVE  conn = "lost" \/ hurried
      BY DEF ClosingConfirms, Ch!ClosingConfirms
    <2>1. handed[k] \in 1..Messages /\ handed[k] \in Handed
      <3>1. ChannelTypes /\ DOMAIN handed = 1..Len(handed)
        BY <1>1 DEF ChannelInv, ChannelTypes
      <3> QED BY <3>1, HandedAre
    <2>2. StreamInv(handed[k]) /\ SentInv(handed[k])
      BY <1>1, <2>1 DEF ChannelInv
    <2>3. ~Refused(handed[k])
      BY <1>1, <2>1, <2>2 DEF ChannelInv, HandedInOrder, StreamInv, Refused
    <2> QED BY <2>1, <2>2, <2>3 DEF SentInv
  <1> QED
    BY <1>1, ChannelInvariance, PTL

-----------------------------------------------------------------------------
(* Chunking *)

\* A behaviour of the parts is one of the reassembler.
LEMMA ChunkingIsAPart == Spec => Cn!ChunkingInit /\ [][Cn!ChunkingNext]_chunkingVars
  <1>1. Init => Cn!ChunkingInit
    BY DEF Init
  <1>2. [Next]_vars => [Cn!ChunkingNext]_chunkingVars
    BY DEF Next, vars
  <1> QED BY <1>1, <1>2, PTL DEF Spec

\* The messages that a sequence speaks of, and that it speaks of each once.
Named(q) == {q[k].id : k \in 1..Len(q)}
Once(q)  == \A j, k \in 1..Len(q) : q[j].id = q[k].id => j = k

Pending == [id : Cn!MessageIds, received : Nat]
Told    == [id : Cn!MessageIds, what : {"message", "invalid", "dropped"}]

\* A message is neither waited for nor told of before its metaData left, and from
\* then on one of both; one that is waited for lacks what did not leave yet.
ChunkingInv ==
    /\ packages \in [Cn!MessageIds -> Nat]
    /\ in_flight \in Seq(Pending) /\ outcomes \in Seq(Told)
    /\ Once(in_flight) /\ Once(outcomes)
    /\ \A m \in Cn!MessageIds :
          /\ packages[m] = 0 => m \notin Named(in_flight) /\ m \notin Named(outcomes)
          /\ packages[m] > 0 => (m \in Named(in_flight) <=> m \notin Named(outcomes))
    /\ \A k \in 1..Len(in_flight) :
          /\ in_flight[k].received + 1 = packages[in_flight[k].id]
          /\ in_flight[k].received < Bodies[in_flight[k].id]

\* One more at the end, ...
LEMMA OnceMore ==
  ASSUME NEW S, NEW q \in Seq(S), NEW x \in S, Once(q), x.id \notin Named(q)
  PROVE  /\ Append(q, x) \in Seq(S) /\ Once(Append(q, x))
         /\ Named(Append(q, x)) = Named(q) \cup {x.id}
         /\ \A k \in 1..Len(Append(q, x)) :
               Append(q, x)[k] = x \/ \E j \in 1..Len(q) : Append(q, x)[k] = q[j]
  <1> DEFINE r == Append(q, x)
  <1>1. /\ r \in Seq(S) /\ Len(r) = Len(q) + 1 /\ Len(q) \in Nat
        /\ \A k \in 1..Len(q) : r[k] = q[k]
        /\ r[Len(q) + 1] = x
    BY AppendProperties
  <1> HIDE DEF r
  <1>2. \A k \in 1..Len(r) : k \in 1..Len(q) \/ k = Len(r)
    BY <1>1
  <1>3. \A k \in 1..Len(q) : k \in 1..Len(r)
    BY <1>1
  <1>4. \A k \in 1..Len(r) : r[k] = x \/ \E j \in 1..Len(q) : r[k] = q[j]
    BY <1>1, <1>2
  <1>5. Once(r)
    BY <1>1, <1>2 DEF Once, Named
  <1>6. Named(r) = Named(q) \cup {x.id}
    <2>1. Len(r) \in 1..Len(r) /\ r[Len(r)] = x
      BY <1>1
    <2> QED BY <1>1, <1>2, <1>3, <2>1 DEF Named
  <1> QED BY <1>1, <1>4, <1>5, <1>6 DEF r

\* ... and one less anywhere.
Without(q, i) == SubSeq(q, 1, i - 1) \o SubSeq(q, i + 1, Len(q))

LEMMA OnceLess ==
  ASSUME NEW S, NEW q \in Seq(S), NEW i \in 1..Len(q), Once(q)
  PROVE  /\ Without(q, i) \in Seq(S) /\ Once(Without(q, i))
         /\ Named(Without(q, i)) = Named(q) \ {q[i].id}
         /\ \A k \in 1..Len(Without(q, i)) : \E j \in 1..Len(q) : Without(q, i)[k] = q[j]
  <1> DEFINE a == SubSeq(q, 1, i - 1)
             b == SubSeq(q, i + 1, Len(q))
             r == a \o b
  <1>1. /\ Len(q) \in Nat /\ i \in Nat /\ 1 <= i /\ i <= Len(q)
        /\ \A k \in 1..Len(q) : q[k] \in S
    OBVIOUS
  <1>2. /\ a \in Seq(S) /\ Len(a) = i - 1
        /\ \A k \in 1..(i - 1) : a[k] = q[k]
    <2>1. \A k \in 1..(i - 1) : q[k] \in S
      BY <1>1
    <2>2. /\ a \in Seq(S) /\ Len(a) = IF 1 <= i - 1 THEN (i - 1) - 1 + 1 ELSE 0
          /\ \A k \in 1..((i - 1) - 1 + 1) : a[k] = q[1 + k - 1]
      BY <1>1, <2>1, SubSeqProperties
    <2> QED BY <1>1, <2>2
  <1>3. /\ b \in Seq(S) /\ Len(b) = Len(q) - i
        /\ \A k \in 1..(Len(q) - i) : b[k] = q[k + i]
    <2>1. \A k \in (i + 1)..Len(q) : q[k] \in S
      BY <1>1
    <2>2. /\ b \in Seq(S) /\ Len(b) = IF i + 1 <= Len(q) THEN Len(q) - (i + 1) + 1 ELSE 0
          /\ \A k \in 1..(Len(q) - (i + 1) + 1) : b[k] = q[(i + 1) + k - 1]
      BY <1>1, <2>1, SubSeqProperties
    <2> QED BY <1>1, <2>2
  <1> HIDE DEF a, b
  <1>4. /\ r \in Seq(S) /\ Len(r) = Len(q) - 1
        /\ \A k \in 1..(Len(q) - 1) : r[k] = IF k < i THEN q[k] ELSE q[k + 1]
    <2>1. /\ r \in Seq(S) /\ Len(r) = Len(a) + Len(b)
          /\ \A k \in 1..(Len(a) + Len(b)) : r[k] = IF k <= Len(a) THEN a[k] ELSE b[k - Len(a)]
      BY <1>2, <1>3, ConcatProperties
    <2>2. Len(r) = Len(q) - 1
      BY <1>1, <1>2, <1>3, <2>1
    <2>3. ASSUME NEW k \in 1..(Len(q) - 1)
          PROVE  r[k] = IF k < i THEN q[k] ELSE q[k + 1]
      <3>1. CASE k < i
        <4>1. k \in 1..(i - 1) /\ k <= Len(a) /\ k \in 1..(Len(a) + Len(b))
          BY <1>1, <1>2, <1>3, <3>1
        <4> QED BY <1>2, <2>1, <3>1, <4>1
      <3>2. CASE ~(k < i)
        <4>1. /\ k - Len(a) \in 1..(Len(q) - i) /\ ~(k <= Len(a)) /\ k \in 1..(Len(a) + Len(b))
              /\ (k - Len(a)) + i = k + 1
          BY <1>1, <1>2, <1>3, <3>2
        <4> QED BY <1>3, <2>1, <3>2, <4>1
      <3> QED BY <3>1, <3>2
    <2> QED BY <2>1, <2>2, <2>3
  <1> HIDE DEF r
  <1>5. ASSUME NEW k \in 1..Len(r)
        PROVE  \E j \in 1..Len(q) : j # i /\ r[k] = q[j]
    <2>1. CASE k < i
      BY <1>1, <1>4, <2>1
    <2>2. CASE ~(k < i)
      <3>1. k + 1 \in 1..Len(q) /\ k + 1 # i /\ r[k] = q[k + 1]
        BY <1>1, <1>4, <2>2
      <3> QED BY <3>1
    <2> QED BY <2>1, <2>2
  <1>6. ASSUME NEW j \in 1..Len(q), j # i
        PROVE  \E k \in 1..Len(r) : r[k] = q[j]
    <2>1. CASE j < i
      BY <1>1, <1>4, <2>1
    <2>2. CASE ~(j < i)
      <3>1. j - 1 \in 1..Len(r) /\ ~(j - 1 < i) /\ (j - 1) + 1 = j
        BY <1>1, <1>4, <1>6, <2>2
      <3> QED BY <1>4, <3>1
    <2> QED BY <2>1, <2>2
  <1>7. Named(r) = Named(q) \ {q[i].id}
    <2>1. Named(r) \subseteq Named(q) \ {q[i].id}
      BY <1>1, <1>5 DEF Named, Once
    <2>2. Named(q) \ {q[i].id} \subseteq Named(r)
      BY <1>6 DEF Named
    <2> QED BY <2>1, <2>2
  <1>8. Once(r)
    <2> SUFFICES ASSUME NEW j \in 1..Len(r), NEW k \in 1..Len(r), r[j].id = r[k].id
                 PROVE  j = k
      BY DEF Once
    <2>1. /\ r[j] = q[IF j < i THEN j ELSE j + 1] /\ r[k] = q[IF k < i THEN k ELSE k + 1]
          /\ (IF j < i THEN j ELSE j + 1) \in 1..Len(q)
          /\ (IF k < i THEN k ELSE k + 1) \in 1..Len(q)
      BY <1>1, <1>4
    <2>2. (IF j < i THEN j ELSE j + 1) = (IF k < i THEN k ELSE k + 1)
      BY <2>1 DEF Once
    <2> QED BY <1>1, <2>2
  <1> QED BY <1>4, <1>5, <1>7, <1>8 DEF Without, r, a, b

\* The package of a message that is waited for or begins: the others are as they
\* were, and so is what they are told.
LEMMA TellsOf ==
  ASSUME ChunkingInv, NEW m \in Cn!MessageIds,
         packages' = [packages EXCEPT ![m] = @ + 1],
         in_flight' \in Seq(Pending), outcomes' \in Seq(Told),
         Once(in_flight'), Once(outcomes'),
         \A n \in Cn!MessageIds : n # m /\ packages[n] = 0 =>
            n \notin Named(in_flight') /\ n \notin Named(outcomes'),
         \A n \in Cn!MessageIds : n # m /\ packages[n] > 0 =>
            (n \in Named(in_flight') <=> n \notin Named(outcomes')),
         m \in Named(in_flight') <=> m \notin Named(outcomes'),
         \A k \in 1..Len(in_flight') :
            \/ in_flight'[k].id # m /\ \E j \in 1..Len(in_flight) : in_flight'[k] = in_flight[j]
            \/ /\ in_flight'[k].id = m /\ in_flight'[k].received = packages[m]
               /\ packages[m] < Bodies[m]
  PROVE  ChunkingInv'
  <1>1. /\ packages' \in [Cn!MessageIds -> Nat] /\ packages'[m] = packages[m] + 1
        /\ packages[m] \in Nat
        /\ \A n \in Cn!MessageIds : n # m => packages'[n] = packages[n]
    BY DEF ChunkingInv
  <1>2. ASSUME NEW n \in Cn!MessageIds
        PROVE  /\ packages'[n] = 0 => n \notin Named(in_flight') /\ n \notin Named(outcomes')
               /\ packages'[n] > 0 => (n \in Named(in_flight') <=> n \notin Named(outcomes'))
    BY <1>1
  <1>3. ASSUME NEW k \in 1..Len(in_flight')
        PROVE  /\ in_flight'[k].received + 1 = packages'[in_flight'[k].id]
               /\ in_flight'[k].received < Bodies[in_flight'[k].id]
    <2>1. CASE in_flight'[k].id = m
      BY <1>1, <2>1
    <2>2. CASE in_flight'[k].id # m
      <3>1. PICK j \in 1..Len(in_flight) : in_flight'[k] = in_flight[j]
        BY <2>2
      <3>2. in_flight[j].id \in Cn!MessageIds
        <4>1. in_flight \in Seq(Pending)
          BY DEF ChunkingInv
        <4>2. in_flight[j] \in Pending
          BY <4>1, ElementOfSeq
        <4> QED BY <4>2 DEF Pending
      <3>3. /\ in_flight[j].received + 1 = packages[in_flight[j].id]
            /\ in_flight[j].received < Bodies[in_flight[j].id]
        BY DEF ChunkingInv
      <3>4. packages'[in_flight[j].id] = packages[in_flight[j].id]
        BY <1>1, <2>2, <3>1, <3>2
      <3> QED BY <3>1, <3>3, <3>4
    <2> QED BY <2>1, <2>2
  <1>4. /\ Named(in_flight)' = Named(in_flight') /\ Named(outcomes)' = Named(outcomes')
    BY DEF Named
  <1> QED BY <1>1, <1>2, <1>3, <1>4 DEF ChunkingInv, Once

\* MakeRoom: the oldest goes, and its sender is told; it was not told before.
LEMMA RoomIsMade ==
  ASSUME ChunkingInv
  PROVE  LET room == Cn!MakeRoom(in_flight)
             o == outcomes \o room.dropped
         IN  /\ room.kept \in Seq(Pending) /\ Once(room.kept)
             /\ o \in Seq(Told) /\ Once(o)
             /\ \A n \in Cn!MessageIds :
                   /\ packages[n] = 0 => n \notin Named(room.kept) /\ n \notin Named(o)
                   /\ packages[n] > 0 => (n \in Named(room.kept) <=> n \notin Named(o))
             /\ \A k \in 1..Len(room.kept) : \E j \in 1..Len(in_flight) : room.kept[k] = in_flight[j]
  <1> DEFINE room == Cn!MakeRoom(in_flight)
             o == outcomes \o room.dropped
  <1>1. in_flight \in Seq(Pending) /\ outcomes \in Seq(Told) /\ Once(in_flight) /\ Once(outcomes)
    BY DEF ChunkingInv
  <1>2. CASE ~(Len(in_flight) >= MaxInFlight)
    <2>1. room.kept = in_flight /\ room.dropped = <<>>
      BY <1>2 DEF Cn!MakeRoom
    <2>2. o = outcomes
      BY <1>1, <2>1, ConcatEmptySeq
    <2> HIDE DEF room, o
    <2> QED BY <1>1, <2>1, <2>2 DEF ChunkingInv, room, o
  <1>3. CASE Len(in_flight) >= MaxInFlight
    <2> DEFINE h == Head(in_flight)
               x == [id |-> h.id, what |-> "dropped"]
    <2>1. Len(in_flight) \in Nat /\ 1 \in 1..Len(in_flight) /\ in_flight # <<>>
      <3>1. MaxInFlight \in Nat \ {0}
        BY PartsAssumption
      <3>2. Len(in_flight) \in Nat
        BY <1>1
      <3>3. Len(in_flight) >= 1
        BY <1>3, <3>1, <3>2
      <3> QED BY <3>2, <3>3
    <2>2. /\ room.kept = Tail(in_flight) /\ room.dropped = <<x>>
          /\ h = in_flight[1] /\ h \in Pending /\ h.id \in Named(in_flight)
      <3>1. room.kept = Tail(in_flight) /\ room.dropped = <<x>>
        BY <1>3 DEF Cn!MakeRoom
      <3>2. h = in_flight[1] /\ h \in Pending
        BY <1>1, <2>1, HeadTailProperties
      <3> QED BY <2>1, <3>1, <3>2 DEF Named
    <2>3. x \in Told /\ x.id = h.id /\ h.id \in Cn!MessageIds
      BY <2>2 DEF Told, Pending
    <2> HIDE DEF x, h
    <2>4. /\ Tail(in_flight) \in Seq(Pending) /\ Once(Tail(in_flight))
          /\ Named(Tail(in_flight)) = Named(in_flight) \ {h.id}
          /\ \A k \in 1..Len(Tail(in_flight)) :
                \E j \in 1..Len(in_flight) : Tail(in_flight)[k] = in_flight[j]
      <3>1. Tail(in_flight) = SubSeq(in_flight, 1, 1 - 1) \o SubSeq(in_flight, 1 + 1, Len(in_flight))
        <4>1. SubSeq(in_flight, 1, 1 - 1) = <<>>
          BY SubSeqEmpty
        <4>2. SubSeq(in_flight, 1 + 1, Len(in_flight)) = Tail(in_flight)
          BY <1>1, <2>1, TailIsSubSeq
        <4>3. Tail(in_flight) \in Seq(Pending)
          BY <1>1, <2>1, HeadTailProperties
        <4> QED BY <4>1, <4>2, <4>3, ConcatEmptySeq
      <3> DEFINE s == Without(in_flight, 1)
      <3>2. /\ s \in Seq(Pending) /\ Once(s) /\ Named(s) = Named(in_flight) \ {in_flight[1].id}
            /\ \A k \in 1..Len(s) : \E j \in 1..Len(in_flight) : s[k] = in_flight[j]
        BY <1>1, <2>1, OnceLess
      <3>3. s = Tail(in_flight)
        BY <3>1 DEF Without
      <3> HIDE DEF s
      <3> QED BY <2>2, <3>2, <3>3
    <2>5. h.id \notin Named(outcomes)
      BY <2>2, <2>3 DEF ChunkingInv
    <2>6. /\ o = Append(outcomes, x) /\ o \in Seq(Told) /\ Once(o)
          /\ Named(o) = Named(outcomes) \cup {h.id}
      <3>1. o = Append(outcomes, x)
        BY <1>1, <2>2, <2>3, AppendIsConcat
      <3> QED BY <1>1, <2>3, <2>5, <3>1, OnceMore
    <2> HIDE DEF room, o
    <2>7. ASSUME NEW n \in Cn!MessageIds
          PROVE  /\ packages[n] = 0 => n \notin Named(room.kept) /\ n \notin Named(o)
                 /\ packages[n] > 0 => (n \in Named(room.kept) <=> n \notin Named(o))
      BY <2>2, <2>3, <2>4, <2>5, <2>6 DEF ChunkingInv
    <2> QED BY <2>2, <2>4, <2>6, <2>7 DEF room, o
  <1> QED BY <1>2, <1>3

\* message_to_chunks' metaData arrives: there is room for its message.
LEMMA MetaDataKeeps ==
  ASSUME ChunkingInv, NEW m \in Cn!MessageIds, NEW hash, Cn!SendsMetaData(m, hash)
  PROVE  ChunkingInv'
  <1> DEFINE room == Cn!MakeRoom(in_flight)
             o == outcomes \o room.dropped
             x == [id |-> m, received |-> 0]
             y == [id |-> m, what |-> "invalid"]
  <1>1. /\ packages[m] = 0 /\ packages' = [packages EXCEPT ![m] = 1]
        /\ packages \in [Cn!MessageIds -> Nat]
        /\ Bodies[m] \in Nat
    <2>1. Bodies \in Seq(Nat)
      BY PartsAssumption
    <2>2. m \in 1..Len(Bodies)
      BY <2>1 DEF Cn!MessageIds
    <2>3. Bodies[m] \in Nat
      BY <2>1, <2>2, ElementOfSeq
    <2> QED BY <2>3 DEF Cn!SendsMetaData, ChunkingInv
  <1>2. packages' = [packages EXCEPT ![m] = @ + 1]
    BY <1>1
  <1>3. /\ room.kept \in Seq(Pending) /\ Once(room.kept)
        /\ o \in Seq(Told) /\ Once(o)
        /\ \A n \in Cn!MessageIds :
              /\ packages[n] = 0 => n \notin Named(room.kept) /\ n \notin Named(o)
              /\ packages[n] > 0 => (n \in Named(room.kept) <=> n \notin Named(o))
        /\ \A k \in 1..Len(room.kept) : \E j \in 1..Len(in_flight) : room.kept[k] = in_flight[j]
    BY RoomIsMade
  <1>4. /\ x \in Pending /\ x.id = m /\ x.received = 0
        /\ y \in Told /\ y.id = m
    BY DEF Pending, Told
  <1>5. m \notin Named(room.kept) /\ m \notin Named(o)
    BY <1>1, <1>3
  <1>6. \A k \in 1..Len(room.kept) : room.kept[k].id # m
    BY <1>5 DEF Named
  <1>7. CASE Bodies[m] = 0
    <2>1. in_flight' = room.kept /\ outcomes' = o \o <<y>>
      BY <1>7 DEF Cn!SendsMetaData
    <2> HIDE DEF room, o, x, y
    <2>2. outcomes' = Append(o, y)
      BY <1>3, <1>4, <2>1, AppendIsConcat
    <2>3. outcomes' \in Seq(Told) /\ Once(outcomes') /\ Named(outcomes') = Named(o) \cup {m}
      BY <1>3, <1>4, <1>5, <2>2, OnceMore
    <2> QED BY <1>2, <1>3, <1>5, <1>6, <2>1, <2>3, TellsOf
  <1>8. CASE Bodies[m] # 0
    <2>1. in_flight' = Append(room.kept, x) /\ outcomes' = o
      BY <1>8 DEF Cn!SendsMetaData
    <2> HIDE DEF room, o, x, y
    <2>2. /\ in_flight' \in Seq(Pending) /\ Once(in_flight')
          /\ Named(in_flight') = Named(room.kept) \cup {m}
          /\ \A k \in 1..Len(in_flight') :
                in_flight'[k] = x \/ \E j \in 1..Len(room.kept) : in_flight'[k] = room.kept[j]
      BY <1>3, <1>4, <1>5, <2>1, OnceMore
    <2>3. ASSUME NEW k \in 1..Len(in_flight')
          PROVE  \/ in_flight'[k].id # m /\ \E j \in 1..Len(in_flight) : in_flight'[k] = in_flight[j]
                 \/ /\ in_flight'[k].id = m /\ in_flight'[k].received = packages[m]
                    /\ packages[m] < Bodies[m]
      <3>1. CASE in_flight'[k] = x
        BY <1>1, <1>4, <1>8, <3>1
      <3>2. CASE \E j \in 1..Len(room.kept) : in_flight'[k] = room.kept[j]
        BY <1>3, <1>6, <3>2
      <3> QED BY <2>2, <3>1, <3>2
    <2> QED BY <1>2, <1>3, <1>5, <2>1, <2>2, <2>3, TellsOf
  <1> QED BY <1>7, <1>8

\* A chunk arrives: its message is complete, waits for more, or was dropped.
LEMMA ChunkKeeps ==
  ASSUME ChunkingInv, NEW m \in Cn!MessageIds, Cn!SendsChunk(m)
  PROVE  ChunkingInv'
  <1> DEFINE at == {k \in 1..Len(in_flight) : in_flight[k].id = m}
  <1>1. /\ packages[m] \in Nat /\ packages[m] > 0 /\ packages' = [packages EXCEPT ![m] = @ + 1]
        /\ packages[m] <= Bodies[m] /\ Bodies[m] \in Nat
    <2>1. Bodies \in Seq(Nat)
      BY PartsAssumption
    <2>2. m \in 1..Len(Bodies)
      BY <2>1 DEF Cn!MessageIds
    <2>3. Bodies[m] \in Nat /\ packages[m] \in Nat
      BY <2>1, <2>2, ElementOfSeq DEF ChunkingInv
    <2> QED BY <2>3 DEF Cn!SendsChunk
  <1>2. /\ in_flight \in Seq(Pending) /\ outcomes \in Seq(Told) /\ Once(in_flight) /\ Once(outcomes)
        /\ \A n \in Cn!MessageIds :
              /\ packages[n] = 0 => n \notin Named(in_flight) /\ n \notin Named(outcomes)
              /\ packages[n] > 0 => (n \in Named(in_flight) <=> n \notin Named(outcomes))
        /\ \A k \in 1..Len(in_flight) :
              /\ in_flight[k] \in Pending
              /\ in_flight[k].received + 1 = packages[in_flight[k].id]
              /\ in_flight[k].received < Bodies[in_flight[k].id]
    BY ElementOfSeq DEF ChunkingInv
  <1>3. CASE at = {}
    <2>1. UNCHANGED <<in_flight, outcomes>>
      BY <1>3 DEF Cn!SendsChunk
    <2>2. \A k \in 1..Len(in_flight) : in_flight[k].id # m
      BY <1>3
    <2>3. in_flight' \in Seq(Pending) /\ outcomes' \in Seq(Told) /\ Once(in_flight') /\ Once(outcomes')
      BY <1>2, <2>1
    <2> QED BY <1>1, <1>2, <2>1, <2>2, <2>3, TellsOf
  <1>4. CASE at # {}
    <2> DEFINE i == CHOOSE j \in at : TRUE
               received == in_flight[i].received + 1
    <2>1. /\ i \in 1..Len(in_flight) /\ in_flight[i].id = m /\ m \in Named(in_flight)
          /\ m \notin Named(outcomes) /\ received = packages[m]
          /\ \A k \in 1..Len(in_flight) : in_flight[k].id = m => k = i
      <3>1. i \in at
        BY <1>4
      <3> HIDE DEF i
      <3>2. i \in 1..Len(in_flight) /\ in_flight[i].id = m
        BY <3>1
      <3> QED BY <1>1, <1>2, <3>2 DEF Named, Once
    <2>2. IF received = Bodies[m]
          THEN /\ in_flight' = Cn!RemoveAt(in_flight, i)
               /\ outcomes' = Append(outcomes, Cn!finish(m))
          ELSE /\ in_flight' = [in_flight EXCEPT ![i].received = received]
               /\ UNCHANGED outcomes
      BY <1>4 DEF Cn!SendsChunk
    <2> HIDE DEF i, at
    <2>3. CASE received = Bodies[m]
      <3>1. /\ in_flight' \in Seq(Pending) /\ Once(in_flight')
            /\ Named(in_flight') = Named(in_flight) \ {m}
            /\ \A k \in 1..Len(in_flight') : \E j \in 1..Len(in_flight) : in_flight'[k] = in_flight[j]
        <4> DEFINE s == Without(in_flight, i)
        <4>1. /\ s \in Seq(Pending) /\ Once(s) /\ Named(s) = Named(in_flight) \ {in_flight[i].id}
              /\ \A k \in 1..Len(s) : \E j \in 1..Len(in_flight) : s[k] = in_flight[j]
          BY <1>2, <2>1, OnceLess
        <4>2. in_flight' = s
          BY <2>2, <2>3 DEF Cn!RemoveAt, Without
        <4> HIDE DEF s
        <4> QED BY <2>1, <4>1, <4>2
      <3>2. Cn!finish(m) \in Told /\ Cn!finish(m).id = m
        BY DEF Cn!finish, Told
      <3>3. outcomes' \in Seq(Told) /\ Once(outcomes') /\ Named(outcomes') = Named(outcomes) \cup {m}
        <4>1. outcomes' = Append(outcomes, Cn!finish(m))
          BY <2>2, <2>3
        <4> QED BY <1>2, <2>1, <3>2, <4>1, OnceMore
      <3>4. \A k \in 1..Len(in_flight') : in_flight'[k].id # m
        BY <3>1 DEF Named
      <3>5. /\ \A n \in Cn!MessageIds : n # m /\ packages[n] = 0 =>
                  n \notin Named(in_flight') /\ n \notin Named(outcomes')
            /\ \A n \in Cn!MessageIds : n # m /\ packages[n] > 0 =>
                  (n \in Named(in_flight') <=> n \notin Named(outcomes'))
            /\ m \in Named(in_flight') <=> m \notin Named(outcomes')
        BY <1>2, <3>1, <3>3
      <3>6. \A k \in 1..Len(in_flight') :
               in_flight'[k].id # m /\ \E j \in 1..Len(in_flight) : in_flight'[k] = in_flight[j]
        BY <3>1, <3>4
      <3> HIDE DEF received
      <3> QED BY <1>1, <3>1, <3>3, <3>5, <3>6, TellsOf
    <2>4. CASE received # Bodies[m]
      <3>1. /\ in_flight' = [in_flight EXCEPT ![i].received = received] /\ UNCHANGED outcomes
            /\ received \in Nat
        <4>1. received \in Nat
          <5> HIDE DEF received
          <5> QED BY <1>1, <2>1
        <4>2. /\ in_flight' = [in_flight EXCEPT ![i].received = received]
              /\ UNCHANGED outcomes
          <5> HIDE DEF received
          <5> QED BY <2>2, <2>4
        <4> QED BY <4>1, <4>2
      <3>2. /\ in_flight' \in Seq(Pending) /\ Len(in_flight') = Len(in_flight)
            /\ in_flight'[i].id = m /\ in_flight'[i].received = received
            /\ \A k \in 1..Len(in_flight) : k # i => in_flight'[k] = in_flight[k]
        <4> DEFINE y == [in_flight[i] EXCEPT !.received = received]
        <4>1. /\ y \in Pending /\ y.id = m /\ y.received = received
          <5>1. in_flight[i] \in Pending
            BY <1>2, <2>1
          <5> QED BY <2>1, <3>1, <5>1 DEF Pending
        <4>2. in_flight' = [in_flight EXCEPT ![i] = y]
          <5> HIDE DEF received
          <5>1. in_flight' = [in_flight EXCEPT ![i].received = received]
            BY <3>1
          <5>2. in_flight' = [in_flight EXCEPT ![i] = [in_flight[i] EXCEPT !.received = received]]
            BY <1>2, <2>1, <5>1
          <5> QED BY <5>2 DEF received
        <4> HIDE DEF y
        <4>3. /\ in_flight' \in Seq(Pending) /\ Len(in_flight') = Len(in_flight)
              /\ in_flight'[i] = y
              /\ \A k \in 1..Len(in_flight) : k # i => in_flight'[k] = in_flight[k]
          BY <1>2, <2>1, <4>1, <4>2, ExceptSeq
        <4> QED BY <4>1, <4>3
      <3>3. \A k \in 1..Len(in_flight) : in_flight'[k].id = in_flight[k].id
        BY <2>1, <3>2
      <3>4. Once(in_flight') /\ Named(in_flight') = Named(in_flight)
        <4> HIDE DEF received
        <4>1. Len(in_flight') = Len(in_flight) /\ Once(in_flight)
          BY <1>2, <3>2
        <4>2. Once(in_flight')
          BY <3>3, <4>1 DEF Once
        <4>3. Named(in_flight') = Named(in_flight)
          BY <3>3, <4>1 DEF Named
        <4> QED BY <4>2, <4>3
      <3>5. ASSUME NEW k \in 1..Len(in_flight')
            PROVE  \/ in_flight'[k].id # m /\ \E j \in 1..Len(in_flight) : in_flight'[k] = in_flight[j]
                   \/ /\ in_flight'[k].id = m /\ in_flight'[k].received = packages[m]
                      /\ packages[m] < Bodies[m]
        BY <1>1, <2>1, <2>4, <3>2, <3>3
      <3>6. outcomes' \in Seq(Told) /\ Once(outcomes')
        BY <1>2, <3>1
      <3> QED BY <1>1, <1>2, <2>1, <3>1, <3>2, <3>4, <3>5, <3>6, TellsOf
    <2> QED BY <2>3, <2>4
  <1> QED BY <1>3, <1>4

\* Nothing is begun at first, and no package leaves the invariant, ...
LEMMA ChunkingInvariance == Spec => []ChunkingInv
  <1>1. Cn!ChunkingInit => ChunkingInv
    <2> SUFFICES ASSUME Cn!ChunkingInit PROVE ChunkingInv
      OBVIOUS
    <2>1. in_flight = <<>> /\ outcomes = <<>> /\ packages = [m \in Cn!MessageIds |-> 0]
      BY DEF Cn!ChunkingInit
    <2>2. in_flight \in Seq(Pending) /\ outcomes \in Seq(Told)
      BY <2>1
    <2>3. Named(in_flight) = {} /\ Named(outcomes) = {} /\ Once(in_flight) /\ Once(outcomes)
      BY <2>1 DEF Named, Once
    <2>4. \A k \in 1..Len(in_flight) : FALSE
      BY <2>1
    <2> QED BY <2>1, <2>2, <2>3, <2>4 DEF ChunkingInv
  <1>2. ChunkingInv /\ [Cn!ChunkingNext]_chunkingVars => ChunkingInv'
    <2> SUFFICES ASSUME ChunkingInv, [Cn!ChunkingNext]_chunkingVars PROVE ChunkingInv'
      OBVIOUS
    <2>1. CASE UNCHANGED chunkingVars
      BY <2>1 DEF ChunkingInv, chunkingVars, Once, Named
    <2>2. CASE Cn!ChunkingNext
      BY <2>2, MetaDataKeeps, ChunkKeeps DEF Cn!ChunkingNext
    <2> QED BY <2>1, <2>2
  <1> QED BY <1>1, <1>2, ChunkingIsAPart, PTL

\* chunking.rs, accept: a message whose metaData left is being waited for or
\* came to exactly one outcome, and one that left whole came to it, however the
\* packages of any number of messages interleave.
THEOREM MessagesAreTold == Spec => []EveryMessageIsTold
  <1>1. ASSUME ChunkingInv PROVE EveryMessageIsTold
    <2> SUFFICES ASSUME NEW m \in Cn!MessageIds
                 PROVE  LET ends == {k \in 1..Len(outcomes) : outcomes[k].id = m}
                            waiting == {k \in 1..Len(in_flight) : in_flight[k].id = m}
                        IN  /\ \A j, k \in ends : j = k
                            /\ packages[m] > 0 => (ends = {}) # (waiting = {})
                            /\ packages[m] > Bodies[m] => waiting = {}
      BY DEF EveryMessageIsTold, Cn!EveryMessageIsTold
    <2> DEFINE ends == {k \in 1..Len(outcomes) : outcomes[k].id = m}
               waiting == {k \in 1..Len(in_flight) : in_flight[k].id = m}
    <2>1. (ends = {} <=> m \notin Named(outcomes)) /\ (waiting = {} <=> m \notin Named(in_flight))
      BY DEF Named
    <2>2. \A j, k \in ends : j = k
      BY <1>1 DEF ChunkingInv, Once
    <2>3. packages[m] > 0 => (ends = {} <=> waiting # {})
      BY <1>1, <2>1 DEF ChunkingInv
    <2>4. packages[m] > Bodies[m] => waiting = {}
      <3> SUFFICES ASSUME packages[m] > Bodies[m], NEW k \in 1..Len(in_flight), in_flight[k].id = m
                   PROVE  FALSE
        OBVIOUS
      <3>1. Bodies[m] \in Nat /\ packages[m] \in Nat
        <4>1. Bodies \in Seq(Nat)
          BY PartsAssumption
        <4> QED BY <1>1, <4>1, ElementOfSeq DEF ChunkingInv, Cn!MessageIds
      <3>2. in_flight[k] \in Pending
        BY <1>1, ElementOfSeq DEF ChunkingInv
      <3>3. in_flight[k].received \in Nat /\ in_flight[k].received + 1 = packages[m]
            /\ in_flight[k].received < Bodies[m]
        BY <1>1, <3>2 DEF ChunkingInv, Pending
      <3> QED BY <3>1, <3>3
    <2> HIDE DEF ends, waiting
    <2>5. packages[m] > 0 => (ends = {}) # (waiting = {})
      BY <2>3
    <2> QED BY <2>2, <2>4, <2>5 DEF ends, waiting
  <1> QED BY <1>1, ChunkingInvariance, PTL
=============================================================================
