------------------------------ MODULE AutoProofs ------------------------------
(***************************************************************************)
(* connect-auto.  A request for whichever phone is opened first, for any   *)
(* links, however many: one candidate carries it, the chosen link answers. *)
(* The race of a request over the transports of a link, and the pairing    *)
(* over both: one transport sends, the wallet's answer and its link are    *)
(* kept, whatever order the arms of the two select! are ready in.          *)
(***************************************************************************)
EXTENDS MCAuto, VerdictProofs

-----------------------------------------------------------------------------
(* FirstOf: the request                                                    *)

\* A candidate that is past the choice is the chosen one, or listens for it;
\* a candidate that can only be stopped is never the chosen one.
ChosenInv ==
    /\ \A c \in Candidates :
          /\ st[c] \in {"connecting", "sending"} => choice = c
          /\ c \in WebrtcSide /\ st[c] = "listening" => choice = c
    /\ choice # Nobody =>
          /\ st[choice] \notin {"probing", "patient"}
          /\ st[choice] = "done" => chosenFailed # "none"

\* The answer came to a candidate of the chosen link that listens, or is
\* about to.
Listener(c) ==
    /\ c \in Siblings(choice) /\ came = {c}
    /\ st[c] = "listening" \/ (c \in IrohSide /\ st[c] = "patient")

\* Only the chosen link's wallet answers, and an answer that did not come too
\* early is with a listener until the call returns.
CameInv ==
    /\ phone # "none" => choice # Nobody
    /\ came # {} => phone = "decided"
    /\ \A c \in came : c \in Siblings(choice) /\ came = {c}
    /\ Racing /\ phone = "decided" /\ ~early => \E c \in Candidates : Listener(c)

EndedInv ==
    ~Racing =>
        /\ result.what # "none"
        /\ choice # Nobody => result.link = choice[1]
        /\ phone = "decided" => result.what = "ok" \/ early

IInv == TypeOK /\ ChosenInv /\ CameInv /\ EndedInv

-----------------------------------------------------------------------------
(* What the actions are built from *)

LEMMA CandidatesAre ==
    /\ Nobody \notin Candidates /\ Nobody \notin Link
    /\ \A c \in Candidates : c[1] \in Link /\ c \in Siblings(c)
    /\ Candidates = IrohSide \cup WebrtcSide
    /\ IrohSide \cap WebrtcSide = {}
  <1>1. \A c \in Candidates : c[1] \in Link /\ c[2] \in {Iroh, Webrtc}
    BY DEF Candidates, TransportsOf
  <1>2. Candidates = IrohSide \cup WebrtcSide /\ IrohSide \cap WebrtcSide = {}
    BY <1>1, FirstOfAssumption DEF IrohSide, WebrtcSide
  <1> QED BY <1>1, <1>2, NobodyAssumption DEF Siblings

\* Whatever a transport fails with has a reach and an error.
LEMMA WebrtcErrorsAreErrors ==
    ASSUME NEW c
    PROVE  /\ WebrtcErrorsIn(c) \subseteq WebrtcErrors
           /\ \A e \in WebrtcErrors :
                 WebrtcReach[e] \in Reaches /\ FromWebrtc(e) \in Errors
  <1>1. WebrtcErrorsIn(c) \subseteq WebrtcErrors
    BY DEF WebrtcErrorsIn, WebrtcErrors, WebrtcReach
  <1>2. ASSUME NEW e \in WebrtcErrors
        PROVE  WebrtcReach[e] \in Reaches /\ FromWebrtc(e) \in Errors
    <2>1. WebrtcReach[e] \in Reaches
      BY DEF Reaches
    <2> QED BY <2>1, OneFailureIsAnError DEF FromWebrtc
  <1> QED BY <1>1, <1>2

LEMMA IrohErrorsAreErrors ==
    ASSUME NEW c
    PROVE  /\ IrohErrorsIn(c) \subseteq IrohErrors
           /\ {"Session", "LinkBusy", "LinkRemoved", "WalletUnreachable"} \subseteq IrohErrors
           /\ \A e \in IrohErrors : IrohReach[e] \in Reaches /\ FromIroh(e) \in Errors
  <1>1. /\ IrohErrorsIn(c) \subseteq IrohErrors
        /\ {"Session", "LinkBusy", "LinkRemoved", "WalletUnreachable"} \subseteq IrohErrors
    BY DEF IrohErrorsIn, IrohErrors, IrohReach
  <1>2. ASSUME NEW e \in IrohErrors
        PROVE  IrohReach[e] \in Reaches /\ FromIroh(e) \in Errors
    <2>1. IrohReach[e] \in Reaches
      BY DEF Reaches
    <2> QED BY <2>1, OneFailureIsAnError DEF FromIroh
  <1> QED BY <1>1, <1>2

\* A candidate that is not a listener may drop what its transport holds.
LEMMA ListenersStay ==
    ASSUME IInv, Racing, NEW c \in Candidates, ~Reads(c), st[c] # "patient",
           NEW s, Moves(c, s), came' \in {came, came \ {c}},
           UNCHANGED <<choice, phone, early, result>>
    PROVE  CameInv'
  <1> USE CandidatesAre DEF IInv, TypeOK, Moves, Racing
  <1>1. \A d \in came' : d \in came
    OBVIOUS
  <1>2. ASSUME phone = "decided", ~early
        PROVE  \E d \in Candidates : Listener(d)'
    <2>1. PICK d \in Candidates : Listener(d)
      BY <1>2 DEF CameInv
    <2>2. d # c
      BY <2>1 DEF Listener, Reads
    <2>3. came' = came /\ st'[d] = st[d]
      BY <2>1, <2>2 DEF Listener
    <2> QED BY <2>1, <2>3 DEF Listener, Siblings
  <1> QED BY <1>1, <1>2 DEF CameInv, Siblings

\* A candidate that ends with a reach and an error keeps the invariant.
LEMMA EndsWithKeeps ==
    ASSUME IInv, Racing, NEW c \in Candidates, ~Reads(c), st[c] \notin {"done", "patient"},
           NEW reach \in Reaches, NEW error \in Errors,
           EndsWith(c, reach, error), came' \in {came, came \ {c}},
           UNCHANGED <<choice, sentBy, confirmed, phone, early, timeUp, result>>
    PROVE  IInv'
  <1> USE CandidatesAre, ErrorsAreErrors DEF IInv, EndsWith, Moves
  <1>1. TypeOK'
    BY DEF TypeOK, Stages
  <1>2. ChosenInv'
    BY DEF TypeOK, ChosenInv
  <1>3. CameInv'
    BY ListenersStay DEF TypeOK
  <1>4. EndedInv'
    BY DEF EndedInv, Racing, Waiting
  <1> QED BY <1>1, <1>2, <1>3, <1>4

LEMMA InitKeeps == Init => IInv
  <1> SUFFICES ASSUME Init PROVE IInv
    OBVIOUS
  <1>1. TypeOK
    <2>1. st \in [Candidates -> Stages]
      BY DEF Init, Stages
    <2>2. reaches \in Seq(Reaches)
      BY DEF Init
    <2>3. result \in [link : Link \cup {Nobody}, what : Errors \cup {"none", "ok"}]
      BY DEF Init, Waiting
    <2> QED BY <2>1, <2>2, <2>3 DEF Init, TypeOK
  <1>2. ChosenInv /\ CameInv /\ EndedInv
    BY DEF Init, ChosenInv, CameInv, EndedInv, Racing
  <1> QED BY <1>1, <1>2 DEF IInv

LEMMA NextKeeps == IInv /\ [Next]_vars => IInv'
  <1> SUFFICES ASSUME IInv, [Next]_vars PROVE IInv'
    OBVIOUS
  <1> USE CandidatesAre DEF IInv, mail
  <1>1. ASSUME NEW c \in Candidates, Answered(c) PROVE IInv'
    <2> USE <1>1 DEF Answered
    <2>1. TypeOK'
      BY DEF TypeOK
    <2>2. ChosenInv' /\ CameInv'
      BY DEF ChosenInv, CameInv, Listener, Racing, Siblings, Waiting
    <2>3. EndedInv'
      BY DEF EndedInv, CameInv, Siblings, TypeOK
    <2> QED BY <2>1, <2>2, <2>3
  <1>2. ASSUME NEW c \in Candidates, Stopped(c) PROVE IInv'
    <2> USE <1>2 DEF Stopped, Moves
    <2>1. TypeOK'
      BY DEF TypeOK, Stages
    <2>2. ChosenInv'
      BY DEF ChosenInv, TypeOK, Siblings
    <2>3. CameInv'
      BY DEF CameInv, ChosenInv, Listener, Racing, Siblings, TypeOK
    <2>4. EndedInv'
      BY DEF EndedInv, Racing
    <2> QED BY <2>1, <2>2, <2>3, <2>4
  <1>3. ASSUME NEW c \in Candidates, WebrtcOpens(c) PROVE IInv'
    <2> USE <1>3 DEF WebrtcOpens, Moves
    <2>1. TypeOK'
      BY DEF TypeOK, Stages
    <2>2. ChosenInv'
      BY DEF ChosenInv, TypeOK
    <2>3. CameInv'
      BY DEF CameInv, Listener, Racing, Siblings, TypeOK
    <2>4. EndedInv'
      BY DEF EndedInv, Racing
    <2> QED BY <2>1, <2>2, <2>3, <2>4
  <1>4. ASSUME NEW c \in Candidates, WebrtcClaims(c) PROVE IInv'
    <2> USE <1>4 DEF WebrtcClaims, Moves, Claims
    <2>1. TypeOK'
      BY DEF TypeOK, Stages
    <2>2. ChosenInv'
      BY DEF ChosenInv, TypeOK
    <2>3. CameInv'
      BY DEF CameInv, Listener, Racing, Siblings, TypeOK
    <2>4. EndedInv'
      BY DEF EndedInv, Racing
    <2> QED BY <2>1, <2>2, <2>3, <2>4
  <1>5. ASSUME NEW c \in Candidates, WebrtcReopens(c), c \in WebrtcSide PROVE IInv'
    <2> USE <1>5 DEF WebrtcReopens, Drops, Moves
    <2>1. TypeOK'
      BY DEF TypeOK, Stages
    <2>2. ChosenInv'
      BY DEF ChosenInv, TypeOK
    <2>3. CameInv'
      BY ListenersStay
    <2>4. EndedInv'
      BY DEF EndedInv, Racing
    <2> QED BY <2>1, <2>2, <2>3, <2>4
  <1>6. ASSUME NEW c \in Candidates, WebrtcFails(c) PROVE IInv'
    <2>1. PICK e \in WebrtcErrorsIn(c) : EndsWith(c, WebrtcReach[e], FromWebrtc(e))
      BY <1>6 DEF WebrtcFails
    <2>2. st[c] \notin {"done", "patient"}
      BY <2>1 DEF WebrtcErrorsIn
    <2> QED
      BY <1>6, <2>1, <2>2, EndsWithKeeps, WebrtcErrorsAreErrors DEF WebrtcFails, Drops
  <1>7. ASSUME NEW c \in Candidates, IrohConnects(c), c \in IrohSide PROVE IInv'
    <2> USE <1>7 DEF IrohConnects, Moves
    <2>1. TypeOK'
      BY DEF TypeOK, Stages
    <2>2. ChosenInv'
      BY DEF ChosenInv, TypeOK
    <2>3. CameInv'
      BY DEF CameInv, Listener, Racing, Siblings, TypeOK
    <2>4. EndedInv'
      BY DEF EndedInv, Racing
    <2> QED BY <2>1, <2>2, <2>3, <2>4
  <1>8. ASSUME NEW c \in Candidates, ProbeFails(c) PROVE IInv'
    <2>1. PICK e \in IrohErrors : EndsWith(c, IrohReach[e], FromIroh(e))
      BY <1>8, IrohErrorsAreErrors DEF ProbeFails
    <2> QED BY <1>8, <2>1, EndsWithKeeps, IrohErrorsAreErrors DEF ProbeFails, Reads
  <1>9. ASSUME NEW c \in Candidates, IrohClaims(c) PROVE IInv'
    <2> USE <1>9 DEF IrohClaims, Moves, Claims
    <2>1. TypeOK'
      BY DEF TypeOK, Stages
    <2>2. ChosenInv'
      BY DEF ChosenInv, TypeOK
    <2>3. CameInv'
      BY DEF CameInv, ChosenInv, Listener, Racing, Siblings, TypeOK
    <2>4. EndedInv'
      BY DEF EndedInv, Racing
    <2> QED BY <2>1, <2>2, <2>3, <2>4
  <1>10. ASSUME NEW c \in Candidates, IrohListens(c), c \in IrohSide PROVE IInv'
    <2> USE <1>10 DEF IrohListens, Moves
    <2>1. TypeOK'
      BY DEF TypeOK, Stages
    <2>2. ChosenInv'
      BY DEF ChosenInv, TypeOK
    <2>3. CameInv'
      BY DEF CameInv, Listener, Racing, Siblings, TypeOK
    <2>4. EndedInv'
      BY DEF EndedInv, Racing
    <2> QED BY <2>1, <2>2, <2>3, <2>4
  <1>11. ASSUME NEW c \in Candidates, IrohSends(c) PROVE IInv'
    <2> USE <1>11 DEF IrohSends, Moves
    <2>1. TypeOK'
      BY DEF TypeOK, Stages
    <2>2. ChosenInv'
      BY DEF ChosenInv, TypeOK
    <2>3. CameInv'
      BY DEF CameInv, Listener, Racing, Siblings, TypeOK
    <2>4. EndedInv'
      BY DEF EndedInv, Racing
    <2> QED BY <2>1, <2>2, <2>3, <2>4
  <1>12. ASSUME NEW c \in Candidates, IrohFails(c) PROVE IInv'
    <2>1. PICK e \in IrohErrorsIn(c) :
              IF choice = c THEN EndsWith(c, IrohReach[e], FromIroh(e))
                            ELSE Moves(c, "done") /\ UNCHANGED <<reaches, chosenFailed>>
      BY <1>12 DEF IrohFails
    <2>2. st[c] \notin {"done", "patient"}
      BY <2>1 DEF IrohErrorsIn
    <2>3. CASE choice = c
      BY <1>12, <2>1, <2>2, <2>3, EndsWithKeeps, IrohErrorsAreErrors DEF IrohFails, Drops
    <2>4. CASE choice # c
      <3> USE <1>12, <2>1, <2>2, <2>4 DEF IrohFails, Drops, Moves
      <3>1. TypeOK'
        BY DEF TypeOK, Stages
      <3>2. ChosenInv'
        BY DEF ChosenInv, TypeOK
      <3>3. CameInv'
        BY ListenersStay
      <3>4. EndedInv'
        BY DEF EndedInv, Racing
      <3> QED BY <3>1, <3>2, <3>3, <3>4
    <2> QED BY <2>3, <2>4
  <1>13. ASSUME NEW c \in Candidates, Confirmed(c) PROVE IInv'
    <2> USE <1>13 DEF Confirmed, Listens, Moves
    <2>1. TypeOK'
      BY DEF TypeOK, Stages
    <2>2. ChosenInv'
      BY DEF ChosenInv, TypeOK
    <2>3. CameInv'
      <3>1. CASE c \in came
        <4>1. Listener(c)'
          BY <3>1 DEF CameInv, Listener, Siblings, TypeOK
        <4> QED BY <4>1 DEF CameInv, Siblings
      <3>2. CASE c \notin came
        BY <3>2 DEF CameInv, Listener, Racing, Siblings, TypeOK
      <3> QED BY <3>1, <3>2
    <2>4. EndedInv'
      BY DEF EndedInv, Racing
    <2> QED BY <2>1, <2>2, <2>3, <2>4
  <1>14. CASE AllDone
    <2> USE <1>14 DEF AllDone
    <2>1. Unreachable(reaches) \in Errors
      BY UnreachableIsAnError DEF TypeOK
    <2>2. TypeOK'
      BY <2>1 DEF TypeOK
    <2>3. phone = "decided" => early
      BY DEF CameInv, Listener
    <2>4. ChosenInv' /\ CameInv'
      BY <2>3 DEF ChosenInv, CameInv, Siblings
    <2>5. EndedInv'
      BY <2>1, <2>3, ErrorsAreErrors DEF EndedInv, ChosenInv, TypeOK
    <2> QED BY <2>2, <2>4, <2>5
  <1>15. CASE WalletReceives
    <2> USE <1>15 DEF WalletReceives
    <2>1. TypeOK'
      BY DEF TypeOK
    <2>2. ChosenInv' /\ CameInv' /\ EndedInv'
      BY DEF ChosenInv, CameInv, Listener, Siblings, EndedInv, Racing
    <2> QED BY <2>1, <2>2
  <1>16. CASE WalletAnswers
    <2>1. PICK c \in Siblings(choice) :
              Up(c) /\ came' = {c} /\ early' = (choice = c /\ st[c] # "listening")
      BY <1>16 DEF WalletAnswers
    <2> USE <1>16, <2>1 DEF WalletAnswers
    <2>2. TypeOK'
      BY DEF TypeOK, Siblings
    <2>3. ChosenInv' /\ EndedInv'
      BY DEF ChosenInv, EndedInv, Racing
    <2>4. c \in Candidates /\ (early' \/ st[c] = "listening" \/ (c \in IrohSide /\ st[c] = "patient"))
      BY DEF Up, ChosenInv, Siblings
    <2>5. Listener(c)' \/ early'
      BY <2>4 DEF Listener, Siblings
    <2>6. CameInv'
      BY <2>4, <2>5 DEF CameInv, Siblings
    <2> QED BY <2>2, <2>3, <2>6
  <1>17. CASE TimeUp
    BY <1>17 DEF TimeUp, TypeOK, ChosenInv, CameInv, Listener, Siblings, EndedInv, Racing
  <1>18. CASE Ended \/ UNCHANGED vars
    BY <1>18 DEF Ended, vars, TypeOK, ChosenInv, CameInv, Listener, Siblings, EndedInv, Racing
  <1>19. ASSUME NEW c \in Candidates, IrohUncertain(c), c \in IrohSide PROVE IInv'
    <2> USE <1>19 DEF IrohUncertain, Listens, Moves
    <2>1. TypeOK'
      BY DEF TypeOK, Stages
    <2>2. ChosenInv'
      BY DEF ChosenInv, TypeOK
    <2>3. CameInv'
      <3>1. CASE c \in came
        <4>1. Listener(c)'
          BY <3>1 DEF CameInv, Listener, Siblings, TypeOK
        <4> QED BY <4>1 DEF CameInv, Siblings
      <3>2. CASE c \notin came
        BY <3>2 DEF CameInv, Listener, Racing, Siblings, TypeOK
      <3> QED BY <3>1, <3>2
    <2>4. EndedInv'
      BY DEF EndedInv, Racing
    <2> QED BY <2>1, <2>2, <2>3, <2>4
  <1> QED
    BY <1>1, <1>2, <1>3, <1>4, <1>5, <1>6, <1>7, <1>8, <1>9, <1>10, <1>11, <1>12, <1>13,
       <1>14, <1>15, <1>16, <1>17, <1>18, <1>19 DEF Next, CandidateStep

-----------------------------------------------------------------------------
(* What follows for the whole behaviour *)

LEMMA Invariance == Spec => []IInv
  BY InitKeeps, NextKeeps, PTL DEF Spec

\* Every variable holds a value of its kind, for any links.
THEOREM TypeCorrect == Spec => []TypeOK
  BY Invariance, PTL DEF IInv

\* first.rs: once a candidate was chosen the call answers for its link,
\* whatever the others do.
THEOREM ChosenAnswers == Spec => []TheChosenAnswers
  <1>1. IInv => TheChosenAnswers
    BY DEF IInv, EndedInv, TheChosenAnswers
  <1> QED BY <1>1, Invariance, PTL

\* first.rs: the chosen phone's answer is returned, over whichever of its
\* transports it came, unless it came to the carrier before that listened.
THEOREM AnswerIsKept == Spec => []NoAnswerIsLost
  <1>1. IInv => NoAnswerIsLost
    BY DEF IInv, EndedInv, NoAnswerIsLost
  <1> QED BY <1>1, Invariance, PTL

\* first.rs, claim: of any number of links over their transports, only the
\* candidate that was chosen is ever given the request.  Every step of
\* FirstOf is a step of OneCarrier, or changes nothing of it.
LEMMA StepCarries == IInv /\ [Next]_vars => [Carried!Next]_(Carried!vars)
  <1> SUFFICES ASSUME IInv, [Next]_vars PROVE [Carried!Next]_(Carried!vars)
    OBVIOUS
  <1> USE CandidatesAre DEF Carried!vars
  <1>1. ASSUME UNCHANGED <<choice, sentBy, result>> PROVE UNCHANGED Carried!vars
    BY <1>1 DEF Racing
  <1>2. ASSUME Racing, ~Racing', UNCHANGED <<choice, sentBy>> PROVE Carried!End
    BY <1>2 DEF Carried!End
  <1>3. ASSUME NEW c \in Candidates, WebrtcClaims(c) PROVE Carried!Send(c)
    BY <1>3 DEF WebrtcClaims, Claims, Carried!Send, Racing
  <1>4. ASSUME NEW c \in Candidates, IrohSends(c) PROVE Carried!Send(c)
    BY <1>4 DEF IrohSends, IInv, ChosenInv, Carried!Send, Racing
  <1>5. ASSUME NEW c \in Candidates, IrohClaims(c)
        PROVE  Carried!Choose(c) \/ UNCHANGED Carried!vars
    BY <1>5 DEF IrohClaims, Claims, Carried!Choose, Racing
  <1>6. ASSUME NEW c \in Candidates, Answered(c) PROVE Carried!End
    BY <1>2, <1>6 DEF Answered, Racing, Waiting
  <1>7. CASE AllDone
    <2>1. Unreachable(reaches) # "none"
      BY UnreachableIsAnError, ErrorsAreErrors DEF IInv, TypeOK
    <2>2. ~Racing'
      BY <1>7, <2>1 DEF AllDone, Racing, Waiting
    <2> QED BY <1>2, <1>7, <2>2 DEF AllDone, Carried!Next
  <1>8. ASSUME NEW c \in Candidates,
               \/ Stopped(c) \/ WebrtcOpens(c) \/ WebrtcReopens(c) \/ WebrtcFails(c)
               \/ IrohConnects(c) \/ ProbeFails(c) \/ IrohListens(c) \/ IrohFails(c)
               \/ IrohUncertain(c) \/ Confirmed(c)
        PROVE  UNCHANGED Carried!vars
    BY <1>1, <1>8 DEF Stopped, WebrtcOpens, WebrtcReopens, WebrtcFails, IrohConnects,
                      ProbeFails, IrohListens, IrohFails, IrohUncertain, Confirmed
  <1>9. CASE WalletReceives \/ WalletAnswers \/ TimeUp \/ Ended \/ UNCHANGED vars
    BY <1>1, <1>9 DEF WalletReceives, WalletAnswers, TimeUp, Ended, vars
  <1> QED
    BY <1>3, <1>4, <1>5, <1>6, <1>7, <1>8, <1>9 DEF Next, CandidateStep, Carried!Next

THEOREM OneCarrierSends == Spec => OneCarries
  <1>1. Init => Carried!Init
    BY DEF Init, Carried!Init, Racing
  <1> QED BY <1>1, Invariance, StepCarries, PTL DEF Spec, OneCarries, Carried!Spec

-----------------------------------------------------------------------------
(* Race: the call                                                          *)

RaceTypes ==
    /\ connected \in BOOLEAN /\ unread \in BOOLEAN /\ raceConfirmed \in BOOLEAN
    /\ task \in {"begin", "racing", "overWebrtc", "overIroh", "awaitingIroh", "returned"}
    /\ failed \subseteq {Iroh, Webrtc}
    /\ webrtc \in {"opening", "grace", "sending", "listening", "gone"}
    /\ racePhone \in {"none", "waiting", "decided"}
    /\ raceCame \subseteq {Iroh, Webrtc} /\ raceEarly \in BOOLEAN
    /\ iroh \in {"connecting", "sending", "listening", "gone"}

\* Who carries the request, and who may still, wherever the call is.
PlaceInv ==
    /\ task = "begin" =>
         carrier = Nobody /\ failed = {} /\ webrtc = "gone" /\ iroh = "gone"
         /\ answer = "gone" /\ (connected => Iroh \in plan)
    /\ task = "racing" =>
         plan = {Iroh, Webrtc} /\ carrier \in {Nobody, Webrtc} /\ iroh = "gone"
         /\ (connected => probe = "ok" \/ answer = "listening")
    /\ task = "overWebrtc" =>
         carrier = Webrtc /\ ~connected /\ iroh = "gone" /\ answer = "gone"
    /\ task = "overIroh" =>
         carrier = Iroh /\ webrtc = "gone" /\ Webrtc \notin raceCame
         /\ iroh # "gone" /\ (iroh = "connecting" => racePhone = "none")
    /\ task = "awaitingIroh" =>
         carrier = Webrtc /\ webrtc = "gone" /\ iroh = "gone" /\ Webrtc \notin raceCame

\* WebRTC's conversation is past its grace only as the carrier: the opening of
\* its channel was read before it was polled again.
WebrtcInv ==
    /\ webrtc # "gone" => Webrtc \notin failed
    /\ webrtc = "grace" => unread \/ carrier = Webrtc
    /\ webrtc \in {"sending", "listening"} =>
         carrier # Nobody /\ (unread \/ carrier = Webrtc)
    /\ raceConfirmed \/ racePhone # "none" => carrier # Nobody

\* An answer that did not come too early is with a transport that listens,
\* or is about to.
AnswerInv ==
    /\ raceCame # {} => racePhone = "decided"
    /\ task # "returned" /\ racePhone = "decided" /\ ~raceEarly =>
         /\ raceCame # {}
         /\ Webrtc \in raceCame => webrtc = "listening"
         /\ task = "overIroh" => iroh = "listening"
    /\ task \notin {"overIroh", "returned"} =>
         /\ Webrtc \in raceCame => webrtc \in {"grace", "sending", "listening"}
         /\ Iroh \in raceCame => connected \/ answer = "listening"

RaceInv ==
    /\ RaceTypes /\ PlaceInv /\ WebrtcInv /\ AnswerInv
    /\ RaceKeepsTheAnswer /\ AFailureLeavesTheOther

USE FirstOfAssumption, NoTransportAssumption

\* The race starts within its invariant, and no step of it leaves it.
LEMMA RaceInit == R!Init => RaceInv
  BY DEF R!Init, RaceInv, RaceTypes, PlaceInv, WebrtcInv, AnswerInv, RaceKeepsTheAnswer,
         R!NoAnswerIsLost, AFailureLeavesTheOther, R!AFailureLeavesTheOther

\* No step of the race leaves its invariant: one case per arm of the select!.
LEMMA RaceStep == RaceInv /\ [R!Next]_(R!vars) => RaceInv'
  <1> SUFFICES ASSUME RaceInv, [R!Next]_(R!vars) PROVE RaceInv'
    OBVIOUS
  <1> USE DEF RaceInv, RaceTypes, PlaceInv, WebrtcInv, AnswerInv, RaceKeepsTheAnswer,
              R!NoAnswerIsLost, AFailureLeavesTheOther, R!AFailureLeavesTheOther,
              R!wire, R!Transports, R!Return, R!WebrtcDrops, R!WebrtcAnswered
  <1>1. CASE R!Begin
    BY <1>1 DEF R!Begin
  <1>2. CASE R!IrohFirst
    BY <1>2 DEF R!IrohFirst, R!Ready
  <1>3. CASE R!IrohListens
    BY <1>3 DEF R!IrohListens, R!Ready
  <1>4. CASE R!IrohFails
    <2>1. task = "racing" /\ probe # "ok" /\ (connected => answer = "listening")
      BY <1>4 DEF R!IrohFails, R!IrohErrors, R!IrohReach
    <2>2. CASE probe = "LinkRemoved"
      BY <1>4, <2>1, <2>2 DEF R!IrohFails
    <2>3. CASE carrier = Nobody /\ R!Lost(Iroh, R!IrohReach[probe]) /\ UNCHANGED webrtc
      BY <1>4, <2>1, <2>3 DEF R!IrohFails, R!Lost, R!OthersTry
    <2>4. CASE carrier # Nobody /\ UNCHANGED <<task, outcome, failed, webrtc>>
      BY <1>4, <2>1, <2>4 DEF R!IrohFails
    <2> QED
      BY <1>4, <2>2, <2>3, <2>4 DEF R!IrohFails
  <1>5. CASE R!IrohAnswers
    BY <1>5 DEF R!IrohAnswers, R!ProbeReady, R!AnswerReady
  <1>6. CASE R!ReadStep
    BY <1>6 DEF R!ReadStep, R!Ready
  <1>7. CASE R!WebrtcOpens
    BY <1>7 DEF R!WebrtcOpens, R!Polled
  <1>8. CASE R!WebrtcSends
    BY <1>8 DEF R!WebrtcSends, R!Polled
  <1>9. CASE R!WebrtcConfirmed
    BY <1>9 DEF R!WebrtcConfirmed, R!Polled, R!HearsFrom
  <1>10. CASE R!WebrtcReopens
    BY <1>10 DEF R!WebrtcReopens, R!Polled
  <1>11. CASE R!WebrtcAnswers
    BY <1>11 DEF R!WebrtcAnswers, R!WebrtcAnswered, R!Polled
  <1>12. CASE R!WebrtcFails
    <2>1. PICK e \in R!WebrtcErrorsNow : R!CarrierFails(e) \/ R!RacerFails(e)
      BY <1>12 DEF R!WebrtcFails
    <2>2. webrtc # "gone" /\ (Webrtc \in raceCame => raceEarly)
      BY <1>12, <2>1 DEF R!WebrtcFails, R!WebrtcErrorsNow, R!Polled
    <2>3. CASE R!CarrierFails(e)
      BY <1>12, <2>2, <2>3 DEF R!WebrtcFails, R!CarrierFails, R!Polled, R!ProbeReady
    <2>4. CASE R!RacerFails(e) /\ e = "LinkRemoved"
      BY <1>12, <2>2, <2>4 DEF R!WebrtcFails, R!RacerFails, R!Polled
    <2>5. CASE R!RacerFails(e) /\ e # "LinkRemoved"
      <3>1. task = "racing" /\ carrier = Nobody /\ raceCame = {}
        BY <2>5 DEF R!RacerFails
      <3>2. /\ webrtc' = "gone" /\ unread' = FALSE
            /\ raceCame' = {}
            /\ UNCHANGED <<plan, connected, carrier, probe, answer, iroh, sentOver,
                           raceConfirmed, racePhone, raceEarly, raceTimeUp>>
        BY <1>12, <3>1 DEF R!WebrtcFails
      <3>3. failed' = failed \cup {Webrtc}
        BY <2>5 DEF R!RacerFails, R!Lost
      <3>4. task' = "racing" \/ (task' = "returned" /\ failed' = plan)
        BY <3>1, <3>2, <2>5 DEF R!RacerFails, R!Lost, R!OthersTry
      <3> QED BY <3>1, <3>2, <3>3, <3>4
    <2> QED
      BY <2>1, <2>3, <2>4, <2>5
  <1>13. CASE R!AwaitIroh
    BY <1>13 DEF R!AwaitIroh
  <1>14. CASE R!Deadline
    BY <1>14 DEF R!Deadline, R!WebrtcAnswered, R!Polled, R!ProbeReady, R!AnswerReady
  <1>15. CASE R!IrohSends
    BY <1>15 DEF R!IrohSends
  <1>16. CASE R!IrohConfirmed
    BY <1>16 DEF R!IrohConfirmed, R!HearsFrom
  <1>17. CASE R!IrohEnds
    BY <1>17 DEF R!IrohEnds, R!IrohAnswered
  <1>18. CASE R!ProbeEnds
    <2>1. probe = "running" /\ (connected => answer = "listening")
      BY <1>18 DEF R!ProbeEnds
    <2>2. UNCHANGED <<plan, task, carrier, failed, answer, webrtc, unread, iroh, R!wire,
                      raceTimeUp, outcome>>
      BY <1>18 DEF R!ProbeEnds
    <2>3. task = "racing"
      BY <1>18 DEF R!ProbeEnds
    <2>4. CASE probe' = "ok" /\ connected' = TRUE
      BY <2>1, <2>2, <2>3, <2>4
    <2>5. CASE UNCHANGED connected
      BY <2>1, <2>2, <2>3, <2>5
    <2> QED
      BY <1>18, <2>4, <2>5 DEF R!ProbeEnds
  <1>19. CASE R!WalletReceives
    BY <1>19 DEF R!WalletReceives
  <1>20. CASE R!WalletAnswers
    <2>1. /\ racePhone = "waiting" /\ racePhone' = "decided" /\ task # "returned"
          /\ UNCHANGED <<plan, connected, task, carrier, failed, probe, answer, webrtc, unread,
                         iroh, sentOver, raceConfirmed, raceTimeUp, outcome>>
      BY <1>20 DEF R!WalletAnswers
    <2>2. CASE /\ webrtc \in {"grace", "sending", "listening"} /\ raceCame' = {Webrtc}
               /\ raceEarly' = (webrtc # "listening")
      BY <2>1, <2>2
    <2>3. CASE connected /\ raceCame' = {Iroh} /\ raceEarly' = (iroh = "sending")
      BY <2>1, <2>3
    <2> QED
      BY <1>20, <2>2, <2>3 DEF R!WalletAnswers
  <1>21. CASE R!TimeUp
    BY <1>21 DEF R!TimeUp
  <1>22. CASE R!Ended \/ UNCHANGED R!vars
    BY <1>22 DEF R!Ended, R!vars
  <1>23. CASE R!IrohUncertain
    BY <1>23 DEF R!IrohUncertain, R!HearsFrom
  <1> QED
    BY <1>1, <1>2, <1>3, <1>4, <1>5, <1>6, <1>7, <1>8, <1>9, <1>10, <1>11, <1>12, <1>13,
       <1>14, <1>15, <1>16, <1>17, <1>18, <1>19, <1>20, <1>21, <1>22, <1>23
    DEF R!Next, R!Call

\* race.rs, CarrierRace: every step of the race is a step of OneCarrier, or
\* changes nothing of it.
LEMMA RaceStepCarries ==
    RaceInv /\ [R!Next]_(R!vars) => [R!Carried!Next]_(R!Carried!vars)
  <1> SUFFICES ASSUME RaceInv, [R!Next]_(R!vars) PROVE [R!Carried!Next]_(R!Carried!vars)
    OBVIOUS
  <1> USE DEF RaceInv, R!Carried!vars, R!Transports
  <1>1. ASSUME UNCHANGED <<carrier, sentOver, task>> PROVE UNCHANGED R!Carried!vars
    BY <1>1
  <1>2. ASSUME task # "returned", UNCHANGED <<carrier, sentOver>>
        PROVE  [R!Carried!End]_(R!Carried!vars)
    BY <1>2 DEF R!Carried!End
  <1>3. CASE R!WebrtcSends
    <2>1. carrier = Webrtc /\ task # "returned"
      BY <1>3 DEF R!WebrtcSends, R!Polled, PlaceInv, WebrtcInv
    <2>2. R!Carried!Send(Webrtc)
      BY <1>3, <2>1 DEF R!WebrtcSends, R!Carried!Send
    <2> QED BY <2>2 DEF R!Carried!Next
  <1>4. CASE R!IrohSends
    <2>1. R!Carried!Send(Iroh)
      BY <1>4 DEF R!IrohSends, R!Carried!Send, PlaceInv
    <2> QED BY <2>1 DEF R!Carried!Next
  <1>5. CASE R!Begin
    <2>1. R!Carried!Choose(Webrtc) \/ R!Carried!Choose(Iroh) \/ UNCHANGED R!Carried!vars
      BY <1>5 DEF R!Begin, R!Carried!Choose, PlaceInv, R!wire
    <2> QED BY <2>1 DEF R!Carried!Next
  <1>6. CASE R!IrohFirst
    <2>1. R!Carried!Choose(Iroh)
      BY <1>6 DEF R!IrohFirst, R!Ready, R!Carried!Choose, R!wire
    <2> QED BY <2>1 DEF R!Carried!Next
  <1>7. CASE R!ReadStep
    <2>1. R!Carried!Choose(Webrtc) \/ UNCHANGED R!Carried!vars
      BY <1>7 DEF R!ReadStep, R!Ready, R!Carried!Choose, R!wire
    <2> QED BY <2>1 DEF R!Carried!Next
  <1>8. CASE \/ R!IrohFails \/ R!IrohAnswers \/ R!WebrtcAnswers \/ R!WebrtcFails
             \/ R!AwaitIroh \/ R!Deadline \/ R!IrohEnds
    <2>1. task # "returned" /\ UNCHANGED <<carrier, sentOver>>
      BY <1>8 DEF R!IrohFails, R!IrohAnswers, R!WebrtcAnswers, R!WebrtcFails, R!Polled,
                  R!AwaitIroh, R!Deadline, R!IrohEnds, R!WebrtcDrops, R!wire
    <2> QED BY <1>2, <2>1 DEF R!Carried!Next
  <1>9. CASE \/ R!IrohListens \/ R!WebrtcOpens \/ R!WebrtcConfirmed \/ R!WebrtcReopens
             \/ R!IrohConfirmed \/ R!IrohUncertain \/ R!ProbeEnds \/ R!WalletReceives \/ R!WalletAnswers
             \/ R!TimeUp \/ R!Ended \/ UNCHANGED R!vars
    BY <1>1, <1>9 DEF R!IrohListens, R!WebrtcOpens, R!WebrtcConfirmed, R!WebrtcReopens,
                      R!IrohConfirmed, R!IrohUncertain, R!ProbeEnds, R!WalletReceives,
                      R!WalletAnswers, R!TimeUp, R!Ended, R!vars, R!WebrtcDrops, R!wire
  <1> QED
    BY <1>3, <1>4, <1>5, <1>6, <1>7, <1>8, <1>9 DEF R!Next, R!Call

\* How far each transport got is told in order, and one that is gone before
\* anything carried the request has failed.
ReachInv ==
    /\ raceReaches \in Seq(Reaches) /\ probe \in {"running", "ok", "gone"} \cup IrohErrors
    /\ task = "begin" => probe = "gone"
    /\ task = "racing" /\ carrier = Nobody =>
         /\ answer = "gone"
         /\ probe = "gone" <=> Iroh \in failed
         /\ webrtc = "gone" <=> Webrtc \in failed

SayInv == ReachInv /\ RaceSaysNoNetwork

\* The race tells what Error::unreachable does.
LEMMA RaceVerdict ==
    ASSUME NEW rs \in Seq(Reaches)
    PROVE  /\ R!Unreachable(rs) = Unreachable(rs)
           /\ R!Unreachable(rs) = "NoNetwork" =>
                 rs # <<>> /\ \A i \in DOMAIN rs : rs[i] = "NoNetwork"
  <1>1. R!Unreachable(rs) = Unreachable(rs)
    BY DEF R!Unreachable, Unreachable, R!Reached, Reached
  <1> QED BY <1>1, NoNetworkIsUnanimous

\* A transport that is lost adds how far it got.
LEMMA LostSays ==
    ASSUME RaceInv, SayInv, task = "racing", carrier = Nobody,
           NEW t \in {Iroh, Webrtc}, NEW reach \in Reaches, R!Lost(t, reach),
           t = Iroh => probe # "ok" /\ probe' = "gone" /\ UNCHANGED webrtc,
           t = Webrtc => ~R!ProbeReady /\ webrtc' = "gone" /\ UNCHANGED probe,
           UNCHANGED <<plan, connected, carrier, answer>>
    PROVE  SayInv'
  <1> USE DEF RaceInv, PlaceInv, RaceTypes, SayInv, ReachInv, R!Lost, R!OthersTry
  <1>1. Append(raceReaches, reach) \in Seq(Reaches)
    OBVIOUS
  <1>2. ReachInv'
    BY <1>1 DEF R!Return
  <1>3. CASE task' = "returned" /\ outcome' = "NoNetwork"
    <2>1. failed' = plan /\ R!Unreachable(raceReaches') = "NoNetwork"
      BY <1>3 DEF R!Return
    <2>2. \A i \in DOMAIN raceReaches' : raceReaches'[i] = "NoNetwork"
      BY <1>1, <2>1, RaceVerdict
    <2>3. ~connected
      BY <2>1 DEF R!ProbeReady
    <2> QED BY <1>2, <2>1, <2>2, <2>3 DEF RaceSaysNoNetwork, R!NoNetworkIsExact
  <1>4. CASE ~(task' = "returned" /\ outcome' = "NoNetwork")
    BY <1>2, <1>4 DEF RaceSaysNoNetwork, R!NoNetworkIsExact
  <1> QED BY <1>3, <1>4

\* The race starts and goes on telling no network only of both transports.
LEMMA SayInit == R!Init => SayInv
  BY DEF R!Init, SayInv, ReachInv, RaceSaysNoNetwork, R!NoNetworkIsExact

LEMMA SayStep == RaceInv /\ SayInv /\ [R!Next]_(R!vars) => SayInv'
  <1> SUFFICES ASSUME RaceInv, SayInv, [R!Next]_(R!vars) PROVE SayInv'
    OBVIOUS
  <1>1. CASE R!IrohFails
    <2>1. /\ task = "racing" /\ probe \in R!IrohErrors /\ probe' = "gone"
          /\ UNCHANGED <<plan, connected, carrier, answer, unread, iroh>>
      BY <1>1 DEF R!IrohFails
    <2>2. probe \in IrohErrors /\ R!IrohReach = IrohReach /\ probe # "ok"
      BY <2>1 DEF R!IrohErrors, R!IrohReach, IrohErrors, IrohReach
    <2>3. CASE R!Return("LinkRemoved") /\ UNCHANGED raceReaches
      BY <2>1, <2>3 DEF R!Return, SayInv, ReachInv, RaceSaysNoNetwork, R!NoNetworkIsExact
    <2>4. CASE carrier = Nobody /\ R!Lost(Iroh, R!IrohReach[probe]) /\ UNCHANGED webrtc
      <3>1. IrohReach[probe] \in Reaches
        BY <2>2, IrohErrorsAreErrors
      <3> QED BY <2>1, <2>2, <2>4, <3>1, LostSays
    <2>5. CASE carrier # Nobody /\ UNCHANGED <<task, outcome, failed, raceReaches, webrtc>>
      BY <2>1, <2>5 DEF SayInv, ReachInv, RaceSaysNoNetwork, R!NoNetworkIsExact
    <2> QED BY <1>1, <2>3, <2>4, <2>5 DEF R!IrohFails
  <1>2. CASE R!WebrtcFails
    <2>1. PICK e \in R!WebrtcErrorsNow : R!CarrierFails(e) \/ R!RacerFails(e)
      BY <1>2 DEF R!WebrtcFails
    <2>2. /\ R!Polled /\ webrtc' = "gone"
          /\ UNCHANGED <<plan, connected, carrier, probe, answer, iroh>>
      BY <1>2 DEF R!WebrtcFails
    <2>3. CASE R!CarrierFails(e)
      <3>1. carrier # Nobody /\ task' # "begin" /\ UNCHANGED raceReaches
        BY <2>3, NoTransportAssumption DEF R!CarrierFails, R!Return, RaceInv, PlaceInv
      <3> QED BY <2>2, <3>1 DEF SayInv, ReachInv, RaceSaysNoNetwork, R!NoNetworkIsExact
    <2>4. CASE R!RacerFails(e)
      <3>1. task = "racing" /\ carrier = Nobody /\ ~R!ProbeReady
        BY <2>2, <2>4 DEF R!RacerFails, R!Polled, RaceInv, PlaceInv
      <3>2. CASE R!Return("LinkRemoved") /\ UNCHANGED <<failed, raceReaches>>
        BY <2>2, <3>1, <3>2 DEF R!Return, SayInv, ReachInv, RaceSaysNoNetwork, R!NoNetworkIsExact
      <3>3. CASE R!Lost(Webrtc, R!WebrtcReach[e])
        <4>1. R!WebrtcReach[e] \in Reaches
          <5>1. e \in WebrtcErrors /\ R!WebrtcReach = WebrtcReach
            BY DEF R!WebrtcErrorsNow, R!WebrtcErrors, R!WebrtcReach, WebrtcErrors, WebrtcReach
          <5> QED BY <5>1, WebrtcErrorsAreErrors
        <4> QED BY <2>2, <3>1, <3>3, <4>1, LostSays
      <3> QED BY <2>4, <3>2, <3>3 DEF R!RacerFails
    <2> QED BY <2>1, <2>3, <2>4
  <1>3. CASE R!Deadline
    <2> DEFINE rs == raceReaches \o R!StillTrying
    <2>1. /\ task = "racing" /\ raceReaches' = rs /\ task' = "returned"
          /\ outcome' = R!Unreachable(rs) /\ ~R!ProbeReady
          /\ UNCHANGED <<plan, connected, carrier, failed, probe, answer, webrtc>>
      BY <1>3 DEF R!Deadline, R!Return, R!Polled
    <2>2. R!StillTrying \in Seq(Reaches)
      <3>1. "Absent" \in Reaches
        BY DEF Reaches, IrohErrors, IrohReach
      <3> QED BY <3>1 DEF R!StillTrying
    <2>3. rs \in Seq(Reaches)
      BY <2>2 DEF SayInv, ReachInv
    <2>4. ReachInv'
      BY <2>1, <2>3 DEF SayInv, ReachInv
    <2>5. CASE carrier = Nobody /\ R!Unreachable(rs) = "NoNetwork"
      <3>1. \A i \in DOMAIN rs : rs[i] = "NoNetwork"
        BY <2>3, <2>5, RaceVerdict
      <3>2. R!StillTrying = <<>>
        <4>1. CASE R!StillTrying # <<>>
          <5>1. rs[Len(raceReaches) + 1] = "Absent" /\ Len(raceReaches) + 1 \in DOMAIN rs
            BY <2>2, <4>1 DEF R!StillTrying, SayInv, ReachInv
          <5> QED BY <3>1, <5>1
        <4> QED BY <4>1
      <3>3. (probe = "gone" \/ Iroh \in failed) /\ (webrtc = "gone" \/ Webrtc \in failed)
        BY <3>2 DEF R!StillTrying
      <3>4. failed = plan /\ ~connected
        BY <2>1, <2>5, <3>3 DEF SayInv, ReachInv, RaceInv, RaceTypes, PlaceInv
      <3> QED BY <2>1, <2>4, <3>1, <3>4 DEF SayInv, RaceSaysNoNetwork, R!NoNetworkIsExact
    <2>6. CASE ~(carrier = Nobody /\ R!Unreachable(rs) = "NoNetwork")
      BY <2>1, <2>4, <2>6 DEF SayInv, RaceSaysNoNetwork, R!NoNetworkIsExact
    <2> QED BY <2>5, <2>6
  <1>4. CASE R!Begin \/ R!IrohFirst \/ R!IrohListens \/ R!ReadStep \/ R!IrohAnswers
    BY <1>4 DEF R!Begin, R!IrohFirst, R!IrohListens, R!ReadStep, R!IrohAnswers, R!Ready, R!Return,
                R!Transports, RaceInv, RaceTypes, PlaceInv, WebrtcInv, SayInv, ReachInv,
                RaceSaysNoNetwork, R!NoNetworkIsExact
  <1>5. CASE R!ProbeEnds
    <2>1. /\ probe = "running" /\ task = "racing" /\ probe' # "gone"
          /\ probe' \in {"ok"} \cup IrohErrors
          /\ UNCHANGED <<plan, task, carrier, failed, raceReaches, answer, webrtc, outcome>>
      BY <1>5, IrohErrorsAreErrors DEF R!ProbeEnds, IrohErrors, IrohReach
    <2> QED BY <2>1 DEF SayInv, ReachInv, RaceSaysNoNetwork, R!NoNetworkIsExact
  <1>6. CASE R!WebrtcAnswers \/ R!AwaitIroh \/ R!IrohEnds
    <2>1. /\ UNCHANGED <<carrier, raceReaches, probe>> /\ task' = "returned"
          /\ carrier # Nobody
      BY <1>6 DEF R!WebrtcAnswers, R!WebrtcAnswered, R!AwaitIroh, R!IrohEnds, R!Polled, R!Return,
                  RaceInv, PlaceInv, WebrtcInv
    <2> QED BY <2>1 DEF SayInv, ReachInv, RaceSaysNoNetwork, R!NoNetworkIsExact
  <1>7. CASE \/ R!WebrtcOpens \/ R!WebrtcSends \/ R!WebrtcConfirmed \/ R!WebrtcReopens
             \/ R!IrohSends \/ R!IrohConfirmed \/ R!IrohUncertain
             \/ R!WalletReceives \/ R!WalletAnswers \/ R!TimeUp \/ R!Ended
             \/ UNCHANGED R!vars
    <2>1. /\ UNCHANGED <<task, carrier, failed, raceReaches, probe, answer, outcome>>
          /\ task = "returned" => UNCHANGED <<plan, connected>>
          /\ webrtc' = "gone" <=> webrtc = "gone"
      BY <1>7 DEF R!WebrtcOpens, R!WebrtcSends, R!WebrtcConfirmed, R!WebrtcReopens, R!IrohSends,
                  R!IrohConfirmed, R!IrohUncertain, R!WalletReceives, R!WalletAnswers, R!TimeUp,
                  R!Ended, R!vars
    <2> QED BY <2>1 DEF SayInv, ReachInv, RaceSaysNoNetwork, R!NoNetworkIsExact
  <1> QED
    BY <1>1, <1>2, <1>3, <1>4, <1>5, <1>6, <1>7 DEF R!Next, R!Call

-----------------------------------------------------------------------------
(* Pairing: what each attempt, the race and the wallet know of each other  *)

PairingTypes ==
    /\ attempt \in [P!Transports -> {"off", "running", "linked", "failed", "taken"}]
    /\ overWebrtc \in BOOLEAN

\* While the pairing runs, the wallet linked exactly over the transports whose
\* attempt is to be read and over WebRTC while it waits for iroh, which it
\* only does while iroh is still trying; who is trying was not read yet.
KnownInv ==
    ended = "no" =>
        /\ linkedOver = {t \in P!Transports :
                           attempt[t] = "linked" \/ (t = Webrtc /\ overWebrtc)}
        /\ trying = {t \in P!Transports : attempt[t] \in {"running", "linked", "failed"}}
        /\ overWebrtc => Iroh \in trying
        /\ ~overWebrtc => trying \cup failures = plan

PairingInv ==
    PairingTypes /\ KnownInv /\ NoLinkIsLost /\ IrohIsPreferred /\ P!FailedMeansAll

\* The same for the pairing.
LEMMA PairingInit == P!Init => PairingInv
  BY DEF P!Init, PairingInv, PairingTypes, KnownInv, NoLinkIsLost, P!NoLinkIsLost,
         IrohIsPreferred, P!IrohIsPreferred, P!FailedMeansAll, P!Transports

\* No step of the pairing leaves its invariant: one case per arm.
LEMMA PairingStep == PairingInv /\ [P!Next]_(P!vars) => PairingInv'
  <1> SUFFICES ASSUME PairingInv, [P!Next]_(P!vars) PROVE PairingInv'
    OBVIOUS
  <1> USE DEF PairingInv, PairingTypes, KnownInv, NoLinkIsLost, P!NoLinkIsLost,
              IrohIsPreferred, P!IrohIsPreferred, P!FailedMeansAll, P!Transports, P!race,
              P!Keep, P!Wait, P!Fail
  <1>1. ASSUME NEW t \in P!Transports, P!Attempt(t) PROVE PairingInv'
    <2> USE <1>1 DEF P!Attempt, P!Pending
    <2>1. CASE attempt[t] = "linked"
      BY <2>1 DEF P!Linked
    <2>2. CASE attempt[t] = "failed"
      <3>1. CASE Iroh \notin trying' /\ overWebrtc
        BY <2>2, <3>1 DEF P!Failed
      <3>2. CASE ~(Iroh \notin trying' /\ overWebrtc) /\ trying' = {}
        BY <2>2, <3>2 DEF P!Failed
      <3>3. CASE ~(Iroh \notin trying' /\ overWebrtc) /\ trying' # {}
        BY <2>2, <3>3 DEF P!Failed
      <3> QED BY <3>1, <3>2, <3>3
    <2> QED BY <2>1, <2>2
  <1>2. ASSUME NEW t \in P!Transports, P!WalletLinks(t) PROVE PairingInv'
    BY <1>2 DEF P!WalletLinks
  <1>3. ASSUME NEW t \in P!Transports, P!AttemptFails(t) PROVE PairingInv'
    BY <1>3 DEF P!AttemptFails
  <1>4. CASE P!GraceEnds
    BY <1>4 DEF P!GraceEnds, P!GraceOver, P!Pending
  <1>5. CASE P!Report \/ P!IrohSteps \/ P!GraceElapses \/ P!Drop \/ P!Ended \/ UNCHANGED P!vars
    BY <1>5 DEF P!Report, P!IrohSteps, P!GraceElapses, P!Drop, P!Ended, P!vars
  <1> QED
    BY <1>1, <1>2, <1>3, <1>4, <1>5 DEF P!Next

-----------------------------------------------------------------------------
(* What follows for the whole behaviour                                    *)

\* The parts share the plan, which none of them changes.
LEMMA RaceKeepsThePlan == R!Next => UNCHANGED plan
  BY DEF R!Next, R!Call, R!Begin, R!IrohFirst, R!IrohListens, R!IrohFails, R!IrohAnswers,
         R!ReadStep, R!WebrtcOpens, R!WebrtcSends, R!WebrtcConfirmed, R!WebrtcReopens,
         R!WebrtcAnswers, R!WebrtcFails, R!AwaitIroh, R!Deadline, R!IrohSends,
         R!IrohConfirmed, R!IrohUncertain, R!IrohEnds, R!ProbeEnds, R!WalletReceives, R!WalletAnswers,
         R!TimeUp, R!Ended, R!vars

\* A step of the pairing leaves the race's plan as it is.
LEMMA PairingKeepsThePlan == P!Next => UNCHANGED plan
  BY DEF P!Next, P!Report, P!Attempt, P!GraceEnds, P!IrohSteps, P!WalletLinks,
         P!AttemptFails, P!GraceElapses, P!Drop, P!Ended, P!vars

\* A behaviour of the three parts is one of the race, and one of the pairing.
LEMMA RaceIsAPart == AutoSpec => R!Spec
  <1>1. AutoInit => R!Init
    BY DEF AutoInit
  <1>2. [AutoNext]_autoVars => [R!Next]_(R!vars)
    <2> SUFFICES ASSUME [AutoNext]_autoVars PROVE [R!Next]_(R!vars)
      OBVIOUS
    <2>1. CASE UNCHANGED <<plan, raceVars>>
      BY <2>1 DEF raceVars, R!vars, R!wire
    <2>2. CASE P!Next /\ Pairing
      BY <2>1, <2>2, PairingKeepsThePlan DEF Pairing
    <2> QED
      BY <2>1, <2>2 DEF AutoNext, First, autoVars
  <1> QED BY <1>1, <1>2, PTL DEF AutoSpec, R!Spec

\* The same of the pairing.
LEMMA PairingIsAPart == AutoSpec => P!Spec
  <1>1. AutoInit => P!Init
    BY DEF AutoInit
  <1>2. [AutoNext]_autoVars => [P!Next]_(P!vars)
    <2> SUFFICES ASSUME [AutoNext]_autoVars PROVE [P!Next]_(P!vars)
      OBVIOUS
    <2>1. CASE UNCHANGED <<plan, pairingVars>>
      BY <2>1 DEF pairingVars, P!vars, P!race
    <2>2. CASE R!Next /\ Race
      BY <2>1, <2>2, RaceKeepsThePlan DEF Race
    <2> QED
      BY <2>1, <2>2 DEF AutoNext, First, autoVars
  <1> QED BY <1>1, <1>2, PTL DEF AutoSpec, P!Spec

\* The race's invariant holds throughout, ...
LEMMA RaceInvariance == AutoSpec => []RaceInv
  BY RaceIsAPart, RaceInit, RaceStep, PTL DEF R!Spec

\* ... and the pairing's.
LEMMA PairingInvariance == AutoSpec => []PairingInv
  BY PairingIsAPart, PairingInit, PairingStep, PTL DEF P!Spec

\* connector.rs, race and over_iroh: the answer that came over either transport
\* is what the call returns, unless the wallet removed the link, or it came to
\* the carrier before that listened.
THEOREM RaceAnswers == AutoSpec => []RaceKeepsTheAnswer
  BY RaceInvariance, PTL DEF RaceInv

\* connector.rs, race: at its end and at its deadline the race tells "no
\* network" only when every transport of the link failed for want of one.
THEOREM RaceNoNetworkExact == AutoSpec => []RaceSaysNoNetwork
  <1>1. SayInv => RaceSaysNoNetwork
    BY DEF SayInv
  <1> QED
    BY <1>1, RaceIsAPart, RaceInvariance, SayInit, SayStep, PTL DEF R!Spec

\* race.rs, CarrierRace::failed: before its deadline the race does not fail
\* while a transport of the link is still trying.
THEOREM RaceTriesEach == AutoSpec => []AFailureLeavesTheOther
  BY RaceInvariance, PTL DEF RaceInv

\* connector.rs, race: the request is put on the one transport that was chosen
\* to carry it, although WebRTC's conversation never asks: the race implements
\* OneCarrier.
THEOREM RaceSendsOnce == AutoSpec => RaceHasOneCarrier
  <1>1. R!Init => R!Carried!Init
    BY DEF R!Init, R!Carried!Init
  <1> QED
    BY <1>1, RaceIsAPart, RaceInvariance, RaceStepCarries, PTL
    DEF R!Spec, RaceHasOneCarrier, R!OneCarries, R!Carried!Spec

\* race.rs, PairingRace: a pairing that ends keeps a transport that the wallet
\* linked over, if it linked over any.
THEOREM LinkIsKept == AutoSpec => []NoLinkIsLost
  BY PairingInvariance, PTL DEF PairingInv

\* race.rs, PairingRace: it keeps iroh whenever the wallet linked over it.
THEOREM IrohIsKept == AutoSpec => []IrohIsPreferred
  BY PairingInvariance, PTL DEF PairingInv

\* race.rs, PairingRace::failed: a pairing only fails when each of its
\* transports did.
THEOREM PairingTriesEach == AutoSpec => []P!FailedMeansAll
  BY PairingInvariance, PTL DEF PairingInv
=============================================================================
