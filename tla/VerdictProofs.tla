----------------------------- MODULE VerdictProofs -----------------------------
(***************************************************************************)
(* What Error::unreachable can tell, for any number of transports.         *)
(***************************************************************************)
EXTENDS Verdict, FiniteSetTheorems, TLAPS

\* The reaches of error.rs, by name.
ReachNames ==
    {"NoNetwork", "Absent", "NotConfirmed", "NoAnswer", "WalletRejected",
     "LinkRemoved", "LinkBusy", "InvalidLink", "Failed"}

\* No transport's failure maps to a success, or to nothing.
LEMMA ReachesAreNamed == Reaches \subseteq ReachNames
  <1>1. \A e \in WebrtcErrors : WebrtcReach[e] \in ReachNames
    BY DEF WebrtcErrors, WebrtcReach, ReachNames
  <1>2. \A e \in IrohErrors : IrohReach[e] \in ReachNames
    BY DEF IrohErrors, IrohReach, ReachNames
  <1> QED BY <1>1, <1>2 DEF Reaches

\* What a call is told is never taken for its not having ended, or for an
\* answer.
LEMMA ErrorsAreErrors == "none" \notin Errors /\ "ok" \notin Errors
  BY ReachesAreNamed DEF Errors, ReachNames

\* A set of naturals that is not empty has a least element: the smallest of
\* the intervals that end in it, ordered by inclusion.
LEMMA LeastNatural ==
    ASSUME NEW T \in SUBSET Nat, T # {}
    PROVE  \E x \in T : \A y \in T : x <= y
  <1> DEFINE Upto == {0..n : n \in T}
  <1>1. Upto \subseteq FiniteSubsetsOf(Nat)
    <2>1. \A n \in T : 0..n \subseteq Nat /\ IsFiniteSet(0..n)
      BY FS_Interval
    <2> QED BY <2>1 DEF FiniteSubsetsOf
  <1>2. PICK U \in Upto : \A V \in Upto : <<V, U>> \notin StrictSubsetOrdering(Nat)
    <2>1. Upto # {}
      OBVIOUS
    <2>2. IsWellFoundedOn(StrictSubsetOrdering(Nat), FiniteSubsetsOf(Nat))
      BY FS_StrictSubsetOrderingWellFounded
    <2> HIDE DEF Upto
    <2> QED BY <1>1, <2>1, <2>2, WFMin
  <1>3. PICK x \in T : U = 0..x
    OBVIOUS
  <1>4. ASSUME NEW y \in T PROVE x <= y
    <2>1. SUFFICES ASSUME y < x PROVE FALSE
      OBVIOUS
    <2>2. 0..y \subseteq 0..x /\ 0..y # 0..x
      <3>1. x \in 0..x /\ x \notin 0..y
        BY <2>1
      <3> QED BY <2>1, <3>1
    <2>3. <<0..y, 0..x>> \in StrictSubsetOrdering(Nat)
      <3>1. 0..y \subseteq Nat /\ 0..x \subseteq Nat
        OBVIOUS
      <3> QED BY <2>2, <3>1 DEF StrictSubsetOrdering
    <2> QED BY <1>2, <1>3, <2>3
  <1> QED BY <1>4

\* Error::unreachable tells the first final error, of however many
\* transports; "no network" only if every one of them said so.
LEMMA FinalIsTold ==
    ASSUME NEW reaches \in Seq(Reaches),
           \E i \in DOMAIN reaches : reaches[i] \notin Reached
    PROVE  Unreachable(reaches) \in Reaches \ Reached
  <1> DEFINE final == {i \in DOMAIN reaches : reaches[i] \notin Reached}
             first == CHOOSE i \in final : \A j \in final : i <= j
  <1>1. final \in SUBSET Nat /\ \A i \in final : reaches[i] \in Reaches \ Reached
    OBVIOUS
  <1>2. final # {}
    OBVIOUS
  <1>3. Unreachable(reaches) = reaches[first]
    BY <1>2 DEF Unreachable
  <1>4. \E i \in final : \A j \in final : i <= j
    <2> HIDE DEF final
    <2> QED BY <1>1, <1>2, LeastNatural
  <1> HIDE DEF final
  <1>5. first \in final
    BY <1>4
  <1> QED BY <1>1, <1>3, <1>5

LEMMA UnreachableIsAnError ==
    ASSUME NEW reaches \in Seq(Reaches)
    PROVE  Unreachable(reaches) \in Errors
  <1>1. CASE \E i \in DOMAIN reaches : reaches[i] \notin Reached
    BY <1>1, FinalIsTold DEF Errors
  <1>2. CASE \A i \in DOMAIN reaches : reaches[i] \in Reached
    BY <1>2 DEF Unreachable, Errors
  <1> QED BY <1>1, <1>2

LEMMA OneFailureIsAnError ==
    ASSUME NEW reach \in Reaches
    PROVE  Unreachable(<<reach>>) \in Errors
  <1>1. <<reach>> \in Seq(Reaches)
    OBVIOUS
  <1> QED BY <1>1, UnreachableIsAnError

LEMMA NoNetworkIsUnanimous ==
    ASSUME NEW reaches \in Seq(Reaches), Unreachable(reaches) = "NoNetwork"
    PROVE  reaches # <<>> /\ \A i \in DOMAIN reaches : reaches[i] = "NoNetwork"
  <1>1. CASE \E i \in DOMAIN reaches : reaches[i] \notin Reached
    BY <1>1, FinalIsTold DEF Reached
  <1>2. CASE \A i \in DOMAIN reaches : reaches[i] \in Reached
    BY <1>2 DEF Unreachable
  <1> QED BY <1>1, <1>2
=============================================================================
