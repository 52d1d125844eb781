SPECIFICATION AutoSpec
CONSTANTS
    Iroh = Iroh  Webrtc = Webrtc  Nobody = Nobody  l1 = l1  l2 = l2
    Link <- TwoLinks
    PairedOver <- BothIroh
INVARIANTS
    TheChosenAnswers NoAnswerIsLost RaceKeepsTheAnswer RaceSaysNoNetwork
    AFailureLeavesTheOther NoLinkIsLost IrohIsPreferred
PROPERTIES
    OneCarries RaceHasOneCarrier EveryRequestReturns LinkedPairingEnds
