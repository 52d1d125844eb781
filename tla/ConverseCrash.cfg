SPECIFICATION FairSpec
CONSTANTS
    c1 = c1  c2 = c2  c3 = c3  p1 = p1  p2 = p2  None = None
    Conv <- ThreeConvs
    Proc <- TwoProcs
    ProcOf <- Apart
    Kind <- EachOther
    Want <- TheFirst
    Budget = 3
    WALLET_SETTLE = 2
    RESEND_MARGIN = 0
    CONFIRM_TIMEOUT = 1
    SEND_ATTEMPTS = 2
    WALLET_NOTICE = 1
    SharedDir = TRUE
    Crashes = TRUE
    LastStart = 0
    MaxAnswers = 1
PROPERTIES EveryCallReturns
