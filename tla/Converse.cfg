SPECIFICATION Spec
CONSTANTS
    c1 = c1  c2 = c2  c3 = c3  p1 = p1  p2 = p2  None = None
    Conv <- TwoConvs
    Proc <- TwoProcs
    ProcOf <- Apart
    Kind <- RacingAndRequest
    Want <- Itself
    Budget = 5
    WALLET_SETTLE = 2
    RESEND_MARGIN = 0
    CONFIRM_TIMEOUT = 1
    SEND_ATTEMPTS = 2
    WALLET_NOTICE = 1
    SharedDir = TRUE
    Crashes = FALSE
    LastStart = 1
    MaxAnswers = 1
INVARIANTS OneConversation NoChannelTorn BusyMeansNothingSent TurnIsFreed TimeoutsTellWhatHappened
PROPERTIES NothingConfirmedIsResent OneSettledChannel
