SPECIFICATION Spec
CONSTANTS
    p1 = p1  p2 = p2  r1 = r1  r2 = r2  NoCall = NoCall
    Process <- TwoProcesses
    Request <- TwoRequests
    Sender <- FromEach
    Awaiter <- AllFromTwo
    Clearer <- OneRequest
    ClearedBy <- FirstFromTwo
    AtFirst <- OneProcess
    Mortal <- OneProcess
    Routes = {"iroh", "webrtc"}
    EarlyAwait = FALSE
INVARIANTS DeliveryIsRecorded AnswerIsRecorded SendingOverIroh
