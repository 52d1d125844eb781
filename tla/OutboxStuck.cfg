SPECIFICATION Spec
CONSTANTS
    p1 = p1  p2 = p2  r1 = r1  r2 = r2  NoCall = NoCall
    Process <- OneProcess
    Request <- OneRequest
    Sender <- AllFromOne
    Awaiter <- AllFromOne
    Clearer <- None
    ClearedBy <- NoOne
    AtFirst <- OneProcess
    Mortal <- None
    Routes = {"webrtc"}
    EarlyAwait = FALSE
INVARIANTS SendingIsBeingSent
