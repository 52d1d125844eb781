SPECIFICATION Spec
CONSTANTS
    Pair = Pair  Ask = Ask  Other = Other  A = A  B = B  None = None
    Calls = {Pair, Ask, Other}  Ids = {A, B}
    Scenarios <- McScenarios
    UNCLAIMED_MAX = 1  Connections = 2  MaxEvents = 3
INVARIANTS AskedOnce WaitedForIsNotKept NotOverTheLinking
PROPERTIES CallsReturn
CHECK_DEADLOCK FALSE
