SPECIFICATION Spec
CONSTANTS
    Here = Here  There = There  Pair = Pair  Use = Use  Close = Close
    Other = Other  None = None
    Procs = {Here, There}  Calls = {Pair, Use, Close, Other}
    ProcOf <- McProcOf  KindOf <- McKindOf
    Crashes = 1  Ends = 1
INVARIANTS OneSession
CHECK_DEADLOCK FALSE
