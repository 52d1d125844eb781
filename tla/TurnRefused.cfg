SPECIFICATION Spec
CONSTANTS
    linkA = linkA  linkB = linkB  call1 = call1  call2 = call2  kept1 = kept1  kept2 = kept2  task1 = task1  task2 = task2  end1 = end1  end2 = end2
    PartsChecked = {"turn"}
    Messages = 2
    Asked = 2  Polls = 2
    Links = {linkA, linkB}  Calls = {call1, call2}
    KeptLinks = {kept1, kept2}  Tasks = {task1, task2}
    ToolCalls = 2
    Peers = {end1, end2}  Datagrams = 2  MaxQueued = 1
    Bodies <- McBodies  MaxInFlight = 2
    Wallets = {end1, end2}  Candidates = 2
PROPERTIES ARefusedPeerIsAskedFor
CHECK_DEADLOCK FALSE
