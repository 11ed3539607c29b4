SPECIFICATION FairSpec
CONSTANTS
    r1 = r1
    r2 = r2
    Requests = {r1, r2}
    Gets = {r1}
    NoRequest = NoRequest
    MaxStarts = 3
INVARIANTS TypeOK NoLeakedListener RequestOwnership SerialHandling StartedListenerHasItsTask
PROPERTIES RequestLifecycle ExitEndsProcess StopEndsTasks RequestsResolved ServesWithoutConsole
