SPECIFICATION Spec
CONSTANTS
    r1 = r1
    r2 = r2
    Requests = {r1, r2}
    Gets = {r1}
    NoRequest = NoRequest
    MaxStarts = 2
PROPERTIES StartRunsServer
