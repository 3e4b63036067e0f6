CONSTANTS
    k1 = k1
    k2 = k2
    o1 = o1
    cfg1 = cfg1
    r1 = r1
    None = None
    KeyPairs = {k1, k2}
    Owners = {o1}
    Configs = {cfg1}
    Requests = {r1}
    MaxSessions = 2
    MaxHandles = 3
    MaxMessages = 2
SPECIFICATION Spec
CHECK_DEADLOCK FALSE


INVARIANT PublicIdMatchesRouting
