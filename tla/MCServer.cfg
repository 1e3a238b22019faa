\* The hub: three slots for sockets, two of them of one user.  The sign-in
\* gate: two accounts, two addresses, two requests.
SPECIFICATION ServerSpec
CONSTANTS
    alice = alice
    bob = bob
    home = home
    s1 = s1
    s2 = s2
    s3 = s3
    AllUsers = AllUsers
    Users <- MCUsers
    Circles <- MCCircles
    Conns <- MCConns3
    UserOf <- MCUserOf3
    MaxPerUser = 1
    MaxTotal = 2
    SendBuffer = 2
    BroadcastCap = 1
    EvictCap = 1
    Keys = {i1, i2}
    Burst = 2
    Rate = 1
    Ttl = 1
    Emails = {e1, e2}
    Requests = {r1, r2}
    NoIP = NoIP
    StoreIP = TRUE
    Window = 2
    EmailThreshold = 1
    IPThreshold = 2
INVARIANTS
    HubConsistent
    SlotsAccounted
    UnsubscribedIsFinal
    GuessesAreBounded
PROPERTIES
    SlotFreed
    EvictionTakesEffect
    EvictionIsInvisible
    LocksEnd
