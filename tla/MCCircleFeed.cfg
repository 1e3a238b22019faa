\* Bob's two sockets, one eviction in the channel at a time.
SPECIFICATION FeedFairSpec
CONSTANTS
    alice = alice
    bob = bob
    home = home
    s1 = s1
    s2 = s2
    AllUsers = AllUsers
    Users <- MCUsers
    Circles <- MCCircles
    Conns <- MCConns
    UserOf <- MCUserOf
    Owner <- MCOwner
    MaxPerUser = 2
    MaxTotal = 2
    SendBuffer = 1
    BroadcastCap = 1
    EvictCap = 1
INVARIANTS
    FeedExplained
PROPERTIES
    LeaverIsUnsubscribed
