CONSTANTS
    s1 = s1
    s2 = s2
    p1 = p1
    p2 = p2
    Clients <- MCClients
    Posts <- MCPosts
    Keepalive = 2
SPECIFICATION FairSpec
INVARIANTS AcceptedIsKept NothingTwice
PROPERTIES AcceptedIsDelivered GoneIsForgotten
CHECK_DEADLOCK FALSE
