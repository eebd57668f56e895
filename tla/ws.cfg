CONSTANTS
    p1 = p1
    p2 = p2
    p3 = p3
    none = none
    Peers <- MCPeers
    None = none
    MaxRetained = 2
    MaxTickets = 2
    Lifetime = 1
    Times <- MCTimes
    MaxIssued = 3
SPECIFICATION FairSpec
INVARIANTS NoSlotLeaks EveryListenerIsServed TicketsAreGood
PROPERTIES GoneAreForgotten
