CONSTANTS
    c1 = c1
    c2 = c2
    c3 = c3
    n1 = n1
    n2 = n2
    nobody = nobody
    Clients <- MCClients
    Nonces <- MCNonces
    Times <- MCTimes
    Nobody = nobody
    MaxClients = 2
    CacheSize = 2
    MaxSkew = 1
    MaxSent = 4
    MaxServed = 5
SPECIFICATION Spec
SYMMETRY Symmetry
INVARIANTS ServedAsSent NobodyIsLockedOut
