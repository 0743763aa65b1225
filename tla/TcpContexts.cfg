\* Two contexts, their sockets and a listener; identifiers that come round.
SPECIFICATION Spec
CONSTANTS
    Contexts = {c1, c2}
    c1 = c1
    c2 = c2
    Sockets = {1, 2}
    Ids = 2
    Recoveries <- OneRecovers
    MaxCalls = 3
    MaxFlight = 2
INVARIANTS
    SocketsHeld
PROPERTIES
    OwnAnswers
    ConnectTells
