SPECIFICATION LimiterSpec
CONSTANTS
    Clients = {c1, c2, c3}
    Window = 3
    MaxRequests = 2
    MaxClients = 2
    Second = 2
    MaxTime = 7
PROPERTIES
    LimiterIsSound
    ImplementsSlidingWindow
