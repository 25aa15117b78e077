\* Two callers, the network's key and a forged one, three connections; the direct
\* read runs on a listed network.
CONSTANTS
    c1 = c1
    c2 = c2
    Callers = {c1, c2}
    Genuine = Genuine
    Forged = Forged
    DWalletKeys = {Genuine}
    CrossCheck = TRUE
    DirectReads = {"listed"}
    Window = 1
    Budget = 1
    MaxConnects = 3
SPECIFICATION FairSpec
INVARIANTS OutputsAreGenuine EpochWasShown LagIsNotALie ConnectionsAreShared
PROPERTIES CallsEnd
CHECK_DEADLOCK FALSE
