SPECIFICATION FairSpec
CONSTANTS
    w1 = w1
    w2 = w2
    c1 = c1
    Worker = {w1, w2}
    Client = {c1}
    Forced = TRUE
    MaxAlive = 1
    Jobs = {"promote", "restart", "follow", "reinitialize", "demote"}
INVARIANTS OneLongAction BusyWhileRunning ExecInv
PROPERTIES CancelNoticed CancelReturns ActionEnds
