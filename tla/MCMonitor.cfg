CONSTANTS
    Loop = loop
    Publishers = {loop, alert}
    Clients = {}
    Events <- MonitorEvents
    NoOne = NoOne
    NoEvent = NoEvent
    ChanCap = 1
    DBFaults = TRUE
    Conns = {k1, k2}
    Exes = {x1}
    ExeOf <- ConnsOf
    Contents = {v1, v2}
    Unread = Unread
    NoConn = NoConn
    MaxChanges = 2
    MaxRestarts = 1
SPECIFICATION MonitorLiveSpec
INVARIANTS
    MonitorInv
    OncePerContent
PROPERTIES
    NoFalseNews
    StaysOpenIsTold
CHECK_DEADLOCK FALSE
