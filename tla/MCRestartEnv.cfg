CONSTANTS
    t1 = t1  t2 = t2  t3 = t3
    q1 = q1  q2 = q2  q3 = q3
    Tabs = {t1, t2, t3}
    IPs = {"near", "far"}
    IPOf <- MCIPOf
    Passwords = {p1, p2}
    None = None
    Nobody = Nobody
    lockThreshold = 2
    maxLockEntries = 1
    Tasks <- MCTasks
    Procs = {q1, q2, q3}
    NoProc = NoProc
    Bounds <- MCBounds
SPECIFICATION FairSpec
PROPERTIES
    RestartApplies
