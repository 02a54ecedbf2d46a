\* Two requests at a time, overlapping batches, heartbeats with two keys, a loss.
SPECIFICATION FairSpec
CONSTANTS
    e1 = e1  e2 = e2  e3 = e3  e4 = e4  b1 = b1  b2 = b2  h1 = h1  h2 = h2
    keyA = keyA  keyB = keyB  robot = robot
    Events = {e1, e2, e3, e4}
    Robots = {robot}
    Keys = {keyA, keyB}
    Batches = {b1, b2}
    Beats = {h1, h2}
    Items <- Lists
    RobotOf <- Sender
    KeyOf <- UsedKey
    Unparsable = {e4}
    Unstorable = {e3}
    Requests = {r1, r2}
    MaxLosses = 1
    None = None
INVARIANTS
    TypeOK
    ToldIsStored
    ConflictNeedsTwoKeys
PROPERTIES
    AppendOnly
    UnlinkedOnlyIfUnknown
    EventsArrive
\* Every job may be answered.
CHECK_DEADLOCK FALSE
