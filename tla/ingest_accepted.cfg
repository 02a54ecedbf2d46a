\* One event that cannot be stored takes the accepted rest of its batch with it.
SPECIFICATION Spec
CONSTANTS
    e1 = e1  e2 = e2  e3 = e3  e4 = e4  b1 = b1  b2 = b2  h1 = h1  h2 = h2
    keyA = keyA  keyB = keyB  robot = robot
    Events = {e1, e2, e3, e4}
    Robots = {robot}
    Keys = {keyA, keyB}
    Batches = {b1, b2}
    Beats = {h1, h2}
    Items <- Lists
    RobotOf <- Sender
    KeyOf <- UsedKey
    Unparsable = {e4}
    Unstorable = {e3}
    Requests = {r1, r2}
    MaxLosses = 0
    None = None
INVARIANTS
    AcceptedIsStored
CHECK_DEADLOCK FALSE
