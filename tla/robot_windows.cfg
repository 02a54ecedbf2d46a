\* Any three of eight requests on two robots, two displays and two fleet keys.
SPECIFICATION FairSpec
CONSTANTS
    b1 = b1  b2 = b2  dA = dA  dB = dB  keyA = keyA  keyB = keyB
    assignA = assignA  assignB = assignB  unassignB = unassignB  deleteA = deleteA
    startA = startA  startB = startB  stopA = stopA  stopB = stopB
    Robots = {b1, b2}
    Displays = {dA, dB}
    Keys = {keyA, keyB}
    Jobs = {assignA, assignB, unassignB, deleteA, startA, startB, stopA, stopB}
    Kind <- Kinds
    On <- Target
    Shows <- Display
    KeyOf <- UsedKey
    MaxRequests = 3
    None = None
INVARIANTS
    TypeOK
    AttributedOnce
    SessionsDisjoint
    RefusedOnlyIfOverlapped
PROPERTIES
    AssignmentsAreALog
    SessionShowsItsDisplay
    RequestsEnd
\* Every request may be served.
CHECK_DEADLOCK FALSE
