\* Two requests at a time, two sessions, two keys, a
\* display whose playlist or assignment is edited once.
SPECIFICATION Spec
CONSTANTS
    m1 = m1  m2 = m2
    Keys = {k1, k2}
    Requests = {r1, r2}
    Displays = {d1}
    Moments = {m1, m2}
    MomentOf <- Measured
    MaxSessions = 2
    MaxSends = 4
    MaxEdits = 1
    None = None
SYMMETRY Symmetric
INVARIANTS
    TypeOK
    RamFollowsSession
PROPERTIES
    BlendedOnlyIfUncounted
    CountsNeverShrink
