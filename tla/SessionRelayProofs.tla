------------------------- MODULE SessionRelayProofs -------------------------
(***************************************************************************)
(* The live view of a robot, for every number of requests, sessions,       *)
(* moments, failures and restarts.                                         *)
(*                                                                         *)
(* The memory of the process follows the session: with one fleet key the   *)
(* row lock of that key leaves one request at a time (KeysInv), so the     *)
(* session it found when it began is still open when it writes to memory   *)
(* (MemoryInv).  Sessions and samples keep what DataInv says with any      *)
(* number of keys: sessions are numbered as they start, and what requests  *)
(* are about to insert is stored by nobody else.  From it follow the       *)
(* types, which dwell is credited, and that no count is ever lowered.      *)
(***************************************************************************)
EXTENDS SessionRelay, SumTheorems

USE RelayAssumption
USE DEF database, memory, counters, NoSession

Entries == {"frame", "sensor", "speech"}

RequestType == [stage : {"idle", "act", "commit"},
                kind : Kinds \cup {None}, key : Keys \cup {None},
                seen : Sessions \cup {NoSession},
                wasOpen : BOOLEAN, moments : SUBSET Moments, row : Session]

Busy(r) == req[r].stage # "idle"

Shape ==
    /\ sessions \in [Sessions -> Session]
    /\ loops \subseteq Displays /\ shown \in Displays \cup {None}
    /\ ram \in [Entries -> Sessions \cup {NoSession}]
    /\ req \in [Requests -> RequestType]
    /\ keysUsed \subseteq Keys

\* The row lock of a key is held by one request.
KeysInv ==
    \A r \in Requests :
        IF Busy(r)
        THEN req[r].key \in keysUsed /\ \A q \in Requests : req[q].key = req[r].key => q = r
        ELSE req[r].key = None

OneKey == \A k, l \in keysUsed : k = l

SomeOpen == \E s \in Sessions : sessions[s].state = "open"

\* What a request relies on when it goes on.
Ready(r) ==
    /\ req[r].stage = "act" /\ req[r].kind \in Posts =>
          req[r].seen \in Sessions /\ sessions[req[r].seen].state = "open"
    /\ Busy(r) /\ req[r].kind = "start" => req[r].row.state = "open"
    /\ req[r].stage = "commit" =>
          /\ req[r].kind = "start" => Cardinality(Started) < MaxSessions
          /\ req[r].kind = "stop" => \A e \in Entries : ram[e] = NoSession

RamInv == \A e \in Entries : ram[e] # NoSession => SomeOpen /\ sessions[ram[e]].state # "stopped"

MemoryInv == RamInv /\ \A r \in Requests : Ready(r)

RelayInv == Shape /\ KeysInv /\ (OneKey => MemoryInv)

LEMMA OpenIsOpen ==
    /\ OpenSession # NoSession <=> SomeOpen
    /\ OpenSession # NoSession => OpenSession \in Sessions /\ sessions[OpenSession].state = "open"
<1> DEFINE open == {s \in Sessions : sessions[s].state = "open"}
<1>1. CASE open = {}
  BY <1>1 DEF OpenSession, SomeOpen
<1>2. CASE open # {}
  <2>1. OpenSession = CHOOSE s \in open : TRUE
    BY <1>2 DEF OpenSession
  <2>2. OpenSession \in open
    BY <1>2, <2>1
  <2>3. \A s \in Sessions : s # 0
    BY DEF Sessions
  <2> QED
    BY <2>2, <2>3 DEF SomeOpen
<1> QED
  BY <1>1, <1>2

LEMMA StartedCount == Cardinality(Started) \in Nat
<1>1. IsFiniteSet(Sessions)
  BY FS_Interval DEF Sessions
<1>2. IsFiniteSet(Started)
  BY <1>1, FS_Subset DEF Started
<1> QED
  BY <1>2, FS_CardinalityType

LEMMA IdleType ==
    /\ Idle \in RequestType /\ Idle.stage = "idle" /\ Idle.kind = None /\ Idle.key = None
<1>1. Absent \in Session
  BY DEF Absent, Session
<1> QED
  BY <1>1 DEF Idle, RequestType

(* What a request that is about to be committed keeps.                     *)
LEMMA ToCommitStep ==
    ASSUME Shape, NEW r \in Requests, Start(r) \/ req' = ToCommit(r)
    PROVE  /\ req' = [req EXCEPT ![r] = req'[r]]
           /\ req'[r] \in RequestType /\ req'[r].stage = "commit" /\ req'[r].key = req[r].key
           /\ req'[r].kind = req[r].kind /\ req'[r].row = req[r].row
           /\ req'[r].seen = req[r].seen /\ req'[r].moments = req[r].moments
<1> DEFINE old == req[r]
           new == req'[r]
<1>0. req \in [Requests -> RequestType]
  BY DEF Shape
<1>1. CASE Start(r)
  <2> DEFINE w == old.row.display = shown
  <2>1. /\ req' = [req EXCEPT ![r] = new]
        /\ new = [old EXCEPT !.stage = "commit", !.wasOpen = w]
    BY <1>0, <1>1 DEF Start
  <2>2. old \in RequestType /\ w \in BOOLEAN
    BY <1>0
  <2> HIDE DEF old, new, w
  <2>3. /\ new \in RequestType /\ new.stage = "commit" /\ new.key = old.key
        /\ new.kind = old.kind /\ new.row = old.row /\ new.seen = old.seen
        /\ new.moments = old.moments
    BY <2>1, <2>2 DEF RequestType
  <2> QED
    BY <2>1, <2>3 DEF old, new
<1>2. CASE req' = ToCommit(r)
  <2>1. req' = [req EXCEPT ![r] = new] /\ new = [old EXCEPT !.stage = "commit"]
    BY <1>0, <1>2 DEF ToCommit
  <2>2. old \in RequestType
    BY <1>0
  <2> HIDE DEF old, new
  <2>3. /\ new \in RequestType /\ new.stage = "commit" /\ new.key = old.key
        /\ new.kind = old.kind /\ new.row = old.row /\ new.seen = old.seen
        /\ new.moments = old.moments
    BY <2>1, <2>2 DEF RequestType
  <2> QED
    BY <2>1, <2>3 DEF old, new
<1> QED
  BY <1>1, <1>2

(* An edit of a playlist marks the rows of that display, and changes       *)
(* nothing else of them.                                                   *)
LEMMA EditRows ==
    ASSUME Shape, NEW d \in Displays, EditPlaylist(d)
    PROVE  /\ sessions' \in [Sessions -> Session]
           /\ \A s \in Sessions :
                 /\ sessions'[s].state = sessions[s].state
                 /\ sessions'[s].display = sessions[s].display
                 /\ sessions'[s].bound = sessions[s].bound
                 /\ sessions'[s].blended = sessions[s].blended
                 /\ sessions[s].grown => sessions'[s].grown
                 /\ d \notin loops /\ sessions[s].display = d => sessions'[s].grown
                 /\ sessions[s] = Absent => sessions'[s] = Absent
           /\ req' \in [Requests -> RequestType]
           /\ \A r \in Requests :
                 /\ req'[r].stage = req[r].stage /\ req'[r].kind = req[r].kind
                 /\ req'[r].key = req[r].key /\ req'[r].seen = req[r].seen
                 /\ req'[r].moments = req[r].moments
                 /\ req'[r].row.state = req[r].row.state
                 /\ req'[r].row.display = req[r].row.display
                 /\ req'[r].row.bound = req[r].row.bound
                 /\ req'[r].row.blended = req[r].row.blended
                 /\ req[r].row.grown => req'[r].row.grown
                 /\ d \notin loops /\ req[r].row.display = d => req'[r].row.grown
<1> DEFINE After(row) == [row EXCEPT !.grown = row.grown \/ (d \notin loops /\ row.display = d)]
<1>0. sessions \in [Sessions -> Session] /\ req \in [Requests -> RequestType]
  BY DEF Shape
<1>1. \A row \in Session :
         /\ After(row) \in Session
         /\ After(row).state = row.state /\ After(row).display = row.display
         /\ After(row).bound = row.bound /\ After(row).blended = row.blended
         /\ row.grown => After(row).grown
         /\ d \notin loops /\ row.display = d => After(row).grown
  BY DEF Session
<1>2. After(Absent) = Absent
  <2>1. Absent \in Session /\ Absent.display = None /\ Absent.grown \in BOOLEAN
    BY DEF Absent, Session
  <2>2. After(Absent) = [Absent EXCEPT !.grown = Absent.grown]
    BY <2>1
  <2>3. \A row \in Session : [row EXCEPT !.grown = row.grown] = row
    BY DEF Session
  <2> QED
    BY <2>1, <2>2, <2>3
<1>3. /\ sessions' = [s \in Sessions |-> After(sessions[s])]
      /\ req' = [r \in Requests |-> [req[r] EXCEPT !.row = After(req[r].row)]]
  BY DEF EditPlaylist
<1> HIDE DEF After
<1>4. \A q \in RequestType, row \in Session :
         LET new == [q EXCEPT !.row = row]
         IN  /\ new \in RequestType /\ new.stage = q.stage /\ new.kind = q.kind
             /\ new.key = q.key /\ new.seen = q.seen /\ new.moments = q.moments /\ new.row = row
  BY DEF RequestType
<1>5. \A r \in Requests : req[r] \in RequestType /\ req[r].row \in Session
  BY <1>0 DEF RequestType
<1>6. ASSUME NEW r \in Requests
      PROVE  /\ req'[r] \in RequestType /\ req'[r].row = After(req[r].row)
             /\ req'[r].stage = req[r].stage /\ req'[r].kind = req[r].kind
             /\ req'[r].key = req[r].key /\ req'[r].seen = req[r].seen
             /\ req'[r].moments = req[r].moments
  <2> DEFINE row == After(req[r].row)
  <2>1. row \in Session /\ req[r] \in RequestType
    BY <1>1, <1>5
  <2>2. req'[r] = [req[r] EXCEPT !.row = row]
    BY <1>3
  <2> HIDE DEF row
  <2>3. /\ req'[r] \in RequestType /\ req'[r].row = row
        /\ req'[r].stage = req[r].stage /\ req'[r].kind = req[r].kind
        /\ req'[r].key = req[r].key /\ req'[r].seen = req[r].seen
        /\ req'[r].moments = req[r].moments
    BY <1>4, <2>1, <2>2
  <2> QED
    BY <2>3 DEF row
<1>7. sessions' \in [Sessions -> Session] /\ \A s \in Sessions : sessions'[s] = After(sessions[s])
  BY <1>0, <1>1, <1>3
<1>8. req' \in [Requests -> RequestType]
  BY <1>3, <1>6
<1> QED
  BY <1>0, <1>1, <1>2, <1>5, <1>6, <1>7, <1>8

LEMMA InitRelay == Init => RelayInv
<1> SUFFICES ASSUME Init PROVE RelayInv
  OBVIOUS
<1>1. Shape
  <2>1. Absent \in Session
    BY DEF Absent, Session
  <2> QED
    BY <2>1, IdleType DEF Init, Shape, Empty, Entries
<1>2. KeysInv
  BY IdleType DEF Init, KeysInv, Busy
<1>3. MemoryInv
  BY IdleType DEF Init, MemoryInv, RamInv, Ready, Busy, Empty, Entries
<1> QED
  BY <1>1, <1>2, <1>3 DEF RelayInv

(* With one key in use, a request that is busy is the only one.            *)
LEMMA OnlyOne ==
    ASSUME RelayInv, OneKey, NEW r \in Requests, Busy(r), NEW q \in Requests, Busy(q)
    PROVE  q = r
  BY DEF RelayInv, KeysInv, OneKey

(* A busy request that keeps its key, or ends, leaves the others' keys.    *)
LEMMA KeysStep ==
    ASSUME RelayInv, NEW r \in Requests, Busy(r),
           req' = [req EXCEPT ![r] = req'[r]], UNCHANGED keysUsed,
           IF req'[r].stage = "idle" THEN req'[r].key = None ELSE req'[r].key = req[r].key
    PROVE  KeysInv'
<1>1. req \in [Requests -> RequestType] /\ KeysInv
  BY DEF RelayInv, Shape
<1>2. \A q \in Requests \ {r} : req'[q] = req[q]
  BY <1>1
<1>3. None \notin Keys /\ \A q \in Requests : Busy(q) => req[q].key \in Keys
  BY <1>1 DEF KeysInv, RelayInv, Shape
<1>4. ASSUME NEW p \in Requests, Busy(p)', NEW q \in Requests, req'[q].key = req'[p].key PROVE q = p
  <2>1. Busy(p) /\ req'[p].key = req[p].key
    BY <1>2, <1>4 DEF Busy
  <2>2. req'[q].key = req[q].key
    BY <1>2, <1>3, <1>4, <2>1
  <2> QED
    BY <1>1, <1>4, <2>1, <2>2 DEF KeysInv
<1>5. ASSUME NEW p \in Requests, Busy(p)' PROVE req'[p].key \in keysUsed'
  BY <1>1, <1>2, <1>5 DEF KeysInv, Busy
<1>6. ASSUME NEW p \in Requests, ~Busy(p)' PROVE req'[p].key = None
  BY <1>1, <1>2, <1>6 DEF KeysInv, Busy
<1> QED
  BY <1>4, <1>5, <1>6 DEF KeysInv

(* A request begins with a key that no other request holds.                *)
LEMMA BeginStep ==
    ASSUME RelayInv, NEW r \in Requests, NEW key \in Keys, ~Busy(r), KeyFree(key),
           req' = [req EXCEPT ![r] = req'[r]], req'[r].key = key, req'[r].stage = "act",
           keysUsed' = keysUsed \cup {key},
           UNCHANGED <<sessions, ram>>,
           req'[r].kind \in Posts => req'[r].seen = OpenSession /\ OpenSession # NoSession,
           req'[r].kind = "start" => req'[r].row.state = "open"
    PROVE  KeysInv' /\ (OneKey' => MemoryInv')
<1>1. req \in [Requests -> RequestType] /\ KeysInv
  BY DEF RelayInv, Shape
<1>2. \A q \in Requests \ {r} : req'[q] = req[q]
  BY <1>1
<1>3. KeysInv'
  BY <1>1, <1>2 DEF KeysInv, Busy, KeyFree
<1>4. ASSUME OneKey' PROVE MemoryInv'
  <2>1. OneKey /\ MemoryInv
    BY <1>4 DEF OneKey, RelayInv
  <2>2. \A q \in Requests \ {r} : req'[q].stage = "idle"
    <3>1. ASSUME NEW q \in Requests \ {r}, Busy(q) PROVE FALSE
      <4>1. req[q].key \in keysUsed' /\ key \in keysUsed'
        BY <1>1, <3>1 DEF KeysInv
      <4>2. req[q].key = key
        BY <1>4, <4>1 DEF OneKey
      <4> QED
        BY <4>2 DEF KeyFree
    <3> QED
      BY <1>2, <3>1 DEF Busy
  <2>3. RamInv'
    BY <2>1 DEF MemoryInv, RamInv, SomeOpen
  <2>4. Ready(r)'
    BY OpenIsOpen DEF Ready
  <2>5. \A q \in Requests \ {r} : Ready(q)'
    BY <2>2 DEF Ready, Busy
  <2> QED
    BY <2>3, <2>4, <2>5 DEF MemoryInv
<1> QED
  BY <1>3, <1>4

(* What is left to show when a busy request takes a step.                  *)
LEMMA BusyStep ==
    ASSUME RelayInv, NEW r \in Requests, Busy(r),
           req' = [req EXCEPT ![r] = req'[r]], UNCHANGED keysUsed,
           IF req'[r].stage = "idle" THEN req'[r].key = None ELSE req'[r].key = req[r].key,
           MemoryInv => RamInv' /\ Ready(r)'
    PROVE  KeysInv' /\ (OneKey' => MemoryInv')
<1>1. KeysInv'
  BY KeysStep
<1>2. ASSUME OneKey' PROVE MemoryInv'
  <2>1. OneKey
    BY <1>2 DEF OneKey
  <2>2. MemoryInv
    BY <2>1 DEF RelayInv
  <2>3. \A q \in Requests \ {r} : ~Busy(q)
    BY <2>1, OnlyOne
  <2>4. \A q \in Requests \ {r} : Ready(q)'
    BY <2>3 DEF Ready, Busy, RelayInv, Shape
  <2> QED
    BY <2>2, <2>4 DEF MemoryInv
<1> QED
  BY <1>1, <1>2

LEMMA StepRelay == RelayInv /\ [Next]_vars => RelayInv'
<1> SUFFICES ASSUME RelayInv, [Next]_vars PROVE RelayInv'
  OBVIOUS
<1>0. /\ sessions \in [Sessions -> Session] /\ ram \in [Entries -> Sessions \cup {NoSession}]
      /\ req \in [Requests -> RequestType] /\ keysUsed \subseteq Keys
      /\ loops \subseteq Displays /\ shown \in Displays \cup {None}
  BY DEF RelayInv, Shape
<1>1. ASSUME NEW r \in Requests, ReadStart(r) PROVE RelayInv'
  <2>1. PICK ad \in BOOLEAN, d \in Displays \cup {None}, key \in Keys :
          /\ KeyFree(key) /\ keysUsed' = keysUsed \cup {key} /\ req[r].stage = "idle"
          /\ req' = [req EXCEPT ![r] =
                [Idle EXCEPT !.kind = "start",
                   !.row = [state |-> "open", display |-> d, bound |-> ad,
                            blended |-> d \in loops, grown |-> FALSE],
                   !.stage = "act", !.key = key]]
          /\ UNCHANGED <<database, memory>>
    BY <1>1 DEF ReadStart, Begin, IsBlended
  <2> DEFINE row == [state |-> "open", display |-> d, bound |-> ad, blended |-> d \in loops,
                     grown |-> FALSE]
             new == [Idle EXCEPT !.kind = "start", !.row = row, !.stage = "act", !.key = key]
  <2>2. row \in Session /\ row.state = "open"
    BY <1>0 DEF Session
  <2> HIDE DEF row
  <2>3. /\ new \in RequestType /\ new.kind = "start" /\ new.row = row
        /\ new.stage = "act" /\ new.key = key
    BY <2>2, IdleType DEF RequestType, Kinds, Idle
  <2>4. req'[r] = new /\ req' = [req EXCEPT ![r] = req'[r]]
    BY <1>0, <2>1 DEF row
  <2> HIDE DEF new
  <2>5. Shape'
    BY <1>0, <2>1, <2>3, <2>4 DEF Shape
  <2>6. KeysInv' /\ (OneKey' => MemoryInv')
    BY <2>1, <2>2, <2>3, <2>4, BeginStep DEF Posts, Busy
  <2> QED
    BY <2>5, <2>6 DEF RelayInv
<1>2. ASSUME NEW r \in Requests, ReadStop(r) PROVE RelayInv'
  <2>1. PICK s \in Started, key \in Keys :
          /\ KeyFree(key) /\ keysUsed' = keysUsed \cup {key} /\ req[r].stage = "idle"
          /\ req' = [req EXCEPT ![r] =
                [Idle EXCEPT !.kind = "stop", !.seen = s, !.wasOpen = s = OpenSession,
                   !.stage = "act", !.key = key]]
          /\ UNCHANGED <<database, memory>>
    BY <1>2 DEF ReadStop, Begin
  <2> DEFINE new == [Idle EXCEPT !.kind = "stop", !.seen = s, !.wasOpen = s = OpenSession,
                       !.stage = "act", !.key = key]
  <2>2. s \in Sessions /\ (s = OpenSession) \in BOOLEAN
    BY <2>1 DEF Started
  <2>3. /\ new \in RequestType /\ new.kind = "stop" /\ new.stage = "act" /\ new.key = key
    BY <2>2, IdleType DEF RequestType, Kinds, Idle
  <2>4. req'[r] = new /\ req' = [req EXCEPT ![r] = req'[r]]
    BY <1>0, <2>1
  <2> HIDE DEF new
  <2>5. Shape'
    BY <1>0, <2>1, <2>3, <2>4 DEF Shape
  <2>6. KeysInv' /\ (OneKey' => MemoryInv')
    BY <2>1, <2>3, <2>4, BeginStep DEF Posts, Busy
  <2> QED
    BY <2>5, <2>6 DEF RelayInv
<1>3. ASSUME NEW r \in Requests, ReadOpen(r) PROVE RelayInv'
  <2>1. PICK kind \in Posts \cup {"current"}, ms \in SUBSET Moments, key \in Keys :
          /\ KeyFree(key) /\ keysUsed' = keysUsed \cup {key} /\ req[r].stage = "idle"
          /\ req' = [req EXCEPT ![r] =
                [Idle EXCEPT !.kind = kind, !.seen = OpenSession, !.moments = ms,
                   !.stage = "act", !.key = key]]
          /\ UNCHANGED <<database, memory>>
          /\ OpenSession # NoSession
    BY <1>3 DEF ReadOpen, Begin
  <2> DEFINE new == [Idle EXCEPT !.kind = kind, !.seen = OpenSession, !.moments = ms,
                       !.stage = "act", !.key = key]
  <2>2. kind \in Kinds /\ kind # "start" /\ OpenSession \in Sessions
    BY <2>1, OpenIsOpen DEF Kinds, Posts
  <2>3. /\ new \in RequestType /\ new.kind = kind /\ new.stage = "act" /\ new.key = key
        /\ new.seen = OpenSession
    BY <2>2, IdleType DEF RequestType, Idle
  <2>4. req'[r] = new /\ req' = [req EXCEPT ![r] = req'[r]]
    BY <1>0, <2>1
  <2> HIDE DEF new
  <2>5. Shape'
    BY <1>0, <2>1, <2>3, <2>4 DEF Shape
  <2>6. KeysInv' /\ (OneKey' => MemoryInv')
    BY <2>1, <2>2, <2>3, <2>4, BeginStep DEF Busy
  <2> QED
    BY <2>5, <2>6 DEF RelayInv
<1>4. ASSUME NEW r \in Requests, req[r].stage = "act", Start(r) \/ req' = ToCommit(r),
             UNCHANGED <<sessions, loops, shown, keysUsed>>,
             ram' \in [Entries -> Sessions \cup {NoSession}],
             MemoryInv => RamInv',
             req[r].kind = "start" => Cardinality(Started) < MaxSessions,
             req[r].kind = "stop" => \A e \in Entries : ram'[e] = NoSession
      PROVE  RelayInv'
  <2>1. /\ req' = [req EXCEPT ![r] = req'[r]]
        /\ req'[r] \in RequestType /\ req'[r].stage = "commit" /\ req'[r].key = req[r].key
        /\ req'[r].kind = req[r].kind /\ req'[r].row = req[r].row
    BY <1>4, ToCommitStep DEF RelayInv
  <2>2. Shape'
    BY <1>0, <1>4, <2>1 DEF Shape
  <2>3. MemoryInv => Ready(r)'
    BY <1>4, <2>1 DEF MemoryInv, Ready, Busy, Started
  <2>4. KeysInv' /\ (OneKey' => MemoryInv')
    BY <1>4, <2>1, <2>3, BusyStep DEF Busy
  <2> QED
    BY <2>2, <2>4 DEF RelayInv
<1>5. ASSUME NEW r \in Requests, Start(r) PROVE RelayInv'
  BY <1>0, <1>4, <1>5 DEF Start, Acting, MemoryInv, RamInv, SomeOpen
<1>6. ASSUME NEW r \in Requests, Stop(r) PROVE RelayInv'
  <2>1. ram' \in [Entries -> Sessions \cup {NoSession}] /\ \A e \in Entries : ram'[e] = NoSession
    BY <1>6 DEF Stop, Dropped, Empty, Entries
  <2> QED
    BY <1>4, <1>6, <2>1 DEF Stop, Acting, RamInv
<1>7. ASSUME NEW r \in Requests, Speak(r) \/ PostFrame(r) \/ PostMoments(r) \/ Current(r) PROVE RelayInv'
  <2>1. /\ req[r].stage = "act" /\ UNCHANGED <<sessions, loops, shown, keysUsed>>
        /\ req[r].kind # "start" /\ req[r].kind # "stop" /\ req[r].seen \in Sessions \cup {NoSession}
    BY <1>0, <1>7 DEF Speak, PostFrame, PostMoments, Current, Acting, RequestType
  <2>2. \/ ram' = ram
        \/ \E e \in Entries :
              \/ ram' = [ram EXCEPT ![e] = NoSession]
              \/ ram' = [ram EXCEPT ![e] = req[r].seen] /\ req[r].kind \in Posts
    BY <1>7 DEF Speak, PostFrame, PostMoments, Current, Acting, Posts, Entries
  <2>3. ram' \in [Entries -> Sessions \cup {NoSession}]
    BY <1>0, <2>1, <2>2
  <2>4. ASSUME MemoryInv PROVE RamInv'
    <3>1. req[r].kind \in Posts => SomeOpen /\ sessions[req[r].seen].state = "open"
      BY <2>1, <2>4 DEF MemoryInv, Ready, SomeOpen
    <3> QED
      BY <1>0, <2>1, <2>2, <2>4, <3>1 DEF MemoryInv, RamInv, SomeOpen
  <2>5. CASE ~PostMoments(r)
    BY <1>4, <1>7, <2>1, <2>3, <2>4, <2>5 DEF Speak, PostFrame, Current
  <2>6. CASE PostMoments(r)
    <3> DEFINE ms == Unknown(req[r].moments)
    <3>1. /\ req' = [req EXCEPT ![r] = req'[r]]
          /\ req'[r] = [req[r] EXCEPT !.stage = "commit", !.moments = ms]
      BY <1>0, <2>6 DEF PostMoments
    <3>2. ms \in SUBSET Moments
      BY <1>0 DEF Unknown, RequestType
    <3> HIDE DEF ms
    <3>3. /\ req'[r] \in RequestType /\ req'[r].stage = "commit" /\ req'[r].key = req[r].key
          /\ req'[r].kind = req[r].kind
      <4> DEFINE old == req[r]
                 new == req'[r]
      <4>1. old \in RequestType
        BY <1>0
      <4>2. new = [old EXCEPT !.stage = "commit", !.moments = ms]
        BY <3>1
      <4> HIDE DEF old, new
      <4>3. new \in RequestType /\ new.stage = "commit" /\ new.key = old.key /\ new.kind = old.kind
        BY <3>2, <4>1, <4>2 DEF RequestType
      <4> QED
        BY <4>3 DEF old, new
    <3>4. Shape'
      BY <1>0, <2>1, <2>3, <3>1, <3>3 DEF Shape
    <3>5. Ready(r)'
      BY <2>1, <3>3 DEF Ready
    <3>6. KeysInv' /\ (OneKey' => MemoryInv')
      BY <2>1, <2>4, <3>1, <3>3, <3>5, BusyStep DEF Busy
    <3> QED
      BY <3>4, <3>6 DEF RelayInv
  <2> QED
    BY <2>5, <2>6
<1>8. ASSUME NEW r \in Requests, Busy(r), req' = [req EXCEPT ![r] = Idle], Shape', UNCHANGED keysUsed,
             MemoryInv => RamInv'
      PROVE  RelayInv'
  <2>1. req'[r] = Idle /\ req' = [req EXCEPT ![r] = req'[r]]
    BY <1>0, <1>8
  <2>2. Ready(r)'
    BY <2>1, IdleType DEF Ready, Busy
  <2>3. KeysInv' /\ (OneKey' => MemoryInv')
    BY <1>8, <2>1, <2>2, IdleType, BusyStep
  <2> QED
    BY <1>8, <2>3 DEF RelayInv
<1>9. ASSUME NEW r \in Requests, Drop(r) PROVE RelayInv'
  <2>1. Shape'
    BY <1>0, <1>9, IdleType DEF Drop, Shape
  <2> QED
    BY <1>8, <1>9, <2>1 DEF Drop, Busy, MemoryInv, RamInv, SomeOpen
<1>10. ASSUME NEW r \in Requests, Commit(r) PROVE RelayInv'
  <2>1. req[r] \in RequestType /\ Busy(r) /\ req' = [req EXCEPT ![r] = Idle] /\ UNCHANGED <<loops, ram, keysUsed>>
    BY <1>0, <1>10 DEF Commit, Busy
  <2>0. shown' \in Displays \cup {None}
    BY <1>0, <1>10, <2>1 DEF Commit, RequestType, Session
  <2>2. CASE req[r].kind = "start"
    <3> DEFINE new == Cardinality(Started) + 1
    <3>1. sessions' = [s \in Sessions |->
             IF s = new THEN req[r].row
             ELSE IF s = OpenSession THEN [sessions[s] EXCEPT !.state = "replaced"]
             ELSE sessions[s]]
      BY <1>10, <2>2 DEF Commit
    <3> HIDE DEF new
    <3>2. \A s \in Sessions : /\ [sessions[s] EXCEPT !.state = "replaced"] \in Session
                              /\ [sessions[s] EXCEPT !.state = "replaced"].state = "replaced"
      BY <1>0 DEF Session
    <3>3. req[r].row \in Session
      BY <2>1 DEF RequestType
    <3>4. sessions' \in [Sessions -> Session]
      BY <1>0, <3>1, <3>2, <3>3
    <3>5. Shape'
      BY <1>0, <2>0, <2>1, <3>4, IdleType DEF Shape
    <3>6. ASSUME MemoryInv PROVE RamInv'
      <4>1. req[r].row.state = "open" /\ Cardinality(Started) < MaxSessions
        BY <1>10, <2>1, <2>2, <3>6 DEF Commit, MemoryInv, Ready
      <4>2. new \in Sessions
        BY <4>1, StartedCount DEF Sessions, new
      <4>3. sessions'[new].state = "open"
        BY <3>1, <4>1, <4>2
      <4>4. SomeOpen'
        BY <4>2, <4>3 DEF SomeOpen
      <4>5. ASSUME NEW e \in Entries, ram[e] # NoSession PROVE sessions'[ram[e]].state # "stopped"
        <5>1. ram[e] \in Sessions /\ sessions[ram[e]].state # "stopped"
          BY <1>0, <3>6, <4>5 DEF MemoryInv, RamInv
        <5> QED
          BY <3>1, <3>2, <4>1, <5>1
      <4> QED
        BY <2>1, <4>4, <4>5 DEF RamInv
    <3> QED
      BY <1>8, <2>1, <3>5, <3>6
  <2>3. CASE req[r].kind = "stop"
    <3>1. \/ sessions' = [sessions EXCEPT ![req[r].seen].state = "stopped"]
          \/ sessions' = sessions
      BY <1>10, <2>3 DEF Commit
    <3>2. sessions' \in [Sessions -> Session]
      <4>1. \A row \in Session : [row EXCEPT !.state = "stopped"] \in Session
        BY DEF Session
      <4> QED
        BY <1>0, <3>1, <4>1
    <3>3. Shape'
      BY <1>0, <2>0, <2>1, <3>2, IdleType DEF Shape
    <3>4. ASSUME MemoryInv PROVE RamInv'
      <4>1. \A e \in Entries : ram[e] = NoSession
        BY <1>10, <2>3, <3>4 DEF Commit, MemoryInv, Ready
      <4> QED
        BY <2>1, <4>1 DEF RamInv
    <3> QED
      BY <1>8, <2>1, <3>3, <3>4
  <2>4. CASE req[r].kind # "start" /\ req[r].kind # "stop"
    <3>1. sessions' = sessions
      BY <1>10, <2>4 DEF Commit
    <3>2. Shape'
      BY <1>0, <2>0, <2>1, <3>1, IdleType DEF Shape
    <3> QED
      BY <1>8, <2>1, <3>1, <3>2 DEF MemoryInv, RamInv, SomeOpen
  <2> QED
    BY <2>2, <2>3, <2>4
<1>11. CASE Restart
  <2>1. \A e \in Entries : ram'[e] = NoSession
    BY <1>11 DEF Restart, Empty, Entries
  <2>2. \A r \in Requests : req'[r] = Idle
    BY <1>11 DEF Restart
  <2>3. Shape'
    BY <1>0, <1>11, IdleType DEF Restart, Shape, Empty, Entries
  <2>4. KeysInv'
    BY <2>2, IdleType DEF KeysInv, Busy
  <2>5. MemoryInv'
    BY <2>1, <2>2, IdleType DEF MemoryInv, RamInv, Ready, Busy
  <2> QED
    BY <2>3, <2>4, <2>5 DEF RelayInv
<1>12. ASSUME NEW d \in Displays, EditPlaylist(d) PROVE RelayInv'
  <2>1. /\ sessions' \in [Sessions -> Session]
        /\ \A s \in Sessions : sessions'[s].state = sessions[s].state
        /\ req' \in [Requests -> RequestType]
        /\ \A r \in Requests : /\ req'[r].stage = req[r].stage /\ req'[r].kind = req[r].kind
                               /\ req'[r].key = req[r].key /\ req'[r].seen = req[r].seen
                               /\ req'[r].row.state = req[r].row.state
    BY <1>12, EditRows DEF RelayInv
  <2>2. UNCHANGED <<shown, ram, keysUsed>> /\ loops' \subseteq Displays
    BY <1>0, <1>12 DEF EditPlaylist
  <2>3. Started' = Started
    BY <2>1 DEF Started
  <2>4. Shape' /\ KeysInv'
    BY <1>0, <2>1, <2>2 DEF RelayInv, Shape, KeysInv, Busy
  <2>5. ASSUME OneKey' PROVE MemoryInv'
    <3>1. MemoryInv
      BY <2>2, <2>5 DEF RelayInv, OneKey
    <3>2. SomeOpen' <=> SomeOpen
      BY <2>1 DEF SomeOpen
    <3>3. RamInv'
      BY <1>0, <2>1, <2>2, <3>1, <3>2 DEF MemoryInv, RamInv
    <3>4. \A r \in Requests : Ready(r)'
      BY <2>1, <2>2, <2>3, <3>1 DEF MemoryInv, Ready, Busy
    <3> QED
      BY <3>3, <3>4 DEF MemoryInv
  <2> QED
    BY <2>4, <2>5 DEF RelayInv
<1>13. ASSUME Age \/ UNCHANGED vars \/ \E d \in Displays \cup {None} : Assign(d) PROVE RelayInv'
  <2>1. UNCHANGED <<sessions, loops, ram, req, keysUsed>> /\ shown' \in Displays \cup {None}
    BY <1>0, <1>13 DEF Age, Assign, vars
  <2> QED
    BY <2>1 DEF RelayInv, Shape, KeysInv, OneKey, MemoryInv, RamInv, Ready, SomeOpen, Started, Busy
<1>14. ASSUME NEW r \in Requests, Handle(r) \/ Drop(r) PROVE RelayInv'
  BY <1>1, <1>2, <1>3, <1>5, <1>6, <1>7, <1>9, <1>10, <1>14 DEF Handle
<1> QED
  BY <1>11, <1>12, <1>13, <1>14 DEF Next

(* The set of keys used stays finite: each request adds one at most.       *)
LEMMA StepFinite == IsFiniteSet(keysUsed) /\ [Next]_vars => IsFiniteSet(keysUsed)'
<1> SUFFICES ASSUME IsFiniteSet(keysUsed), [Next]_vars PROVE IsFiniteSet(keysUsed)'
  OBVIOUS
<1>1. ASSUME NEW r \in Requests, ReadStart(r) \/ ReadStop(r) \/ ReadOpen(r)
      PROVE  \E key \in Keys : keysUsed' = keysUsed \cup {key}
  BY <1>1 DEF ReadStart, ReadStop, ReadOpen, Begin
<1>2. ASSUME NEW r \in Requests, Start(r) \/ Stop(r) \/ Speak(r) \/ PostFrame(r) PROVE keysUsed' = keysUsed
  BY <1>2 DEF Start, Stop, Speak, PostFrame
<1>3. ASSUME NEW r \in Requests, Current(r) \/ PostMoments(r) \/ Commit(r) \/ Drop(r)
      PROVE  keysUsed' = keysUsed
  BY <1>3 DEF Current, PostMoments, Commit, Drop
<1>4. ASSUME \/ \E d \in Displays : EditPlaylist(d)
             \/ \E d \in Displays \cup {None} : Assign(d)
             \/ Restart \/ Age \/ UNCHANGED vars
      PROVE  keysUsed' = keysUsed
  BY <1>4 DEF Restart, Age, EditPlaylist, Assign, vars
<1>5. keysUsed' = keysUsed \/ \E key \in Keys : keysUsed' = keysUsed \cup {key}
  BY <1>1, <1>2, <1>3, <1>4 DEF Next, Handle
<1> QED
  BY <1>5, FS_AddElement

(* With one fleet key no request brings back what a stop has dropped.      *)
THEOREM MemoryFollows == Spec => []RamFollowsSession
<1>1. Init => IsFiniteSet(keysUsed)
  BY FS_EmptySet DEF Init
<1>2. IsFiniteSet(keysUsed) /\ RelayInv => RamFollowsSession
  <2> SUFFICES ASSUME IsFiniteSet(keysUsed), RelayInv, Cardinality(keysUsed) <= 1,
                      NEW e \in DOMAIN ram, ram[e] # NoSession
               PROVE  OpenSession # NoSession /\ sessions[ram[e]].state # "stopped"
    BY DEF RamFollowsSession
  <2>1. OneKey
    <3>1. ASSUME NEW k \in keysUsed, NEW l \in keysUsed, k # l PROVE FALSE
      <4>1. {k, l} \subseteq keysUsed
        OBVIOUS
      <4>2. Cardinality({k, l}) <= Cardinality(keysUsed) /\ IsFiniteSet({k, l})
        BY <4>1, FS_Subset
      <4>3. IsFiniteSet({k}) /\ Cardinality({k}) = 1 /\ l \notin {k} /\ {k} \cup {l} = {k, l}
        BY <3>1, FS_Singleton
      <4>4. Cardinality({k} \cup {l}) = Cardinality({k}) + 1
        BY <4>3, FS_AddElement
      <4>5. Cardinality(keysUsed) \in Nat
        BY FS_CardinalityType
      <4>6. Cardinality({k, l}) = 2
        <5>1. Cardinality({k} \cup {l}) = 1 + 1
          BY ONLY <4>3, <4>4
        <5> QED
          BY ONLY <4>3, <5>1
      <4> QED
        BY <4>2, <4>5, <4>6
    <3> QED
      BY <3>1 DEF OneKey
  <2>2. e \in Entries
    BY DEF RelayInv, Shape
  <2> QED
    BY <2>1, <2>2, OpenIsOpen DEF RelayInv, MemoryInv, RamInv
<1> QED
  BY <1>1, <1>2, InitRelay, StepRelay, StepFinite, PTL DEF Spec

----------------------------------------------------------------------------
(* Sessions and samples.                                                   *)

\* A session does not count a campaign and a loop at once, and one whose display was
\* found not to loop knows when it began to.
RowOK(row) == ~(row.bound /\ row.blended) /\ (row.display \in loops => row.blended \/ row.grown)

Stored == {m \in Moments : samples[m] # NoSession}

\* Sessions are numbered in the order they start; one at most is open.
SessionsInv ==
    /\ \E n \in 0..MaxSessions : Started = 1..n
    /\ \A s, t \in Sessions : sessions[s].state = "open" /\ sessions[t].state = "open" => s = t
    /\ \A s \in Sessions : IF s \in Started THEN RowOK(sessions[s]) ELSE sessions[s] = Absent

\* What a request has found has been started; what it inserts is not stored.
Holds(r) ==
    /\ req[r].kind = "start" => req[r].row.state = "open" /\ RowOK(req[r].row)
    /\ req[r].kind \notin {None, "start"} => req[r].seen \in Started
    /\ req[r].kind # "moments" => req[r].moments = {}
    /\ req[r].stage = "commit" => req[r].moments \cap Stored = {}

\* A moment is inserted by one request at a time.
NoClash(r, q) ==
    req[r].stage = "commit" /\ req[q].stage = "commit" => req[r].moments \cap req[q].moments = {}

DataInv ==
    /\ Shape /\ SessionsInv
    /\ samples \in [Moments -> Sessions \cup {NoSession}]
    /\ \A m \in Stored : samples[m] \in Started
    /\ credited \subseteq Stored
    /\ fresh \in BOOLEAN /\ sends \in 0..MaxSends /\ edits \in 0..MaxEdits
    /\ \A r \in Requests : Holds(r)
    /\ \A r, q \in Requests : r # q => NoClash(r, q)

(* A step of one request that commits nothing.                             *)
LEMMA LocalData ==
    ASSUME DataInv, Shape', NEW r \in Requests, UNCHANGED database,
           \A q \in Requests \ {r} : req'[q] = req[q],
           fresh' \in BOOLEAN, sends' \in 0..MaxSends, UNCHANGED edits,
           Holds(r)', \A q \in Requests \ {r} : NoClash(r, q)' /\ NoClash(q, r)'
    PROVE  DataInv'
<1>1. Started' = Started /\ Stored' = Stored
  BY DEF Started, Stored
<1>2. SessionsInv'
  BY <1>1 DEF DataInv, SessionsInv, RowOK
<1>3. \A q \in Requests \ {r} : Holds(q)'
  BY <1>1 DEF DataInv, Holds, RowOK
<1>4. ASSUME NEW p \in Requests \ {r}, NEW q \in Requests \ {r}, p # q PROVE NoClash(p, q)'
  <2>1. req'[p] = req[p] /\ req'[q] = req[q]
    OBVIOUS
  <2> QED
    BY <1>4, <2>1 DEF DataInv, NoClash
<1> QED
  BY <1>1, <1>2, <1>3, <1>4 DEF DataInv

(* A request that begins, or goes on with what it has.                     *)
LEMMA BeginData ==
    ASSUME DataInv, Shape', NEW r \in Requests, NEW found, Begin(r, found),
           found \in RequestType,
           found.kind = "start" => found.row.state = "open" /\ RowOK(found.row),
           found.kind \notin {None, "start"} => found.seen \in Started,
           found.kind # "moments" => found.moments = {}
    PROVE  DataInv'
<1>1. PICK key \in Keys : req' = [req EXCEPT ![r] = [found EXCEPT !.stage = "act", !.key = key]]
  BY DEF Begin
<1>2. /\ req'[r].stage = "act" /\ req'[r].kind = found.kind /\ req'[r].row = found.row
      /\ req'[r].seen = found.seen /\ req'[r].moments = found.moments
      /\ \A q \in Requests \ {r} : req'[q] = req[q]
  BY <1>1 DEF DataInv, Shape, RequestType
<1>3. UNCHANGED database /\ fresh' = fresh /\ sends' \in 0..MaxSends /\ UNCHANGED edits
  BY DEF Begin, DataInv
<1>4. Started' = Started /\ (RowOK(found.row) => RowOK(req[r].row)')
  BY <1>2, <1>3 DEF Started, RowOK
<1>5. Holds(r)'
  BY <1>2, <1>4 DEF Holds
<1>6. \A q \in Requests \ {r} : NoClash(r, q)' /\ NoClash(q, r)'
  BY <1>2 DEF NoClash
<1> QED
  BY <1>2, <1>3, <1>5, <1>6, LocalData DEF DataInv

LEMMA ReadData ==
    ASSUME DataInv, Shape', NEW r \in Requests, ReadStart(r) \/ ReadStop(r) \/ ReadOpen(r)
    PROVE  DataInv'
<1>1. CASE ReadStart(r)
  <2>1. PICK ad \in BOOLEAN, d \in Displays \cup {None} :
          /\ MayBind(ad, d)
          /\ Begin(r, [Idle EXCEPT !.kind = "start",
                         !.row = [state |-> "open", display |-> d, bound |-> ad,
                                  blended |-> IsBlended(d), grown |-> FALSE]])
    BY <1>1 DEF ReadStart
  <2> DEFINE row == [state |-> "open", display |-> d, bound |-> ad, blended |-> IsBlended(d),
                     grown |-> FALSE]
             found == [Idle EXCEPT !.kind = "start", !.row = row]
  <2>2. row \in Session /\ row.state = "open" /\ RowOK(row)
    <3> DEFINE blends == IsBlended(d)
    <3>1. blends \in BOOLEAN /\ ~(ad /\ blends) /\ (d \in loops => blends)
      BY <2>1 DEF MayBind, IsBlended
    <3> HIDE DEF blends
    <3>2. /\ [state |-> "open", display |-> d, bound |-> ad, blended |-> blends, grown |-> FALSE] \in Session
          /\ RowOK([state |-> "open", display |-> d, bound |-> ad, blended |-> blends, grown |-> FALSE])
      BY <3>1 DEF Session, RowOK
    <3> QED
      BY <3>2 DEF blends
  <2>3. Begin(r, found)
    BY <2>1
  <2> HIDE DEF row
  <2>4. found \in RequestType /\ found.kind = "start" /\ found.row = row /\ found.moments = {}
    BY <2>2, IdleType DEF RequestType, Kinds, Idle
  <2> HIDE DEF found
  <2> QED
    BY <2>2, <2>3, <2>4, BeginData
<1>2. CASE ReadStop(r)
  <2>1. PICK s \in Started :
          Begin(r, [Idle EXCEPT !.kind = "stop", !.seen = s, !.wasOpen = s = OpenSession])
    BY <1>2 DEF ReadStop
  <2> DEFINE found == [Idle EXCEPT !.kind = "stop", !.seen = s, !.wasOpen = s = OpenSession]
  <2>2. s \in Sessions /\ (s = OpenSession) \in BOOLEAN
    BY <2>1 DEF Started
  <2>3. found \in RequestType /\ found.kind = "stop" /\ found.seen = s /\ found.moments = {}
    BY <2>2, IdleType DEF RequestType, Kinds, Idle
  <2>4. Begin(r, found)
    BY <2>1
  <2> HIDE DEF found
  <2> QED
    BY <2>1, <2>3, <2>4, BeginData
<1>3. CASE ReadOpen(r)
  <2>1. PICK kind \in Posts \cup {"current"}, ms \in SUBSET Moments :
          /\ ms # {} => kind = "moments"
          /\ Begin(r, [Idle EXCEPT !.kind = kind, !.seen = OpenSession, !.moments = ms])
    BY <1>3 DEF ReadOpen
  <2> DEFINE found == [Idle EXCEPT !.kind = kind, !.seen = OpenSession, !.moments = ms]
  <2>2. OpenSession \in Started /\ OpenSession \in Sessions
    BY <1>3, OpenIsOpen DEF ReadOpen, Started
  <2>3. found \in RequestType /\ found.kind = kind /\ found.seen = OpenSession /\ found.moments = ms
    BY <2>1, <2>2, IdleType DEF RequestType, Kinds, Posts, Idle
  <2>4. Begin(r, found)
    BY <2>1
  <2> HIDE DEF found
  <2> QED
    BY <2>1, <2>2, <2>3, <2>4, BeginData DEF Posts
<1> QED
  BY <1>1, <1>2, <1>3

LEMMA ToCommitData ==
    ASSUME DataInv, Shape', NEW r \in Requests, req[r].stage = "act", req[r].kind # "moments",
           Start(r) \/ req' = ToCommit(r), UNCHANGED <<database, sends, edits>>, fresh' \in BOOLEAN
    PROVE  DataInv'
<1>1. /\ req' = [req EXCEPT ![r] = req'[r]]
      /\ req'[r].kind = req[r].kind /\ req'[r].row = req[r].row /\ req'[r].seen = req[r].seen
      /\ req'[r].moments = req[r].moments
  BY ToCommitStep DEF DataInv
<1>2. req'[r].moments = {} /\ \A q \in Requests \ {r} : req'[q] = req[q]
  BY <1>1 DEF DataInv, Shape, Holds
<1>3. Started' = Started /\ (RowOK(req[r].row) => RowOK(req[r].row)')
  BY <1>1 DEF Started, RowOK
<1>4. Holds(r)'
  BY <1>1, <1>2, <1>3 DEF DataInv, Holds
<1>5. \A q \in Requests \ {r} : NoClash(r, q)' /\ NoClash(q, r)'
  BY <1>2 DEF NoClash
<1>6. sends' \in 0..MaxSends
  BY DEF DataInv
<1> QED
  BY <1>2, <1>4, <1>5, <1>6, LocalData

LEMMA ActData ==
    ASSUME DataInv, Shape', NEW r \in Requests,
           Start(r) \/ Stop(r) \/ Speak(r) \/ PostFrame(r) \/ Current(r)
    PROVE  DataInv'
<1>1. fresh' \in BOOLEAN
  BY DEF DataInv, Start, Stop, Speak, PostFrame, Current
<1> QED
  BY <1>1, ToCommitData DEF Start, Stop, Speak, PostFrame, Current, Acting

LEMMA PostMomentsData ==
    ASSUME DataInv, Shape', NEW r \in Requests, PostMoments(r)
    PROVE  DataInv'
<1>0. req \in [Requests -> RequestType] /\ req[r] \in RequestType
  BY DEF DataInv, Shape
<1> DEFINE ms == Unknown(req[r].moments)
<1>1. /\ req'[r] = [req[r] EXCEPT !.stage = "commit", !.moments = ms]
      /\ \A q \in Requests \ {r} : req'[q] = req[q]
  BY <1>0 DEF PostMoments
<1>2. ms \subseteq req[r].moments /\ ms \cap Stored = {}
  BY DEF Unknown, Stored
<1> HIDE DEF ms
<1>3. /\ req'[r].kind = "moments" /\ req'[r].seen = req[r].seen /\ req'[r].moments = ms
      /\ req'[r].stage = "commit" /\ req[r].kind = "moments"
  BY <1>0, <1>1 DEF RequestType, PostMoments, Acting
<1>4. Started' = Started /\ Stored' = Stored
  BY DEF Started, Stored, PostMoments
<1>5. Holds(r)'
  BY <1>2, <1>3, <1>4 DEF DataInv, Holds
<1>6. ASSUME NEW q \in Requests \ {r} PROVE NoClash(r, q)' /\ NoClash(q, r)'
  <2>1. req'[q] = req[q]
    BY <1>1
  <2>2. req[q].stage = "commit" => req[q].moments \cap req[r].moments = {}
    BY DEF PostMoments
  <2> QED
    BY <1>2, <1>3, <2>1, <2>2 DEF NoClash
<1>7. UNCHANGED database /\ UNCHANGED <<fresh, sends, edits>>
  BY DEF PostMoments
<1> QED
  BY <1>1, <1>5, <1>6, <1>7, LocalData DEF DataInv

LEMMA DropData ==
    ASSUME DataInv, Shape', NEW r \in Requests, Drop(r)
    PROVE  DataInv'
<1>1. req'[r] = Idle /\ \A q \in Requests \ {r} : req'[q] = req[q]
  BY DEF DataInv, Shape, Drop
<1>2. req'[r].kind = None /\ req'[r].moments = {} /\ req'[r].stage = "idle"
  BY <1>1 DEF Idle
<1>3. None \notin {"start", "moments"}
  BY DEF Kinds, Posts
<1>4. Holds(r)'
  BY <1>2, <1>3 DEF Holds
<1>5. \A q \in Requests \ {r} : NoClash(r, q)' /\ NoClash(q, r)'
  BY <1>2 DEF NoClash
<1> QED
  BY <1>1, <1>4, <1>5, LocalData DEF Drop, DataInv

(* What a commit does to the sessions.                                     *)
LEMMA CommitSessions ==
    ASSUME DataInv, Shape', NEW r \in Requests, Commit(r)
    PROVE  SessionsInv' /\ Started \subseteq Started'
<1>0. /\ sessions \in [Sessions -> Session] /\ req[r] \in RequestType /\ SessionsInv /\ Holds(r)
      /\ loops' = loops /\ sessions' \in [Sessions -> Session]
  BY DEF DataInv, Shape, Commit
<1>1. PICK n \in 0..MaxSessions : Started = 1..n
  BY <1>0 DEF SessionsInv
<1>2. Cardinality(Started) = n
  BY <1>1, FS_Interval
<1>3. \A row \in Session, state \in {"none", "open", "stopped", "replaced"} :
         LET new == [row EXCEPT !.state = state]
         IN  /\ new.state = state /\ new.display = row.display /\ new.bound = row.bound
             /\ new.blended = row.blended /\ new.grown = row.grown
  BY DEF Session
<1>4. \A row, new : /\ RowOK(row) /\ new.display = row.display
                    /\ new.bound = row.bound /\ new.blended = row.blended
                    /\ new.grown = row.grown
                    => RowOK(new)
  BY DEF RowOK
<1>6. CASE req[r].kind = "start"
  <2>1. \A s \in Sessions : sessions'[s] = IF s = n + 1 THEN req[r].row
             ELSE IF s = OpenSession THEN [sessions[s] EXCEPT !.state = "replaced"]
             ELSE sessions[s]
    BY <1>2, <1>6 DEF Commit
  <2>2. req[r].row.state = "open" /\ RowOK(req[r].row)
    BY <1>0, <1>6 DEF Holds
  <2>3. \A s \in Sessions : s = OpenSession => s \in Started /\ s # n + 1
    BY <1>1, OpenIsOpen DEF Started, Sessions
  <2>4. \A s \in Sessions : [sessions[s] EXCEPT !.state = "replaced"].state = "replaced"
    BY <1>0, <1>3
  <2>5. Started' = IF n + 1 \in Sessions THEN Started \cup {n + 1} ELSE Started
    BY <2>1, <2>2, <2>3, <2>4 DEF Started
  <2>6. \E k \in 0..MaxSessions : Started' = 1..k
    <3>1. CASE n + 1 \in Sessions
      <4>1. n + 1 \in 0..MaxSessions /\ 1..(n + 1) = (1..n) \cup {n + 1}
        BY <3>1 DEF Sessions
      <4>2. Started' = 1..(n + 1)
        BY <1>1, <2>5, <3>1, <4>1
      <4> QED
        BY <4>1, <4>2
    <3>2. CASE n + 1 \notin Sessions
      BY <1>1, <2>5, <3>2
    <3> QED
      BY <3>1, <3>2
  <2>7. ASSUME NEW s \in Sessions, sessions'[s].state = "open" PROVE s = n + 1
    <3>1. CASE s = OpenSession /\ s # n + 1
      BY <2>1, <2>4, <2>7, <3>1
    <3>2. CASE s # OpenSession /\ s # n + 1
      <4>1. sessions[s].state = "open"
        BY <2>1, <2>7, <3>2
      <4>2. OpenSession # NoSession
        BY <4>1, OpenIsOpen DEF SomeOpen
      <4>3. OpenSession \in Sessions /\ sessions[OpenSession].state = "open"
        BY <4>2, OpenIsOpen
      <4> QED
        BY <1>0, <3>2, <4>1, <4>3 DEF SessionsInv
    <3> QED
      BY <3>1, <3>2
  <2>8. ASSUME NEW s \in Sessions
        PROVE  IF s \in Started' THEN RowOK(sessions[s])' ELSE sessions'[s] = Absent
    <3>1. CASE s = n + 1
      BY <1>0, <2>1, <2>2, <2>5, <3>1 DEF RowOK
    <3>2. CASE s # n + 1 /\ s = OpenSession
      <4>1. s \in Started' /\ RowOK(sessions[s])
        BY <1>0, <2>3, <2>5, <3>2 DEF SessionsInv
      <4>2. sessions'[s] = [sessions[s] EXCEPT !.state = "replaced"]
        BY <2>1, <3>2
      <4>3. /\ sessions'[s].display = sessions[s].display /\ sessions'[s].bound = sessions[s].bound
            /\ sessions'[s].blended = sessions[s].blended /\ sessions'[s].grown = sessions[s].grown
        BY <1>0, <1>3, <4>2
      <4> QED
        BY <1>0, <4>1, <4>3 DEF RowOK
    <3>3. CASE s # n + 1 /\ s # OpenSession
      <4>1. sessions'[s] = sessions[s] /\ (s \in Started' <=> s \in Started)
        BY <2>1, <2>5, <3>3
      <4> QED
        BY <1>0, <4>1 DEF SessionsInv, RowOK
    <3> QED
      BY <3>1, <3>2, <3>3
  <2> QED
    BY <2>5, <2>6, <2>7, <2>8 DEF SessionsInv
<1>7. CASE req[r].kind # "start"
  <2>1. \/ sessions' = sessions
        \/ /\ req[r].kind = "stop" /\ sessions' = [sessions EXCEPT ![req[r].seen].state = "stopped"]
    BY <1>7 DEF Commit
  <2>2. CASE sessions' = sessions
    BY <1>0, <2>2 DEF SessionsInv, Started, RowOK
  <2>3. CASE req[r].kind = "stop" /\ sessions' = [sessions EXCEPT ![req[r].seen].state = "stopped"]
    <3> DEFINE t == req[r].seen
    <3>1. t \in Started /\ t \in Sessions
      BY <1>0, <2>3 DEF Holds, Started, Kinds, Posts
    <3>2. /\ sessions'[t] = [sessions[t] EXCEPT !.state = "stopped"]
          /\ \A s \in Sessions \ {t} : sessions'[s] = sessions[s]
      BY <1>0, <2>3, <3>1
    <3>3. /\ sessions'[t].state = "stopped" /\ sessions'[t].display = sessions[t].display
          /\ sessions'[t].bound = sessions[t].bound
          /\ sessions'[t].blended = sessions[t].blended /\ sessions'[t].grown = sessions[t].grown
      BY <1>0, <1>3, <3>1, <3>2
    <3> HIDE DEF t
    <3>4. Started' = Started
      BY <3>1, <3>2, <3>3 DEF Started
    <3>5. \A s \in Sessions : sessions'[s].state = "open" => sessions[s].state = "open"
      BY <3>2, <3>3
    <3>6. ASSUME NEW s \in Sessions
          PROVE  IF s \in Started' THEN RowOK(sessions[s])' ELSE sessions'[s] = Absent
      BY <1>0, <3>1, <3>2, <3>3, <3>4 DEF SessionsInv, RowOK
    <3> QED
      BY <1>0, <3>4, <3>5, <3>6 DEF SessionsInv
  <2> QED
    BY <2>1, <2>2, <2>3
<1> QED
  BY <1>6, <1>7

\* A commit inserts the moments of its request, and only those.
LEMMA CommitSamples ==
    ASSUME DataInv, NEW r \in Requests, Commit(r)
    PROVE  /\ samples' \in [Moments -> Sessions \cup {NoSession}]
           /\ Stored' = Stored \cup req[r].moments
           /\ \A m \in Stored : samples'[m] = samples[m]
           /\ \A m \in req[r].moments : samples'[m] = req[r].seen /\ req[r].seen \in Started
           /\ req[r].moments \cap Stored = {}
<1>0. /\ samples \in [Moments -> Sessions \cup {NoSession}] /\ Holds(r)
      /\ req[r].seen \in Sessions \cup {NoSession} /\ req[r].moments \subseteq Moments
  BY DEF DataInv, Shape, RequestType
<1>1. samples' = [m \in Moments |-> IF m \in req[r].moments THEN req[r].seen ELSE samples[m]]
  BY DEF Commit
<1>2. req[r].moments # {} => req[r].seen \in Started /\ req[r].seen \in Sessions
  BY <1>0 DEF Holds, Started, Kinds, Posts
<1>3. req[r].moments \cap Stored = {}
  BY <1>0 DEF Holds, Commit
<1>4. \A s \in Sessions : s # NoSession
  BY DEF Sessions
<1> QED
  BY <1>0, <1>1, <1>2, <1>3, <1>4 DEF Stored

LEMMA CommitData ==
    ASSUME DataInv, Shape', NEW r \in Requests, Commit(r)
    PROVE  DataInv'
<1>0. /\ req \in [Requests -> RequestType] /\ loops' = loops
      /\ fresh' = fresh /\ sends' = sends /\ edits' = edits
  BY DEF DataInv, Shape, Commit
<1>1. req'[r] = Idle /\ \A q \in Requests \ {r} : req'[q] = req[q]
  BY <1>0 DEF Commit
<1>2. req'[r].kind = None /\ req'[r].moments = {} /\ req'[r].stage = "idle" /\ None \notin {"start", "moments"}
  BY <1>1 DEF Idle, Kinds, Posts
<1>3. SessionsInv' /\ Started \subseteq Started'
  BY CommitSessions
<1>4. /\ samples' \in [Moments -> Sessions \cup {NoSession}]
      /\ Stored' = Stored \cup req[r].moments
      /\ \A m \in Stored : samples'[m] = samples[m]
      /\ \A m \in req[r].moments : samples'[m] = req[r].seen /\ req[r].seen \in Started
  BY CommitSamples
<1>5. \A m \in Stored' : samples'[m] \in Started'
  BY <1>3, <1>4 DEF DataInv
<1>6. credited' \subseteq Stored'
  BY <1>4 DEF DataInv, Commit
<1>7. ASSUME NEW q \in Requests PROVE Holds(q)'
  <2>1. CASE q = r
    BY <1>2, <2>1 DEF Holds
  <2>2. CASE q # r
    <3>1. req'[q] = req[q] /\ Holds(q)
      BY <1>1, <2>2 DEF DataInv
    <3>2. RowOK(req[q].row) => RowOK(req[q].row)'
      BY <1>0, <3>1 DEF RowOK
    <3>3. req[q].stage = "commit" => req[q].moments \cap req[r].moments = {}
      BY <2>2 DEF DataInv, NoClash, Commit
    <3> QED
      BY <1>3, <1>4, <3>1, <3>2, <3>3 DEF Holds
  <2> QED
    BY <2>1, <2>2
<1>8. \A p, q \in Requests : p # q => NoClash(p, q)'
  BY <1>1, <1>2 DEF DataInv, NoClash
<1> QED
  BY <1>0, <1>3, <1>4, <1>5, <1>6, <1>7, <1>8 DEF DataInv

LEMMA EditData ==
    ASSUME DataInv, Shape', NEW d \in Displays, EditPlaylist(d)
    PROVE  DataInv'
<1>0. /\ SessionsInv /\ UNCHANGED <<samples, credited, fresh, sends>> /\ edits' \in 0..MaxEdits
      /\ \A x \in loops' : x \in loops \/ (d \notin loops /\ x = d)
  BY DEF DataInv, EditPlaylist
<1>1. \A s \in Sessions :
         /\ sessions'[s].state = sessions[s].state
         /\ sessions'[s].display = sessions[s].display
         /\ sessions'[s].bound = sessions[s].bound
         /\ sessions'[s].blended = sessions[s].blended
         /\ sessions[s].grown => sessions'[s].grown
         /\ d \notin loops /\ sessions[s].display = d => sessions'[s].grown
         /\ sessions[s] = Absent => sessions'[s] = Absent
  BY EditRows DEF DataInv
<1>2. \A q \in Requests :
         /\ req'[q].stage = req[q].stage /\ req'[q].kind = req[q].kind
         /\ req'[q].seen = req[q].seen /\ req'[q].moments = req[q].moments
         /\ req'[q].row.state = req[q].row.state
         /\ req'[q].row.display = req[q].row.display
         /\ req'[q].row.bound = req[q].row.bound
         /\ req'[q].row.blended = req[q].row.blended
         /\ req[q].row.grown => req'[q].row.grown
         /\ d \notin loops /\ req[q].row.display = d => req'[q].row.grown
  BY EditRows DEF DataInv
<1>3. Started' = Started /\ Stored' = Stored
  BY <1>0, <1>1 DEF Started, Stored
<1>4. ASSUME NEW s \in Sessions, RowOK(sessions[s]) PROVE RowOK(sessions[s])'
  BY <1>0, <1>1, <1>4 DEF RowOK
<1>5. ASSUME NEW q \in Requests, RowOK(req[q].row) PROVE RowOK(req[q].row)'
  BY <1>0, <1>2, <1>5 DEF RowOK
<1>6. SessionsInv'
  <2>1. ASSUME NEW s \in Sessions, NEW t \in Sessions,
               sessions'[s].state = "open", sessions'[t].state = "open"
        PROVE  s = t
    BY <1>0, <1>1, <2>1 DEF SessionsInv
  <2>2. ASSUME NEW s \in Sessions
        PROVE  IF s \in Started' THEN RowOK(sessions[s])' ELSE sessions'[s] = Absent
    BY <1>0, <1>1, <1>3, <1>4 DEF SessionsInv
  <2> QED
    BY <1>0, <1>3, <2>1, <2>2 DEF SessionsInv
<1>7. ASSUME NEW q \in Requests PROVE Holds(q)'
  <2>1. Holds(q)
    BY DEF DataInv
  <2> QED
    BY <1>2, <1>3, <1>5, <2>1 DEF Holds
<1>8. ASSUME NEW p \in Requests, NEW q \in Requests, p # q PROVE NoClash(p, q)'
  <2>1. NoClash(p, q)
    BY <1>8 DEF DataInv
  <2> QED
    BY <1>2, <2>1 DEF NoClash
<1> QED
  BY <1>0, <1>3, <1>6, <1>7, <1>8 DEF DataInv

LEMMA InitData == Init => DataInv
<1> SUFFICES ASSUME Init PROVE DataInv
  OBVIOUS
<1>1. Shape
  BY InitRelay DEF RelayInv
<1>2. Started = {} /\ Stored = {} /\ Absent.state = "none" /\ 0 \in 0..MaxSessions /\ 1..0 = {}
  BY DEF Init, Started, Stored, Absent
<1>3. SessionsInv
  BY <1>2 DEF Init, SessionsInv, Absent
<1>4. \A r \in Requests : Holds(r) /\ req[r].stage = "idle"
  BY DEF Init, Holds, Idle, Kinds, Posts
<1>5. samples \in [Moments -> Sessions \cup {NoSession}]
  BY DEF Init
<1>6. \A r, q \in Requests : NoClash(r, q)
  BY <1>4 DEF NoClash
<1>7. credited = {} /\ fresh = FALSE /\ sends \in 0..MaxSends /\ edits \in 0..MaxEdits
  BY DEF Init
<1> QED
  BY <1>1, <1>2, <1>3, <1>4, <1>5, <1>6, <1>7 DEF DataInv

LEMMA StepData == DataInv /\ Shape' /\ [Next]_vars => DataInv'
<1> SUFFICES ASSUME DataInv, Shape', [Next]_vars PROVE DataInv'
  OBVIOUS
<1>1. ASSUME UNCHANGED <<sessions, loops, samples, credited, sends>>, fresh' \in BOOLEAN,
             edits' \in 0..MaxEdits, req' = req \/ \A r \in Requests : req'[r] = Idle
      PROVE  DataInv'
  <2>1. Started' = Started /\ Stored' = Stored /\ SessionsInv'
    BY <1>1 DEF DataInv, Started, Stored, SessionsInv, RowOK
  <2>2. \A r \in Requests : Holds(r)'
    BY <1>1, <2>1 DEF DataInv, Holds, RowOK, Idle, Kinds, Posts
  <2>3. \A p, q \in Requests : p # q => NoClash(p, q)'
    BY <1>1 DEF DataInv, NoClash, Idle
  <2> QED
    BY <1>1, <2>1, <2>2, <2>3 DEF DataInv
<1>2. CASE Restart \/ Age \/ UNCHANGED vars \/ \E d \in Displays \cup {None} : Assign(d)
  <2>1. /\ UNCHANGED <<sessions, loops, samples, credited, sends>>
        /\ fresh' \in BOOLEAN /\ edits' \in 0..MaxEdits
    <3>1. CASE Restart \/ Age \/ UNCHANGED vars
      BY <3>1 DEF Restart, Age, vars, DataInv
    <3>2. CASE \E d \in Displays \cup {None} : Assign(d)
      BY <3>2 DEF Assign, DataInv
    <3> QED
      BY <1>2, <3>1, <3>2
  <2>2. req' = req \/ \A r \in Requests : req'[r] = Idle
    BY <1>2 DEF Restart, Age, Assign, vars
  <2> QED
    BY <1>1, <2>1, <2>2
<1>3. ASSUME NEW r \in Requests, Handle(r) \/ Drop(r) PROVE DataInv'
  BY <1>3, ReadData, ActData, PostMomentsData, CommitData, DropData DEF Handle
<1> QED
  BY <1>2, <1>3, EditData DEF Next

LEMMA DataInvariance == Spec => []DataInv
<1>1. RelayInv' => Shape'
  BY DEF RelayInv
<1> QED
  BY <1>1, InitRelay, StepRelay, InitData, StepData, PTL DEF Spec

(* Sessions, samples and requests keep their types whatever overlaps, is   *)
(* dropped or restarted: one session at most is open, none counts both a   *)
(* loop and a campaign, and every sample is of a session that was started. *)
THEOREM RelayTypes == Spec => []TypeOK
<1>1. DataInv => TypeOK
  <2> SUFFICES ASSUME DataInv PROVE TypeOK
    OBVIOUS
  <2> DEFINE open == {s \in Sessions : sessions[s].state = "open"}
  <2>1. Cardinality(open) <= 1
    <3> HIDE DEF open
    <3>1. CASE open = {}
      BY <3>1, FS_EmptySet
    <3>2. CASE open # {}
      <4>1. PICK s \in open : TRUE
        BY <3>2
      <4>2. open = {s}
        BY <4>1 DEF DataInv, SessionsInv, open
      <4>3. Cardinality({s}) = 1
        BY FS_Singleton
      <4> QED
        BY <4>2, <4>3
    <3> QED
      BY <3>1, <3>2
  <2>2. \A s \in Sessions : sessions[s].bound => ~sessions[s].blended
    BY DEF DataInv, SessionsInv, RowOK, Absent
  <2>3. \A m \in Moments : samples[m] # NoSession => sessions[samples[m]].state # "none"
    BY DEF DataInv, Stored, Started
  <2> QED
    BY <2>1, <2>2, <2>3 DEF TypeOK, DataInv, Shape, Stored, RequestType, Entries
<1> QED
  BY <1>1, DataInvariance, PTL

(* The dwell of a looping display is credited to a campaign only where the *)
(* start could not know: it did not name that display, or the playlist     *)
(* began to loop after its items had been counted.                         *)
THEOREM BlendedUncounted == Spec => BlendedOnlyIfUncounted
<1> DEFINE Known(s) == shown \in loops => s.display # shown \/ s.grown
<1>1. ASSUME DataInv, [Next]_vars, NEW m \in credited' \ credited
      PROVE  Known(sessions[samples'[m]])
  <2>1. PICK r \in Requests : Commit(r)
    BY <1>1 DEF Next, vars, Handle, Drop, Restart, Age, EditPlaylist, Assign, ReadStart, ReadStop, ReadOpen,
                Begin, Start, Stop, Speak, PostFrame, Current, PostMoments
  <2>2. m \in req[r].moments /\ Carries(req[r].seen)
    BY <1>1, <2>1 DEF Commit
  <2>3. samples'[m] = req[r].seen /\ req[r].seen \in Started
    BY <1>1, <2>1, <2>2, CommitSamples
  <2>4. RowOK(sessions[req[r].seen])
    BY <1>1, <2>3 DEF DataInv, SessionsInv, Started
  <2> QED
    BY <1>1, <2>2, <2>3, <2>4 DEF Carries, RowOK
<1>2. DataInv /\ [Next]_vars =>
         [\A m \in credited' \ credited : Known(sessions[samples'[m]])]_credited
  BY <1>1
<1> QED
  BY <1>2, DataInvariance, PTL DEF Spec, BlendedOnlyIfUncounted

----------------------------------------------------------------------------
(* Counts over more rows are no smaller.                                   *)

LEMMA CountGrows ==
    ASSUME NEW B, IsFiniteSet(B), NEW A \in SUBSET B
    PROVE  /\ IsFiniteSet(A) /\ Cardinality(A) \in Nat /\ Cardinality(B) \in Nat
           /\ Cardinality(A) <= Cardinality(B)
  BY FS_Subset, FS_CardinalityType

LEMMA PeopleGrow ==
    ASSUME NEW B, IsFiniteSet(B), NEW A \in SUBSET B
    PROVE  People(A) \in Nat /\ People(B) \in Nat /\ People(A) <= People(B)
<1> DEFINE Who(rows) == {<<x.session, x.track>> : x \in rows}
           f == [x \in B |-> <<x.session, x.track>>]
<1>1. f \in Surjection(B, Who(B))
  BY DEF Surjection
<1>2. IsFiniteSet(Who(B))
  <2> HIDE DEF f, Who
  <2> QED
    BY <1>1, FS_Surjection
<1>3. Who(A) \in SUBSET Who(B)
  OBVIOUS
<1>4. People(A) = Cardinality(Who(A)) /\ People(B) = Cardinality(Who(B))
  BY DEF People
<1> HIDE DEF Who
<1> QED
  BY <1>2, <1>3, <1>4, CountGrows

LEMMA TilesGrow ==
    ASSUME NEW B, IsFiniteSet(B), NEW A \in SUBSET B, NEW s, NEW c \in Counts
    PROVE  /\ SessionTiles(A, s)[c] \in Nat /\ SessionTiles(B, s)[c] \in Nat
           /\ SessionTiles(A, s)[c] <= SessionTiles(B, s)[c]
<1> DEFINE Own(rows) == {x \in rows : x.session = s}
           Dwell(rows) == OfKind(Own(rows), "dwell")
           Passed(rows) == OfKind(Own(rows), "passerby")
           Engaged(rows) == {x \in Dwell(rows) : x.tier \in {"engaged", "deep"}}
           Deep(rows) == {x \in Dwell(rows) : x.tier = "deep"}
           Close(rows) == OfKind(Own(rows), "close_approach")
           Tiles(rows) == [reach |-> People(Passed(rows)), gross |-> Cardinality(Passed(rows)),
                           paused |-> People(Dwell(rows)), engaged |-> People(Engaged(rows)),
                           deep |-> People(Deep(rows)), close |-> Cardinality(Close(rows))]
<1>1. /\ Passed(B) \in SUBSET B /\ Dwell(B) \in SUBSET B /\ Engaged(B) \in SUBSET B
      /\ Deep(B) \in SUBSET B /\ Close(B) \in SUBSET B
      /\ Passed(A) \in SUBSET Passed(B) /\ Dwell(A) \in SUBSET Dwell(B)
      /\ Engaged(A) \in SUBSET Engaged(B) /\ Deep(A) \in SUBSET Deep(B) /\ Close(A) \in SUBSET Close(B)
  BY DEF OfKind
<1>2. SessionTiles(A, s) = Tiles(A) /\ SessionTiles(B, s) = Tiles(B)
  BY Zenon DEF SessionTiles
<1> HIDE DEF Passed, Dwell, Engaged, Deep, Close
<1>3. /\ IsFiniteSet(Passed(B)) /\ IsFiniteSet(Dwell(B)) /\ IsFiniteSet(Engaged(B))
      /\ IsFiniteSet(Deep(B)) /\ IsFiniteSet(Close(B))
  BY <1>1, FS_Subset
<1>4. CASE c = "reach"
  <2>1. SessionTiles(A, s)[c] = People(Passed(A)) /\ SessionTiles(B, s)[c] = People(Passed(B))
    BY <1>2, <1>4
  <2> QED
    BY <1>1, <1>3, <2>1, PeopleGrow
<1>5. CASE c = "gross"
  <2>1. SessionTiles(A, s)[c] = Cardinality(Passed(A)) /\ SessionTiles(B, s)[c] = Cardinality(Passed(B))
    BY <1>2, <1>5
  <2> QED
    BY <1>1, <1>3, <2>1, CountGrows
<1>6. CASE c = "paused"
  <2>1. SessionTiles(A, s)[c] = People(Dwell(A)) /\ SessionTiles(B, s)[c] = People(Dwell(B))
    BY <1>2, <1>6
  <2> QED
    BY <1>1, <1>3, <2>1, PeopleGrow
<1>7. CASE c = "engaged"
  <2>1. SessionTiles(A, s)[c] = People(Engaged(A)) /\ SessionTiles(B, s)[c] = People(Engaged(B))
    BY <1>2, <1>7
  <2> QED
    BY <1>1, <1>3, <2>1, PeopleGrow
<1>8. CASE c = "deep"
  <2>1. SessionTiles(A, s)[c] = People(Deep(A)) /\ SessionTiles(B, s)[c] = People(Deep(B))
    BY <1>2, <1>8
  <2> QED
    BY <1>1, <1>3, <2>1, PeopleGrow
<1>9. CASE c = "close"
  <2>1. SessionTiles(A, s)[c] = Cardinality(Close(A)) /\ SessionTiles(B, s)[c] = Cardinality(Close(B))
    BY <1>2, <1>9
  <2> QED
    BY <1>1, <1>3, <2>1, CountGrows
<1> QED
  BY <1>4, <1>5, <1>6, <1>7, <1>8, <1>9 DEF Counts

LEMMA RollupGrows ==
    ASSUME NEW B, IsFiniteSet(B), NEW A \in SUBSET B, NEW T, IsFiniteSet(T), NEW S \in SUBSET T,
           NEW c \in Counts
    PROVE  Rollup(A, S)[c] <= Rollup(B, T)[c]
<1> DEFINE f == [s \in S |-> SessionTiles(A, s)[c]]
           g == [s \in S |-> SessionTiles(B, s)[c]]
           h == [s \in T |-> SessionTiles(B, s)[c]]
<1>1. IsFiniteSet(S)
  BY FS_Subset
<1>2. \A s : /\ SessionTiles(A, s)[c] \in Nat /\ SessionTiles(B, s)[c] \in Nat
             /\ SessionTiles(A, s)[c] <= SessionTiles(B, s)[c]
  BY TilesGrow
<1>3. Rollup(A, S)[c] = SumFunctionOnSet(f, S) /\ Rollup(B, T)[c] = SumFunctionOnSet(h, T)
  BY DEF Rollup
<1>4. /\ \A s \in S : f[s] \in Int /\ h[s] \in Int /\ f[s] <= h[s]
      /\ \A s \in T : h[s] \in Nat
  BY <1>2
<1> HIDE DEF f, h
<1>5. SumFunctionOnSet(f, S) <= SumFunctionOnSet(h, S)
  BY <1>1, <1>4, SumMonotone
<1>6. SumFunctionOnSet(h, S) <= SumFunctionOnSet(h, T)
  BY <1>4, SumSubset
<1>7. /\ SumFunctionOnSet(f, S) \in Int /\ SumFunctionOnSet(h, S) \in Int
      /\ SumFunctionOnSet(h, T) \in Int
  BY <1>1, <1>4, SumType
<1> QED
  BY <1>3, <1>5, <1>6, <1>7

(* No step takes a sample or a campaign from a session.                    *)
LEMMA NothingTaken ==
    ASSUME DataInv, Shape', [Next]_vars
    PROVE  /\ \A m \in Stored : samples'[m] = samples[m]
           /\ \A s \in Sessions : sessions[s].bound => sessions'[s].bound
<1>1. CASE UNCHANGED <<sessions, samples>>
  BY <1>1
<1>2. ASSUME NEW r \in Requests, Commit(r)
      PROVE  /\ \A m \in Stored : samples'[m] = samples[m]
             /\ \A s \in Sessions : sessions[s].bound => sessions'[s].bound
  <2>0. /\ sessions \in [Sessions -> Session] /\ SessionsInv /\ req[r] \in RequestType /\ Holds(r)
    BY DEF DataInv, Shape
  <2>1. \A row \in Session, state \in {"replaced", "stopped"} : [row EXCEPT !.state = state].bound = row.bound
    BY DEF Session
  <2>2. ASSUME NEW s \in Sessions, sessions[s].bound PROVE sessions'[s].bound
    <3>1. s \in Started
      BY <2>0, <2>2 DEF SessionsInv, Absent
    <3>2. PICK n \in 0..MaxSessions : Started = 1..n
      BY <2>0 DEF SessionsInv
    <3>3. s # Cardinality(Started) + 1
      BY <3>1, <3>2, FS_Interval
    <3>4. \/ sessions'[s] = sessions[s]
          \/ \E state \in {"replaced", "stopped"} : sessions'[s] = [sessions[s] EXCEPT !.state = state]
      <4>1. CASE req[r].kind = "start"
        BY <1>2, <3>3, <4>1 DEF Commit
      <4>2. CASE req[r].kind # "start"
        BY <1>2, <2>0, <4>2 DEF Commit
      <4> QED
        BY <4>1, <4>2
    <3>5. ASSUME NEW state \in {"replaced", "stopped"}, sessions'[s] = [sessions[s] EXCEPT !.state = state]
          PROVE  sessions'[s].bound = sessions[s].bound
      <4>1. sessions[s] \in Session
        BY <2>0
      <4> QED
        BY <2>1, <3>5, <4>1
    <3> QED
      BY <2>2, <3>4, <3>5
  <2> QED
    BY <1>2, <2>2, CommitSamples
<1>3. ASSUME NEW d \in Displays, EditPlaylist(d)
      PROVE  /\ \A m \in Stored : samples'[m] = samples[m]
             /\ \A s \in Sessions : sessions[s].bound => sessions'[s].bound
  <2>1. \A s \in Sessions : sessions'[s].bound = sessions[s].bound
    BY <1>3, EditRows DEF DataInv
  <2> QED
    BY <1>3, <2>1 DEF EditPlaylist
<1> QED
  BY <1>1, <1>2, <1>3 DEF Next, vars, Handle, Drop, Restart, Age, Assign, ReadStart, ReadStop, ReadOpen, Begin,
                          Start, Stop, Speak, PostFrame, Current, PostMoments

(* What the panel and the reports have shown is never taken back, however  *)
(* uploads are repeated, overlap or are sent in another session.           *)
THEOREM CountsGrow == Spec => CountsNeverShrink
<1> DEFINE Kept(before, after, old, new) ==
             \A c \in Counts : /\ before[c] <= after[c]
                               /\ \A s \in Sessions : SessionTiles(old, s)[c] <= SessionTiles(new, s)[c]
<1>1. ASSUME DataInv, DataInv', [Next]_vars
      PROVE  Kept(Rollup(Rows, CampaignSessions), Rollup(Rows', CampaignSessions'), Rows, Rows')
  <2> DEFINE RowOf(m, sam) == [moment |-> m, session |-> sam, track |-> MomentOf[m].track,
                               kind |-> MomentOf[m].kind, tier |-> MomentOf[m].tier]
             f == [m \in Stored' |-> RowOf(m, samples'[m])]
  <2>1. /\ \A m \in Stored : samples'[m] = samples[m]
        /\ \A s \in Sessions : sessions[s].bound => sessions'[s].bound
    BY <1>1, NothingTaken DEF DataInv
  <2>2. /\ Rows = {RowOf(m, samples[m]) : m \in Stored}
        /\ Rows' = {RowOf(m, samples'[m]) : m \in Stored'}
    BY DEF Rows, Stored
  <2>3. Stored \subseteq Stored'
    BY <2>1 DEF Stored
  <2>4. Rows \in SUBSET Rows'
    <3> HIDE DEF RowOf
    <3> QED
      BY <2>1, <2>2, <2>3
  <2>5. IsFiniteSet(Rows')
    <3>1. IsFiniteSet(Stored')
      BY FS_Subset DEF Stored
    <3> HIDE DEF RowOf
    <3>2. f \in Surjection(Stored', Rows')
      BY <2>2 DEF Surjection
    <3> HIDE DEF f
    <3> QED
      BY <3>1, <3>2, FS_Surjection
  <2>6. CampaignSessions \in SUBSET CampaignSessions' /\ IsFiniteSet(CampaignSessions')
    <3>1. IsFiniteSet(Sessions)
      BY FS_Interval DEF Sessions
    <3>2. CampaignSessions' \in SUBSET Sessions
      BY DEF CampaignSessions
    <3> QED
      BY <2>1, <3>1, <3>2, FS_Subset DEF CampaignSessions
  <2> QED
    BY <2>4, <2>5, <2>6, RollupGrows, TilesGrow
<1>2. DataInv /\ DataInv' /\ [Next]_vars =>
         [\/ UNCHANGED <<sessions, samples>>
          \/ Kept(Rollup(Rows, CampaignSessions), Rollup(Rows', CampaignSessions'), Rows, Rows')]_<<sessions, samples>>
  BY <1>1
<1> QED
  BY <1>2, DataInvariance, PTL DEF Spec, CountsNeverShrink
=============================================================================
