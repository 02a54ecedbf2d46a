------------------------- MODULE RobotWindowsProofs -------------------------
(***************************************************************************)
(* What holds of the windows of every set of robots, displays, keys and    *)
(* requests, however many of them overlap, wait, fail and die.             *)
(*                                                                         *)
(* WindowsInv says what a request in flight has done: which rows it may    *)
(* reach, that it holds a version of every row it has written, made from   *)
(* the row as it still is, and that no two requests write a row, open the  *)
(* same window or fight over a display.  LocalStep carries it past every   *)
(* step that commits nothing; a commit is described once by CommitRows.    *)
(* The theorems add to it one invariant each: LogInv, SessionInv and       *)
(* AloneInv.                                                               *)
(***************************************************************************)
EXTENDS RobotWindows, FiniteSetTheorems, TLAPS

----------------------------------------------------------------------------
(* The inductive invariant.                                                *)

\* The requests whose time stamp, if they have one, has been taken.
Stamped == {j \in Begun : Kind[j] = "stop" => req[j].stage # "look"}

\* Each request moves the clock once.
ClockInv ==
    /\ IsFiniteSet(Begun)
    /\ Cardinality(Begun) <= MaxRequests
    /\ clock <= Cardinality(Stamped)

\* Windows have a key, one of a table and robot is open, and none begins or ends
\* after the latest request on its robot that has committed.
RowsInv ==
    /\ \A w, x \in rows : Id(w) = Id(x) => w = x
    /\ \A w, x \in rows : Same(w, x) /\ w.to = Open /\ x.to = Open => w = x
    /\ \A w \in rows : w.from <= newest[w.robot] /\ w.to <= newest[w.robot]
    /\ \A b \in Robots : newest[b] <= clock

\* What a request of each kind has done at each stage.
StageInv(j) ==
    /\ req[j].stage # "failed"
    /\ req[j].stage = "new" => req[j] = Unsent
    /\ req[j].stamp <= clock
    /\ req[j].stage # "apply" => req[j].targets = {}
    /\ req[j].stage \in {"new", "look", "done"} => req[j].wrote = {} /\ req[j].new = {}
    /\ Active(j) => req[j].at \in On[j] /\ req[j].left \subseteq On[j] \ {req[j].at}
    /\ req[j].stage = "look" => Kind[j] \in Sdk
    /\ req[j].stage = "stmt" => Kind[j] # "stop"
    /\ req[j].stage = "stmt" /\ ~Opener(j) => req[j].wrote = {} /\ req[j].new = {}
    /\ req[j].stage = "open" => Opener(j)
    /\ Active(j) /\ Kind[j] = "assign" => req[j].tbl = "assignment"
    /\ Active(j) /\ Kind[j] = "start" /\ req[j].stage # "look" /\ req[j].tbl = "assignment"
          => Shows[j] # None

\* The rows a request is about to write, or has written, are those of its robots.
Reach(j, i) ==
    /\ i.robot \in On[j]
    /\ Kind[j] = "stop" => i.tbl = "session"
    /\ Kind[j] \in {"assign", "unassign"} => i.tbl = "assignment"

\* A window that a request has inserted.
InsertedBy(j, x) ==
    /\ Opener(j)
    /\ x.from = req[j].stamp /\ x.to = Open /\ x.disp = Shows[j]
    /\ x.robot \in On[j] \ req[j].left
    /\ IF x.tbl = "assignment" THEN Shows[j] # None
       ELSE Kind[j] = "start" /\ req[j].tbl = "session"
    /\ req[j].stage # "commit" /\ x.robot = req[j].at => x.tbl # req[j].tbl

\* A request holds a version of every row that it has written, made from the row
\* as it still is, and the windows that it has inserted.
VersionInv(j) ==
    /\ \A i \in req[j].targets :
          Reach(j, i) /\ (Opener(j) => i.tbl = req[j].tbl /\ i.robot = req[j].at)
    /\ \A i \in req[j].wrote :
          /\ Reach(j, i)
          /\ \E w \in rows : /\ Id(w) = i /\ StillMatches(j, w) /\ ~BadInterval(j, w)
                             /\ Versions(j, w) \subseteq req[j].new
    /\ \A x \in req[j].new :
          IF Id(x) \in req[j].wrote
          THEN \E w \in rows : Id(w) = Id(x) /\ x \in Versions(j, w)
          ELSE InsertedBy(j, x)

\* The stamp of an active opener is no window's yet.
FreshInv(j) == Active(j) /\ Opener(j) => \A w \in rows : w.from # req[j].stamp

\* Whoever leaves a window open has written the one that was.
OpenInv(j) ==
    \A x \in req[j].new : x.to = Open =>
        /\ \A w \in OpenRows(x.tbl, x.robot) : Id(w) \in req[j].wrote
        /\ \A y \in req[j].new : Same(x, y) /\ y.to = Open => x = y

\* A deletion gets hold of every window of its display.
DisplayInv(j) ==
    /\ \A x \in Inserted(j) : x.disp \in displays \cup {None}
    /\ Deleting(j) =>
          \A w \in rows : w.disp = Shows[j] => Id(w) \in req[j].wrote \cup req[j].targets

\* Two requests write different rows, leave different windows open, and do not
\* insert a window of a display and delete it.
LockInv(j, q) ==
    /\ req[j].wrote \cap req[q].wrote = {}
    /\ Active(j) /\ Active(q) /\ Opener(j) /\ Opener(q) => req[j].stamp # req[q].stamp
    /\ \A x \in req[j].new, y \in req[q].new : ~(Same(x, y) /\ x.to = Open /\ y.to = Open)
    /\ Deleting(q) => \A x \in Inserted(j) : x.disp # Shows[q]

OwnInv(j) == StageInv(j) /\ VersionInv(j) /\ FreshInv(j) /\ OpenInv(j) /\ DisplayInv(j)

WindowsInv ==
    /\ TypeOK /\ ClockInv /\ RowsInv
    /\ \A j \in Jobs : OwnInv(j)
    /\ \A j, q \in Jobs : j # q => LockInv(j, q)

\* A request that is alone finds the rows of its robots as it left them: they are
\* older than its stamp, its display exists, an opener is about to close the windows
\* that are open, and a start that goes on to its session has found or opened the
\* assignment of its display.
Undisturbed(j) ==
    /\ j \in Stamped => \A w \in rows : w.robot \in On[j] => w.from < req[j].stamp
    /\ Kind[j] = "start" /\ req[j].stage # "look" => Shows[j] \in displays \cup {None}
    /\ Kind[j] \notin Sdk => Shows[j] \in displays
    /\ Opener(j) /\ req[j].stage \in {"apply", "open"} =>
          \A w \in OpenRows(req[j].tbl, req[j].at) : Id(w) \in req[j].wrote \cup req[j].targets
    /\ /\ Kind[j] = "start" /\ Shows[j] # None /\ req[j].stage # "look"
       /\ req[j].stage = "commit" \/ req[j].tbl = "session"
       => \E w \in req[j].new \cup {x \in rows : Id(x) \notin req[j].wrote} :
             w.tbl = "assignment" /\ w.robot = req[j].at /\ w.to = Open /\ w.disp = Shows[j]

AloneInv == \A j \in Jobs : Active(j) /\ req[j].alone => Undisturbed(j)

\* Two windows share no time.
Apart(w, x) == \A t \in Times : ~(Within(w, t) /\ Within(x, t))

\* Windows of the history of assignments that no late commit opened are apart.
LogInv ==
    \A w, x \in rows :
        Same(w, x) /\ w # x /\ w.tbl = "assignment" /\ {Id(w), Id(x)} \cap late = {} => Apart(w, x)

\* One fleet key has been used on a robot.
OneKey(b) ==
    \A j, q \in Begun : Kind[j] \in Sdk /\ Kind[q] \in Sdk /\ On[j] = {b} /\ On[q] = {b}
                        => KeyOf[j] = KeyOf[q]

\* The requests of fleet keys on a robot.
OnRobot(j, b) == Kind[j] \in Sdk /\ On[j] = {b}

\* A start comes after every session of its robot; a stop ends an open one.
SessionSerial(j, b) ==
    /\ Kind[j] = "start" =>
          \A w \in rows : w.tbl = "session" /\ w.robot = b
                          => w.from < req[j].stamp /\ w.to < req[j].stamp
    /\ Kind[j] = "stop" =>
          \A w \in rows : Id(w) \in req[j].wrote \cup req[j].targets => w.to = Open

\* The requests of one key on a robot come one after another.
SessionInv ==
    \A b \in Robots : OneKey(b) =>
        /\ \A w, x \in rows : Same(w, x) /\ w # x /\ w.tbl = "session" /\ w.robot = b => Apart(w, x)
        /\ \A j, q \in Jobs : Active(j) /\ Active(q) /\ OnRobot(j, b) /\ OnRobot(q, b) => j = q
        /\ \A j \in Jobs : Active(j) /\ OnRobot(j, b) => SessionSerial(j, b)

----------------------------------------------------------------------------
(* Keys and versions of windows.                                           *)

LEMMA IdOfWindow ==
    ASSUME TypeOK, NEW w \in Windows
    PROVE  Id(w) \in RowIds /\ Id(w).tbl = w.tbl /\ Id(w).robot = w.robot /\ Id(w).from = w.from
  BY DEF Id, Windows, RowIds

LEMMA IdsAgree ==
    ASSUME NEW w \in Windows, NEW x \in Windows
    PROVE  Id(w) = Id(x) <=> Same(w, x) /\ w.from = x.from
<1>1. Id(w) = Id(x) => Same(w, x) /\ w.from = x.from
  <2>1. Id(w).tbl = w.tbl /\ Id(w).robot = w.robot /\ Id(w).from = w.from
    BY DEF Id
  <2>2. Id(x).tbl = x.tbl /\ Id(x).robot = x.robot /\ Id(x).from = x.from
    BY DEF Id
  <2> QED
    BY <2>1, <2>2 DEF Same
<1> QED
  BY <1>1 DEF Id, Same

(* A version has the key of its row; a request other than a deletion sets  *)
(* its end and nothing else, a deletion takes the display from a session.  *)
LEMMA VersionOfWindow ==
    ASSUME NEW j \in Jobs, NEW w \in Windows, NEW x \in Versions(j, w), req[j].stamp \in Times
    PROVE  /\ x \in Windows /\ Id(x) = Id(w) /\ Same(x, w) /\ x.from = w.from
           /\ Kind[j] # "delete" =>
                 x = [w EXCEPT !.to = x.to] /\ x.to = req[j].stamp /\ x.disp = w.disp
           /\ Kind[j] = "delete" => x.to = w.to /\ x.disp = None /\ w.tbl = "session"
           /\ \A y \in Versions(j, w) : y = x
<1>1. CASE Kind[j] # "delete"
  <2>1. x = [w EXCEPT !.to = req[j].stamp] /\ \A y \in Versions(j, w) : y = x
    BY <1>1 DEF Versions
  <2> QED
    BY <1>1, <2>1 DEF Windows, Id, Same
<1>2. CASE Kind[j] = "delete"
  <2>1. w.tbl = "session" /\ x = [w EXCEPT !.disp = None] /\ \A y \in Versions(j, w) : y = x
    BY <1>2 DEF Versions
  <2>2. x \in Windows /\ x.tbl = w.tbl /\ x.robot = w.robot /\ x.from = w.from /\ x.disp = None /\ x.to = w.to
    BY <2>1 DEF Windows
  <2> QED
    BY <1>2, <2>1, <2>2 DEF Id, Same
<1> QED
  BY <1>1, <1>2

(* A statement writes rows that end after they begin, and leaves them so.  *)
LEMMA VersionInterval ==
    ASSUME TypeOK, NEW j \in Jobs, NEW w \in rows, NEW x \in Versions(j, w), ~BadInterval(j, w)
    PROVE  /\ x.to # Open => x.from < x.to
           /\ Kind[j] # "delete" => x.to # Open
<1>1. w \in Windows /\ req[j].stamp \in Times /\ (w.to # Open => w.from < w.to)
  BY DEF TypeOK, Requests
<1>2. /\ x.from = w.from
      /\ Kind[j] # "delete" => x.to = req[j].stamp
      /\ Kind[j] = "delete" => x.to = w.to
  BY <1>1, VersionOfWindow
<1>3. w.from \in Nat /\ req[j].stamp \in Nat
  BY <1>1, WindowsAssumption DEF Windows, Times
<1> QED
  BY <1>1, <1>2, <1>3 DEF BadInterval, Open

----------------------------------------------------------------------------
(* What each step does to its request.                                     *)
(* The clock has moved once for each request that took its stamp.          *)
LEMMA ClockType ==
    ASSUME ClockInv', clock' \in Nat
    PROVE  clock' \in Times
<1>1. IsFiniteSet(Stamped') /\ Cardinality(Stamped') <= Cardinality(Begun')
  BY FS_Subset DEF ClockInv, Stamped
<1>2. Cardinality(Stamped') \in Nat /\ Cardinality(Begun') \in Nat
  BY <1>1, FS_CardinalityType DEF ClockInv
<1> QED
  BY <1>1, <1>2, WindowsAssumption DEF ClockInv, Times

LEMMA ClockKept ==
    ASSUME TypeOK, ClockInv, NEW j \in Jobs, clock' = clock,
           \A q \in Jobs \ {j} : req'[q].stage = req[q].stage,
           req[j].stage # "new", req'[j].stage \notin {"new", "look"}
    PROVE  ClockInv'
<1>1. Begun' = Begun /\ Stamped \subseteq Stamped' /\ Stamped' \subseteq Begun
  BY DEF Begun, Stamped
<1>2. IsFiniteSet(Stamped') /\ Cardinality(Stamped) <= Cardinality(Stamped')
  BY <1>1, FS_Subset DEF ClockInv
<1>3. IsFiniteSet(Stamped) /\ Cardinality(Stamped) \in Nat /\ Cardinality(Stamped') \in Nat
  BY <1>1, <1>2, FS_CardinalityType, FS_Subset
<1>4. clock \in Nat
  BY WindowsAssumption DEF TypeOK, Times
<1> QED
  BY <1>1, <1>2, <1>3, <1>4 DEF ClockInv

LEMMA ClockMoved ==
    ASSUME TypeOK, ClockInv, NEW j \in Jobs, clock' = clock + 1,
           \A q \in Jobs \ {j} : req'[q] = req[q],
           j \notin Stamped, j \in Stamped',
           j \notin Begun => Cardinality(Begun) < MaxRequests
    PROVE  ClockInv'
<1>1. Begun' = Begun \cup {j} /\ Stamped' = Stamped \cup {j}
  BY DEF Begun, Stamped
<1>2. IsFiniteSet(Stamped) /\ IsFiniteSet(Begun)
  BY FS_Subset DEF ClockInv, Stamped
<1>3. /\ Cardinality(Stamped') = Cardinality(Stamped) + 1
      /\ IsFiniteSet(Begun')
      /\ Cardinality(Begun') = IF j \in Begun THEN Cardinality(Begun) ELSE Cardinality(Begun) + 1
  BY <1>1, <1>2, FS_AddElement
<1>4. Cardinality(Stamped) \in Nat /\ Cardinality(Begun) \in Nat /\ clock \in Nat /\ MaxRequests \in Nat
  BY <1>2, FS_CardinalityType, WindowsAssumption DEF TypeOK, Times
<1> QED
  BY <1>3, <1>4 DEF ClockInv

(* A step of one request that commits nothing concerns that request only.  *)
LEMMA LocalStep ==
    ASSUME WindowsInv, NEW j \in Jobs,
           UNCHANGED <<rows, displays, newest, late>>,
           clock' \in Nat, clock <= clock', ClockInv',
           req' = [req EXCEPT ![j] = req'[j]], req'[j] \in Requests,
           OwnInv(j)', \A q \in Jobs \ {j} : LockInv(j, q)' /\ LockInv(q, j)'
    PROVE  WindowsInv'
<1>0. TypeOK
  BY DEF WindowsInv
<1>1. TypeOK'
  <2>1. clock' \in Times
    BY ClockType
  <2>2. req' \in [Jobs -> Requests]
    BY DEF WindowsInv, TypeOK
  <2> QED
    BY <1>0, <2>1, <2>2 DEF TypeOK
<1>2. clock \in Nat /\ \A q \in Jobs : req[q].stamp \in Nat /\ \A b \in Robots : newest[b] \in Nat
  BY <1>0, WindowsAssumption DEF TypeOK, Times, Requests
<1>3. RowsInv'
  BY <1>2 DEF WindowsInv, RowsInv, Id, Same
<1>4. \A q \in Jobs \ {j} : req'[q] = req[q]
  BY <1>0 DEF TypeOK
<1>5. ASSUME NEW q \in Jobs \ {j} PROVE OwnInv(q)'
  <2>1. StageInv(q)'
    BY <1>2, <1>4 DEF WindowsInv, OwnInv, StageInv, Active
  <2>2. VersionInv(q)'
    <3>1. \A w : /\ StillMatches(q, w)' = StillMatches(q, w)
                 /\ BadInterval(q, w)' = BadInterval(q, w)
                 /\ Versions(q, w)' = Versions(q, w)
      BY <1>4 DEF StillMatches, BadInterval, Versions
    <3>2. \A x : InsertedBy(q, x)' <=> InsertedBy(q, x)
      BY <1>4 DEF InsertedBy
    <3>3. VersionInv(q)
      BY DEF WindowsInv, OwnInv
    <3> QED
      BY <1>4, <3>1, <3>2, <3>3 DEF VersionInv
  <2>3. FreshInv(q)'
    BY <1>4 DEF WindowsInv, OwnInv, FreshInv, Active
  <2>4. OpenInv(q)'
    BY <1>4 DEF WindowsInv, OwnInv, OpenInv, OpenRows, Id, Same
  <2>5. DisplayInv(q)'
    BY <1>4 DEF WindowsInv, OwnInv, DisplayInv, Inserted, Deleting, Id
  <2> QED
    BY <2>1, <2>2, <2>3, <2>4, <2>5 DEF OwnInv
<1>6. ASSUME NEW p \in Jobs \ {j}, NEW q \in Jobs \ {j}, p # q PROVE LockInv(p, q)'
  BY <1>4, <1>6 DEF WindowsInv, LockInv, Active, Same, Deleting, Inserted, Id
<1> QED
  BY <1>1, <1>3, <1>5, <1>6 DEF WindowsInv

(* A request that holds no row disturbs nobody.                            *)
LEMMA QuietStep ==
    ASSUME WindowsInv, NEW j \in Jobs,
           UNCHANGED <<rows, displays, newest, late>>,
           clock' \in Nat, clock <= clock', ClockInv',
           req' = [req EXCEPT ![j] = req'[j]], req'[j] \in Requests,
           req'[j].wrote = {}, req'[j].new = {}, req'[j].stage \notin {"apply", "commit"},
           StageInv(j)', FreshInv(j)',
           \A q \in Jobs \ {j} : Active(j)' /\ Active(q) /\ Opener(j) /\ Opener(q)
                                 => req'[j].stamp # req[q].stamp
    PROVE  WindowsInv'
<1>0. \A q \in Jobs \ {j} : req'[q] = req[q]
  BY DEF WindowsInv, TypeOK
<1>1. req'[j].targets = {} /\ ~Deleting(j)' /\ Inserted(j)' = {}
  BY DEF StageInv, Deleting, Inserted
<1>2. VersionInv(j)'
  BY <1>1 DEF VersionInv
<1>3. OpenInv(j)' /\ DisplayInv(j)'
  BY <1>1 DEF OpenInv, DisplayInv
<1>4. \A q \in Jobs \ {j} : LockInv(j, q)' /\ LockInv(q, j)'
  <2> SUFFICES ASSUME NEW q \in Jobs \ {j} PROVE LockInv(j, q)' /\ LockInv(q, j)'
    OBVIOUS
  <2>1. Active(q)' <=> Active(q)
    BY <1>0 DEF Active
  <2> QED
    BY <1>0, <1>1, <2>1 DEF LockInv, Opener
<1> QED
  BY <1>2, <1>3, <1>4, LocalStep DEF OwnInv

LEMMA OverIsQuiet ==
    /\ Over.stage = "done" /\ Over.stamp = 0 /\ Over.wrote = {} /\ Over.new = {} /\ Over.targets = {}
    /\ Over \in Requests
<1>1. Unsent \in Requests
  BY WindowsAssumption DEF Unsent, Requests, Stages, Times, Tables
<1> QED
  BY <1>1 DEF Over, Unsent, Requests, Stages

LEMMA EndStep ==
    ASSUME WindowsInv, NEW j \in Jobs, Active(j), req' = [req EXCEPT ![j] = Over],
           UNCHANGED <<rows, displays, clock, history>>
    PROVE  WindowsInv'
<1>1. TypeOK /\ ClockInv /\ clock \in Nat /\ MaxRequests \in Nat
  BY WindowsAssumption DEF WindowsInv, TypeOK, Times
<1>2. req'[j] = Over /\ req' = [req EXCEPT ![j] = req'[j]] /\ \A q \in Jobs \ {j} : req'[q] = req[q]
  BY <1>1 DEF TypeOK
<1>3. ClockInv'
  BY <1>1, <1>2, ClockKept, OverIsQuiet DEF Active
<1>4. ~Active(j)' /\ StageInv(j)' /\ FreshInv(j)'
  BY <1>1, <1>2, OverIsQuiet DEF StageInv, FreshInv, Active
<1>5. UNCHANGED <<rows, displays, newest, late>> /\ clock' \in Nat /\ clock <= clock'
  BY <1>1 DEF history
<1>6. /\ req'[j] \in Requests /\ req'[j].wrote = {} /\ req'[j].new = {}
      /\ req'[j].stage \notin {"apply", "commit"}
  BY <1>2, OverIsQuiet
<1> QED
  BY <1>2, <1>3, <1>4, <1>5, <1>6, QuietStep

LEMMA StampsPast ==
    ASSUME WindowsInv
    PROVE  /\ clock \in Nat
           /\ \A w \in rows : w.from \in Nat /\ w.to \in Nat /\ w.from <= clock /\ w.to <= clock
           /\ \A q \in Jobs : req[q].stamp \in Nat /\ req[q].stamp <= clock
<1>1. clock \in Nat /\ (\A b \in Robots : newest[b] \in Nat) /\ \A q \in Jobs : req[q].stamp \in Nat
  BY WindowsAssumption DEF WindowsInv, TypeOK, Times, Requests
<1>2. \A w \in rows : w.from \in Nat /\ w.to \in Nat /\ w.robot \in Robots
  BY WindowsAssumption DEF WindowsInv, TypeOK, Times, Windows
<1> QED
  BY <1>1, <1>2 DEF WindowsInv, RowsInv, OwnInv, StageInv

LEMMA BeginStep ==
    ASSUME WindowsInv, NEW j \in Jobs, Begin(j)
    PROVE  WindowsInv'
<1>0. TypeOK /\ ClockInv /\ req[j] \in Requests
  BY DEF WindowsInv, TypeOK
<1>1. PICK b \in On[j] :
          req' = [req EXCEPT ![j] = [@ EXCEPT
                    !.stage = IF Kind[j] \in Sdk THEN "look" ELSE "stmt",
                    !.stamp = clock', !.left = On[j] \ {b}, !.at = b]]
  BY DEF Begin
<1>2. On[j] \subseteq Robots /\ b \in Robots
  BY <1>1, WindowsAssumption
<1>3. /\ req[j].wrote = {} /\ req[j].new = {} /\ req[j].targets = {}
      /\ req[j].stage = "new" /\ req[j].tbl = "assignment"
  BY DEF WindowsInv, OwnInv, StageInv, Begin, Unsent
<1>4. /\ req'[j].stage = IF Kind[j] \in Sdk THEN "look" ELSE "stmt"
      /\ req'[j].stamp = clock' /\ req'[j].left = On[j] \ {b} /\ req'[j].at = b
      /\ req'[j].wrote = {} /\ req'[j].new = {} /\ req'[j].targets = {} /\ req'[j].tbl = "assignment"
      /\ req' = [req EXCEPT ![j] = req'[j]] /\ \A q \in Jobs \ {j} : req'[q] = req[q]
  BY <1>0, <1>1, <1>3 DEF TypeOK, Requests
<1>5. clock \in Nat /\ clock' \in Nat /\ clock <= clock' /\ (Kind[j] # "stop" => clock' = clock + 1)
  BY StampsPast DEF Begin
<1>6. ClockInv'
  <2>1. CASE Kind[j] = "stop"
    <3>1. Begun' = Begun \cup {j} /\ Stamped' = Stamped /\ j \notin Begun
      BY <1>3, <1>4, <2>1 DEF Begun, Stamped, Sdk
    <3>2. IsFiniteSet(Begun') /\ Cardinality(Begun') = Cardinality(Begun) + 1
      BY <1>0, <3>1, FS_AddElement DEF ClockInv
    <3>3. Cardinality(Begun) \in Nat /\ Cardinality(Begun) < MaxRequests /\ MaxRequests \in Nat
      BY <1>0, FS_CardinalityType, WindowsAssumption DEF ClockInv, Begin
    <3> QED
      BY <1>0, <2>1, <3>1, <3>2, <3>3 DEF ClockInv, Begin
  <2>2. CASE Kind[j] # "stop"
    <3>1. j \notin Begun /\ j \notin Stamped /\ j \in Stamped'
      BY <1>3, <1>4, <2>2 DEF Begun, Stamped
    <3> QED
      BY <1>0, <1>4, <1>5, <2>2, <3>1, ClockMoved DEF Begin
  <2> QED
    BY <2>1, <2>2
<1>7. clock' \in Times
  BY <1>5, <1>6, ClockType
<1>8. req'[j] \in Requests
  BY <1>0, <1>1, <1>2, <1>7 DEF TypeOK, Requests, Stages
<1>9. StageInv(j)'
  BY <1>3, <1>4, <1>5 DEF StageInv, Active, Opener, Sdk
<1>10. FreshInv(j)'
  BY <1>4, <1>5, StampsPast DEF FreshInv, Opener, Begin
<1>11. \A q \in Jobs \ {j} : Opener(j) => req'[j].stamp # req[q].stamp
  BY <1>4, <1>5, StampsPast DEF Opener
<1> QED
  BY <1>3, <1>4, <1>5, <1>6, <1>8, <1>9, <1>10, <1>11, QuietStep DEF Begin, history

LEMMA LookStartStep ==
    ASSUME WindowsInv, NEW j \in Jobs, LookStart(j)
    PROVE  WindowsInv'
<1>0. TypeOK /\ ClockInv /\ req[j] \in Requests /\ StageInv(j) /\ FreshInv(j)
  BY DEF WindowsInv, TypeOK, OwnInv
<1>1. CASE req' = [req EXCEPT ![j] = Over]
  BY <1>1, EndStep DEF LookStart, Active
<1>2. CASE req' = [req EXCEPT ![j] = [@ EXCEPT !.stage = "stmt", !.tbl = StartTable(j)]]
  <2>1. /\ req'[j].stage = "stmt" /\ req'[j].tbl = StartTable(j)
        /\ req'[j].stamp = req[j].stamp /\ req'[j].left = req[j].left /\ req'[j].at = req[j].at
        /\ req'[j].wrote = {} /\ req'[j].new = {} /\ req'[j].targets = {}
        /\ req' = [req EXCEPT ![j] = req'[j]] /\ \A q \in Jobs \ {j} : req'[q] = req[q]
    <3>1. req[j].wrote = {} /\ req[j].new = {} /\ req[j].targets = {}
      BY <1>0 DEF LookStart, StageInv
    <3> QED
      BY <1>0, <1>2, <3>1 DEF TypeOK, Requests
  <2>2. StartTable(j) \in Tables /\ (StartTable(j) = "assignment" => Shows[j] # None)
    BY DEF StartTable, Tables
  <2>3. req'[j] \in Requests
    BY <1>0, <1>2, <2>2 DEF TypeOK, Requests, Stages
  <2>4. ClockInv'
    BY <1>0, <2>1, ClockKept DEF LookStart
  <2>5. StageInv(j)'
    BY <1>0, <2>1, <2>2 DEF StageInv, Active, Opener, LookStart
  <2>6. FreshInv(j)'
    BY <1>0, <2>1 DEF FreshInv, Active, LookStart
  <2>7. \A q \in Jobs \ {j} : Active(q) /\ Opener(j) /\ Opener(q) => req'[j].stamp # req[q].stamp
    BY <2>1 DEF WindowsInv, LockInv, Active, LookStart
  <2>8. UNCHANGED <<rows, displays, newest, late>> /\ clock' \in Nat /\ clock <= clock'
    BY StampsPast DEF LookStart, history
  <2> QED
    BY <2>1, <2>3, <2>4, <2>5, <2>6, <2>7, <2>8, QuietStep
<1> QED
  BY <1>1, <1>2 DEF LookStart
(* What a statement matches is within reach of its request.                *)
LEMMA MatchedReach ==
    ASSUME WindowsInv, NEW j \in Jobs, Active(j), NEW w \in Matched(j)
    PROVE  /\ w \in rows /\ Id(w) \in RowIds /\ Reach(j, Id(w))
           /\ Opener(j) => Id(w).tbl = req[j].tbl /\ Id(w).robot = req[j].at
<1>1. w \in rows /\ w \in Windows /\ StageInv(j)
  BY DEF WindowsInv, TypeOK, OwnInv, Matched
<1>2. Id(w) \in RowIds /\ Id(w).tbl = w.tbl /\ Id(w).robot = w.robot
  BY <1>1, IdOfWindow DEF WindowsInv
<1>3. req[j].at \in On[j] /\ w.robot \in Robots /\ (Kind[j] = "assign" => req[j].tbl = "assignment")
  BY <1>1 DEF StageInv, Windows
<1>4. CASE Opener(j)
  <2>1. w \in OpenRows(req[j].tbl, req[j].at)
    BY <1>4 DEF Matched, Opener
  <2> QED
    BY <1>1, <1>2, <1>3, <1>4, <2>1 DEF OpenRows, Reach, Opener
<1>5. CASE ~Opener(j)
  <2>1. /\ w.robot \in On[j] /\ (Kind[j] = "stop" => w.tbl = "session")
        /\ Kind[j] = "unassign" => w.tbl = "assignment"
    BY <1>3, <1>5, WindowsAssumption DEF Matched, OpenRows
  <2> QED
    BY <1>1, <1>2, <1>5, <2>1 DEF Reach, Opener
<1> QED
  BY <1>4, <1>5

LEMMA LookStopStep ==
    ASSUME WindowsInv, NEW j \in Jobs, LookStop(j)
    PROVE  WindowsInv'
<1>0. TypeOK /\ ClockInv /\ req[j] \in Requests /\ StageInv(j) /\ Active(j)
  BY DEF WindowsInv, TypeOK, OwnInv, LookStop, Active
<1>1. CASE Matched(j) = {}
  BY <1>0, <1>1, EndStep DEF LookStop
<1>2. CASE Matched(j) # {}
  <2> DEFINE T == {Id(w) : w \in Matched(j)}
  <2>1. /\ Kind[j] = "stop" /\ req[j].stage = "look" /\ clock' = clock + 1
        /\ req' = [req EXCEPT ![j] = [@ EXCEPT !.stage = "apply", !.stamp = clock', !.targets = T]]
        /\ UNCHANGED <<rows, displays, newest, late>>
    BY <1>2 DEF LookStop, history
  <2>2. T \subseteq RowIds /\ \A i \in T : Reach(j, i)
    BY <1>0, MatchedReach
  <2> HIDE DEF T
  <2>3. /\ req'[j].stage = "apply" /\ req'[j].stamp = clock' /\ req'[j].targets = T
        /\ req'[j].left = req[j].left /\ req'[j].at = req[j].at
        /\ req'[j].wrote = {} /\ req'[j].new = {}
        /\ req' = [req EXCEPT ![j] = req'[j]] /\ \A q \in Jobs \ {j} : req'[q] = req[q]
    <3>1. req[j].wrote = {} /\ req[j].new = {}
      BY <1>0, <2>1 DEF StageInv
    <3> QED
      BY <1>0, <2>1, <3>1 DEF TypeOK, Requests
  <2>4. ClockInv'
    <3>1. j \in Begun /\ j \notin Stamped /\ j \in Stamped'
      BY <2>1, <2>3 DEF Begun, Stamped
    <3> QED
      BY <1>0, <2>1, <2>3, <3>1, ClockMoved
  <2>5. clock' \in Nat /\ clock <= clock' /\ clock' \in Times
    BY <2>1, <2>4, ClockType, StampsPast
  <2>6. req'[j] \in Requests
    BY <1>0, <2>1, <2>2, <2>5 DEF TypeOK, Requests, Stages
  <2>7. StageInv(j)'
    BY <1>0, <2>1, <2>3, <2>5 DEF StageInv, Active, Opener
  <2>8. VersionInv(j)'
    BY <2>1, <2>2, <2>3 DEF VersionInv, Reach, Opener
  <2>9. FreshInv(j)' /\ OpenInv(j)' /\ DisplayInv(j)'
    BY <2>1, <2>3 DEF FreshInv, OpenInv, DisplayInv, Opener, Inserted, Deleting
  <2>10. \A q \in Jobs \ {j} : LockInv(j, q)' /\ LockInv(q, j)'
    <3> SUFFICES ASSUME NEW q \in Jobs \ {j} PROVE LockInv(j, q)' /\ LockInv(q, j)'
      OBVIOUS
    <3>1. Inserted(j)' = {} /\ ~Deleting(j)' /\ ~Opener(j)
      BY <2>1, <2>3 DEF Inserted, Deleting, Opener
    <3> QED
      BY <2>3, <3>1 DEF LockInv, Opener
  <2> QED
    BY <2>1, <2>3, <2>4, <2>5, <2>6, <2>7, <2>8, <2>9, <2>10, LocalStep DEF OwnInv
<1> QED
  BY <1>1, <1>2

LEMMA SnapshotStep ==
    ASSUME WindowsInv, NEW j \in Jobs, Snapshot(j)
    PROVE  WindowsInv'
<1>0. /\ TypeOK /\ ClockInv /\ req[j] \in Requests /\ Active(j) /\ req[j].stage = "stmt"
      /\ StageInv(j) /\ VersionInv(j) /\ FreshInv(j) /\ OpenInv(j) /\ DisplayInv(j)
  BY DEF WindowsInv, TypeOK, OwnInv, Snapshot, Active
<1> DEFINE T == {Id(w) : w \in Matched(j)}
           next == IF Matched(j) = {} THEN Written(j) ELSE "apply"
<1>1. T \subseteq RowIds /\ \A i \in T : Reach(j, i) /\ (Opener(j) => i.tbl = req[j].tbl /\ i.robot = req[j].at)
  BY <1>0, MatchedReach
<1>2. Kind[j] = "delete" => \A w \in rows : w.disp = Shows[j] => Id(w) \in T
  BY DEF Matched
<1>3. /\ next \in {"open", "commit", "apply"} /\ (next = "open" => Opener(j)) /\ (next # "apply" => T = {})
      /\ (next = "commit" => ~Opener(j))
  BY DEF Written
<1>4. req' = [req EXCEPT ![j] = [@ EXCEPT !.stage = next, !.targets = T]]
  BY DEF Snapshot
<1>5. UNCHANGED <<rows, displays, clock, newest, late>> /\ clock \in Nat
  BY StampsPast DEF Snapshot, history
<1> HIDE DEF T, next
<1>6. /\ req'[j].stage = next /\ req'[j].targets = T
      /\ req'[j].stamp = req[j].stamp /\ req'[j].left = req[j].left /\ req'[j].at = req[j].at
      /\ req'[j].wrote = req[j].wrote /\ req'[j].new = req[j].new /\ req'[j].tbl = req[j].tbl
      /\ req' = [req EXCEPT ![j] = req'[j]] /\ \A q \in Jobs \ {j} : req'[q] = req[q]
  BY <1>0, <1>4 DEF TypeOK, Requests
<1>7. ClockInv'
  BY <1>0, <1>3, <1>5, <1>6, ClockKept
<1>8. req'[j] \in Requests
  BY <1>0, <1>1, <1>3, <1>4 DEF TypeOK, Requests, Stages
<1>9. StageInv(j)'
  BY <1>0, <1>3, <1>5, <1>6 DEF StageInv, Active, Opener
<1>10. VersionInv(j)'
  <2>1. \A w : /\ StillMatches(j, w)' = StillMatches(j, w)
               /\ BadInterval(j, w)' = BadInterval(j, w)
               /\ Versions(j, w)' = Versions(j, w)
    BY <1>6 DEF StillMatches, BadInterval, Versions
  <2>2. \A x : InsertedBy(j, x) => InsertedBy(j, x)'
    BY <1>0, <1>6 DEF InsertedBy
  <2> QED
    BY <1>0, <1>1, <1>5, <1>6, <2>1, <2>2 DEF VersionInv, Opener
<1>11. FreshInv(j)' /\ OpenInv(j)'
  BY <1>0, <1>5, <1>6 DEF FreshInv, OpenInv, OpenRows, Active
<1>12. Inserted(j)' = Inserted(j)
  BY <1>6 DEF Inserted
<1>13. DisplayInv(j)'
  BY <1>0, <1>2, <1>5, <1>6, <1>12 DEF DisplayInv, Deleting
<1>14. \A q \in Jobs \ {j} : LockInv(j, q)' /\ LockInv(q, j)'
  <2> SUFFICES ASSUME NEW q \in Jobs \ {j} PROVE LockInv(j, q)' /\ LockInv(q, j)'
    OBVIOUS
  <2>1. LockInv(j, q) /\ LockInv(q, j)
    BY DEF WindowsInv
  <2>2. /\ Inserted(q)' = Inserted(q) /\ (Deleting(q)' <=> Deleting(q))
        /\ (Active(q)' <=> Active(q)) /\ (Active(j)' <=> Active(j))
    BY <1>0, <1>3, <1>6 DEF Inserted, Deleting, Active
  <2>3. Deleting(j)' => \A x \in Inserted(q) : x.disp # Shows[j]
    BY <1>0 DEF Snapshot, Blockers, Deleting
  <2> QED
    BY <1>6, <1>12, <2>1, <2>2, <2>3 DEF LockInv
<1> QED
  BY <1>5, <1>6, <1>7, <1>8, <1>9, <1>10, <1>11, <1>13, <1>14, LocalStep DEF OwnInv
(* An open window among the new versions of a request is that of an open   *)
(* row which a deletion takes its display from.                            *)
LEMMA OpenVersion ==
    ASSUME WindowsInv, NEW j \in Jobs, NEW w \in rows, ~BadInterval(j, w),
           NEW x \in Versions(j, w), x.to = Open
    PROVE  Kind[j] = "delete" /\ w \in OpenRows(x.tbl, x.robot)
<1>1. TypeOK /\ w \in Windows /\ req[j].stamp \in Times
  BY DEF WindowsInv, TypeOK, Requests
<1>2. Kind[j] = "delete"
  BY <1>1, VersionInterval
<1> QED
  BY <1>1, <1>2, VersionOfWindow DEF OpenRows, Same

LEMMA ApplyStep ==
    ASSUME WindowsInv, NEW j \in Jobs, Apply(j)
    PROVE  WindowsInv'
<1>0. /\ TypeOK /\ ClockInv /\ RowsInv /\ req[j] \in Requests /\ Active(j) /\ req[j].stage = "apply"
      /\ StageInv(j) /\ VersionInv(j) /\ FreshInv(j) /\ OpenInv(j) /\ DisplayInv(j)
      /\ rows \subseteq Windows /\ req[j].stamp \in Times
  BY DEF WindowsInv, TypeOK, OwnInv, Apply, Active, Requests
<1>1. PICK i \in req[j].targets :
          /\ Holders(j, i) = {}
          /\ \A w \in Current(j, i) : ~BadInterval(j, w)
          /\ req' = [req EXCEPT ![j] = [@ EXCEPT
                       !.stage = IF req[j].targets = {i} THEN Written(j) ELSE "apply",
                       !.targets = req[j].targets \ {i},
                       !.wrote = req[j].wrote \cup {Id(w) : w \in Current(j, i)},
                       !.new = req[j].new \cup UNION {Versions(j, w) : w \in Current(j, i)}]]
  BY DEF Apply
<1> DEFINE C == Current(j, i)
           W == {Id(w) : w \in C}
           V == UNION {Versions(j, w) : w \in C}
           next == IF req[j].targets = {i} THEN Written(j) ELSE "apply"
<1>2. /\ \A w \in C : w \in rows /\ Id(w) = i /\ StillMatches(j, w) /\ ~BadInterval(j, w)
      /\ \A w \in rows : Id(w) = i /\ StillMatches(j, w) => w \in C
  BY <1>1 DEF Current
<1>3. /\ W \subseteq {i} /\ i \in RowIds
      /\ \A w \in C : i \in W /\ Versions(j, w) \subseteq V
      /\ \A x \in V : \E w \in C : x \in Versions(j, w)
      /\ i \in W => \E w \in C : TRUE
  BY <1>0, <1>1, <1>2 DEF Requests
<1>4. \A x \in V : x \in Windows /\ Id(x) = i /\ i \in W
  BY <1>0, <1>2, <1>3, VersionOfWindow
<1>5. /\ next \in {"open", "commit", "apply"} /\ (next = "open" => Opener(j))
      /\ (next # "apply" => req[j].targets \ {i} = {})
  BY DEF Written
<1>6. UNCHANGED <<rows, displays, clock, newest, late>> /\ clock \in Nat
  BY StampsPast DEF Apply, history
<1> DEFINE T2 == req[j].targets \ {i}
           W2 == req[j].wrote \cup W
           V2 == req[j].new \cup V
<1>7. req' = [req EXCEPT ![j] = [@ EXCEPT !.stage = next, !.targets = T2, !.wrote = W2, !.new = V2]]
  BY <1>1
<1>a. T2 \subseteq RowIds /\ W2 \subseteq RowIds /\ V2 \subseteq Windows
  <2>1. W \subseteq RowIds /\ V \subseteq Windows
    BY <1>3, <1>4
  <2> HIDE DEF W, V
  <2> QED
    BY <1>0, <2>1 DEF Requests
<1> HIDE DEF C, W, V, next, T2, W2, V2
<1>8. /\ req'[j].stage = next /\ req'[j].targets = req[j].targets \ {i}
      /\ req'[j].stamp = req[j].stamp /\ req'[j].left = req[j].left /\ req'[j].at = req[j].at
      /\ req'[j].wrote = req[j].wrote \cup W /\ req'[j].new = req[j].new \cup V
      /\ req'[j].tbl = req[j].tbl
      /\ req' = [req EXCEPT ![j] = req'[j]] /\ \A q \in Jobs \ {j} : req'[q] = req[q]
  <2>1. /\ req'[j].stage = next /\ req'[j].targets = T2
        /\ req'[j].stamp = req[j].stamp /\ req'[j].left = req[j].left /\ req'[j].at = req[j].at
        /\ req'[j].wrote = W2 /\ req'[j].new = V2 /\ req'[j].tbl = req[j].tbl
        /\ req' = [req EXCEPT ![j] = req'[j]] /\ \A q \in Jobs \ {j} : req'[q] = req[q]
    BY <1>0, <1>7 DEF TypeOK, Requests
  <2> QED
    BY <2>1 DEF T2, W2, V2
<1>9. ClockInv'
  BY <1>0, <1>5, <1>6, <1>8, ClockKept
<1>10. req'[j] \in Requests
  BY <1>0, <1>5, <1>7, <1>a DEF TypeOK, Requests, Stages
<1>11. StageInv(j)'
  BY <1>0, <1>5, <1>6, <1>8 DEF StageInv, Active, Opener
<1>12. \A x \in req[j].new : Id(x) \notin req[j].wrote => InsertedBy(j, x) /\ Id(x) \notin W /\ x \in Windows
  <2> SUFFICES ASSUME NEW x \in req[j].new, Id(x) \notin req[j].wrote
               PROVE  InsertedBy(j, x) /\ Id(x) \notin W /\ x \in Windows
    OBVIOUS
  <2>1. InsertedBy(j, x) /\ x \in Windows
    BY <1>0 DEF VersionInv, Requests
  <2>2. ASSUME NEW w \in C PROVE Id(x) # Id(w)
    BY <1>0, <1>2, <2>1, IdsAgree DEF FreshInv, InsertedBy
  <2> QED
    BY <1>2, <1>3, <2>1, <2>2
<1>13. VersionInv(j)'
  <2>1. \A w : /\ StillMatches(j, w)' = StillMatches(j, w)
               /\ BadInterval(j, w)' = BadInterval(j, w)
               /\ Versions(j, w)' = Versions(j, w)
    BY <1>8 DEF StillMatches, BadInterval, Versions
  <2>2. \A x : InsertedBy(j, x) => InsertedBy(j, x)'
    BY <1>0, <1>8 DEF InsertedBy
  <2>3. ASSUME NEW k \in req'[j].targets
        PROVE  Reach(j, k) /\ (Opener(j) => k.tbl = req'[j].tbl /\ k.robot = req'[j].at)
    BY <1>0, <1>8 DEF VersionInv
  <2>4. ASSUME NEW k \in req'[j].wrote
        PROVE  /\ Reach(j, k)
               /\ \E w \in rows : /\ Id(w) = k /\ StillMatches(j, w) /\ ~BadInterval(j, w)
                                  /\ Versions(j, w) \subseteq req'[j].new
    <3>1. CASE k \in req[j].wrote
      BY <1>0, <1>8, <3>1 DEF VersionInv
    <3>2. CASE k \in W
      <4>1. k = i /\ Reach(j, k)
        BY <1>0, <1>1, <1>3, <3>2 DEF VersionInv
      <4>2. PICK w \in C : TRUE
        BY <1>3, <3>2, <4>1
      <4> QED
        BY <1>2, <1>3, <1>8, <4>1, <4>2
    <3> QED
      BY <1>8, <2>4, <3>1, <3>2
  <2>5. ASSUME NEW x \in req'[j].new
        PROVE  IF Id(x) \in req'[j].wrote
               THEN \E w \in rows : Id(w) = Id(x) /\ x \in Versions(j, w)
               ELSE InsertedBy(j, x)
    <3>1. CASE x \in req[j].new
      BY <1>0, <1>8, <1>12, <3>1 DEF VersionInv
    <3>2. CASE x \in V
      BY <1>2, <1>3, <1>4, <1>8, <3>2
    <3> QED
      BY <1>8, <2>5, <3>1, <3>2
  <2> QED
    BY <1>6, <2>1, <2>2, <2>3, <2>4, <2>5 DEF VersionInv, Reach, Opener, Id
<1>14. \A x \in V : x.to = Open =>
          \E w \in C : x \in Versions(j, w) /\ Kind[j] = "delete" /\ w \in OpenRows(x.tbl, x.robot)
  BY <1>2, <1>3, OpenVersion
<1>15. OpenInv(j)'
  <2> SUFFICES ASSUME NEW x \in req'[j].new, x.to = Open
               PROVE  /\ \A w \in OpenRows(x.tbl, x.robot) : Id(w) \in req'[j].wrote
                      /\ \A y \in req'[j].new : Same(x, y) /\ y.to = Open => x = y
    BY <1>6 DEF OpenInv, OpenRows, Same, Id
  <2>1. ASSUME NEW y \in req'[j].new, y.to = Open, NEW v \in V, v.to = Open, Same(v, y)
        PROVE  v = y
    <3>1. PICK w \in C : v \in Versions(j, w) /\ Kind[j] = "delete" /\ w \in OpenRows(v.tbl, v.robot)
      BY <1>14, <2>1
    <3>2. PICK u \in rows : y \in Versions(j, u)
      <4>1. CASE y \in V
        BY <1>2, <1>3, <4>1
      <4>2. CASE y \in req[j].new
        BY <1>0, <3>1, <4>2 DEF VersionInv, InsertedBy, Opener
      <4> QED
        BY <1>8, <2>1, <4>1, <4>2
    <3>3. u.to = Open /\ Same(y, u)
      BY <1>0, <2>1, <3>1, <3>2, VersionOfWindow
    <3>4. u = w
      BY <1>0, <2>1, <3>1, <3>3 DEF RowsInv, OpenRows, Same
    <3> QED
      BY <1>0, <3>1, <3>2, <3>4, VersionOfWindow
  <2>2. CASE x \in req[j].new
    <3>1. \A y \in V : y.to = Open /\ Same(x, y) => x = y
      BY <1>8, <2>1, <2>2 DEF Same
    <3> QED
      BY <1>0, <1>8, <2>2, <3>1 DEF OpenInv
  <2>3. CASE x \in V
    <3>1. PICK w \in C : w \in OpenRows(x.tbl, x.robot)
      BY <1>14, <2>3
    <3>2. \A u \in OpenRows(x.tbl, x.robot) : u = w
      BY <1>0, <3>1 DEF RowsInv, OpenRows, Same
    <3>3. \A u \in OpenRows(x.tbl, x.robot) : Id(u) \in req'[j].wrote
      BY <1>2, <1>3, <1>8, <3>1, <3>2
    <3> QED
      BY <2>1, <2>3, <3>3
  <2> QED
    BY <1>8, <2>2, <2>3
<1>16. Inserted(j)' \subseteq Inserted(j)
  BY <1>3, <1>4, <1>8 DEF Inserted, Id
<1>17. DisplayInv(j)'
  <2>1. Deleting(j)' => \A w \in rows : w.disp = Shows[j] => Id(w) \in req'[j].wrote \cup req'[j].targets
    <3> SUFFICES ASSUME Kind[j] = "delete", NEW w \in rows, w.disp = Shows[j]
                 PROVE  Id(w) \in req'[j].wrote \cup req'[j].targets
      BY DEF Deleting
    <3>1. Id(w) \in req[j].wrote \cup req[j].targets
      BY <1>0 DEF DisplayInv, Deleting
    <3>2. Id(w) = i => i \in W
      BY <1>2, <1>3 DEF StillMatches
    <3> QED
      BY <1>8, <3>1, <3>2
  <2> QED
    BY <1>0, <1>6, <1>16, <2>1 DEF DisplayInv, Id
<1>18. FreshInv(j)'
  BY <1>0, <1>6, <1>8 DEF FreshInv
<1>19. \A q \in Jobs \ {j} : LockInv(j, q)' /\ LockInv(q, j)'
  <2> SUFFICES ASSUME NEW q \in Jobs \ {j} PROVE LockInv(j, q)' /\ LockInv(q, j)'
    OBVIOUS
  <2>1. LockInv(j, q) /\ LockInv(q, j) /\ OpenInv(q)
    BY DEF WindowsInv, OwnInv
  <2>2. /\ Inserted(q)' = Inserted(q) /\ (Deleting(q)' <=> Deleting(q))
        /\ (Active(q)' <=> Active(q)) /\ (Active(j)' <=> Active(j)) /\ (Deleting(j)' => Deleting(j))
    BY <1>0, <1>5, <1>8 DEF Inserted, Deleting, Active
  <2>3. i \notin req[q].wrote
    BY <1>1 DEF Holders
  <2>4. \A x \in V, y \in req[q].new : ~(Same(x, y) /\ x.to = Open /\ y.to = Open)
    BY <1>2, <1>14, <2>1, <2>3 DEF OpenInv, OpenRows, Same
  <2>5. \A x \in req'[j].new, y \in req[q].new : ~(Same(x, y) /\ x.to = Open /\ y.to = Open)
    BY <1>8, <2>1, <2>4 DEF LockInv
  <2>6. req'[j].wrote \cap req[q].wrote = {}
    BY <1>3, <1>8, <2>1, <2>3 DEF LockInv
  <2>7. LockInv(j, q)'
    BY <1>8, <1>16, <2>1, <2>2, <2>5, <2>6 DEF LockInv, Same
  <2>8. LockInv(q, j)'
    BY <1>8, <2>1, <2>2, <2>5, <2>6 DEF LockInv, Same
  <2> QED
    BY <2>7, <2>8
<1> QED
  BY <1>6, <1>8, <1>9, <1>10, <1>11, <1>13, <1>15, <1>17, <1>18, <1>19, LocalStep DEF OwnInv
\* The window that an opener inserts.
NewWindow(j) ==
    [tbl |-> req[j].tbl, robot |-> req[j].at, from |-> req[j].stamp, disp |-> Shows[j], to |-> Open]

\* An INSERT is followed by the session of a start, by the commit, or by the next
\* robot of an assign.
Opens(j, st, tb, b, L) ==
    /\ req' = [req EXCEPT ![j] = [@ EXCEPT !.stage = st, !.tbl = tb, !.at = b, !.left = L,
                                           !.new = req[j].new \cup {NewWindow(j)}]]
    /\ \/ /\ Kind[j] = "start" /\ req[j].tbl = "assignment"
          /\ st = "stmt" /\ tb = "session" /\ b = req[j].at /\ L = req[j].left
       \/ /\ req[j].left = {} /\ ~(Kind[j] = "start" /\ req[j].tbl = "assignment")
          /\ st = "commit" /\ tb = req[j].tbl /\ b = req[j].at /\ L = req[j].left
       \/ /\ Kind[j] = "assign" /\ b \in req[j].left
          /\ st = "stmt" /\ tb = req[j].tbl /\ L = req[j].left \ {b}

LEMMA OpeningRequest ==
    ASSUME WindowsInv, NEW j \in Jobs, OpenWindow(j)
    PROVE  /\ Opener(j) /\ Kind[j] # "delete" /\ req[j].targets = {}
           /\ req[j].at \in On[j] /\ req[j].left \subseteq On[j] \ {req[j].at}
           /\ On[j] \subseteq Robots
           /\ Kind[j] = "start" => req[j].left = {}
           /\ Kind[j] = "assign" => req[j].tbl = "assignment"
           /\ req[j].tbl = "assignment" => Shows[j] # None
           /\ req[j].tbl \in Tables
           /\ Shows[j] \in Displays \cup {None}
           /\ \E st \in {"stmt", "commit"}, tb \in Tables, b \in Robots, L \in SUBSET Robots :
                 Opens(j, st, tb, b, L)
<1>0. TypeOK /\ req[j] \in Requests /\ Active(j) /\ req[j].stage = "open" /\ StageInv(j)
  BY DEF WindowsInv, TypeOK, OwnInv, OpenWindow, Active
<1>1. /\ Opener(j) /\ Kind[j] # "delete" /\ req[j].targets = {}
      /\ req[j].at \in On[j] /\ req[j].left \subseteq On[j] \ {req[j].at}
      /\ On[j] \subseteq Robots
      /\ Kind[j] = "start" => req[j].left = {}
      /\ Kind[j] = "assign" => req[j].tbl = "assignment"
      /\ req[j].tbl = "assignment" => Shows[j] # None
      /\ req[j].tbl \in Tables
      /\ Shows[j] \in Displays \cup {None}
  <2>1. Opener(j)
    BY <1>0 DEF StageInv
  <2> QED
    BY <1>0, <2>1, WindowsAssumption DEF StageInv, Opener, Sdk, Requests
<1> DEFINE N == req[j].new \cup {NewWindow(j)}
<1>2. PICK st \in {"stmt", "commit"}, tb \in Tables, b \in Robots, L \in SUBSET Robots :
          /\ req' = [req EXCEPT ![j] = [@ EXCEPT !.stage = st, !.tbl = tb, !.at = b,
                                                 !.left = L, !.new = N]]
          /\ \/ /\ Kind[j] = "start" /\ req[j].tbl = "assignment"
                /\ st = "stmt" /\ tb = "session" /\ b = req[j].at /\ L = req[j].left
             \/ /\ req[j].left = {} /\ ~(Kind[j] = "start" /\ req[j].tbl = "assignment")
                /\ st = "commit" /\ tb = req[j].tbl /\ b = req[j].at /\ L = req[j].left
             \/ /\ Kind[j] = "assign" /\ b \in req[j].left
                /\ st = "stmt" /\ tb = req[j].tbl /\ L = req[j].left \ {b}
  <2> DEFINE kept == [req[j] EXCEPT !.new = N]
  <2>1. CASE Kind[j] = "start" /\ req[j].tbl = "assignment"
    <3>1. req' = [req EXCEPT ![j] = [kept EXCEPT !.stage = "stmt", !.tbl = "session"]]
      BY <2>1 DEF OpenWindow, NewWindow
    <3> HIDE DEF N
    <3>2. req' = [req EXCEPT ![j] = [@ EXCEPT !.stage = "stmt", !.tbl = "session", !.at = req[j].at,
                                              !.left = req[j].left, !.new = N]]
      BY <1>0, <3>1 DEF TypeOK, Requests
    <3> QED
      BY <1>1, <2>1, <3>2 DEF Tables
  <2>2. CASE ~(Kind[j] = "start" /\ req[j].tbl = "assignment") /\ req[j].left = {}
    <3>1. req' = [req EXCEPT ![j] = [kept EXCEPT !.stage = "commit"]]
      BY <2>2 DEF OpenWindow, NewWindow
    <3> HIDE DEF N
    <3>2. req' = [req EXCEPT ![j] = [@ EXCEPT !.stage = "commit", !.tbl = req[j].tbl, !.at = req[j].at,
                                              !.left = req[j].left, !.new = N]]
      BY <1>0, <3>1 DEF TypeOK, Requests
    <3> QED
      BY <1>1, <2>2, <3>2
  <2>3. CASE req[j].left # {}
    <3>0. Kind[j] = "assign"
      BY <1>1, <2>3 DEF Opener
    <3>1. PICK b \in req[j].left :
             req' = [req EXCEPT ![j] = [kept EXCEPT !.stage = "stmt", !.at = b, !.left = req[j].left \ {b}]]
      BY <2>3, <3>0 DEF OpenWindow, NewWindow
    <3> HIDE DEF N
    <3>2. req' = [req EXCEPT ![j] = [@ EXCEPT !.stage = "stmt", !.tbl = req[j].tbl, !.at = b,
                                              !.left = req[j].left \ {b}, !.new = N]]
      BY <1>0, <3>1 DEF TypeOK, Requests
    <3>3. b \in Robots /\ req[j].left \ {b} \in SUBSET Robots
      BY <1>1
    <3> QED
      BY <1>1, <3>0, <3>2, <3>3
  <2> QED
    BY <2>1, <2>2, <2>3
<1> QED
  BY <1>1, <1>2 DEF Opens

LEMMA OpenWindowStep ==
    ASSUME WindowsInv, NEW j \in Jobs, OpenWindow(j)
    PROVE  WindowsInv'
<1>0. /\ TypeOK /\ ClockInv /\ RowsInv /\ req[j] \in Requests /\ Active(j) /\ req[j].stage = "open"
      /\ StageInv(j) /\ VersionInv(j) /\ FreshInv(j) /\ OpenInv(j) /\ DisplayInv(j)
      /\ rows \subseteq Windows /\ req[j].stamp \in Times
      /\ Blockers(j) = {} /\ ~Conflict(j)
  BY DEF WindowsInv, TypeOK, OwnInv, OpenWindow, Active, Requests
<1>1. /\ Opener(j) /\ Kind[j] # "delete" /\ req[j].targets = {}
      /\ req[j].at \in On[j] /\ req[j].left \subseteq On[j] \ {req[j].at}
      /\ On[j] \subseteq Robots
      /\ Kind[j] = "start" => req[j].left = {}
      /\ Kind[j] = "assign" => req[j].tbl = "assignment"
      /\ req[j].tbl = "assignment" => Shows[j] # None
      /\ req[j].tbl \in Tables
      /\ Shows[j] \in Displays \cup {None}
  BY OpeningRequest
<1>2. PICK x0 \in Windows :
          /\ x0 = [tbl |-> req[j].tbl, robot |-> req[j].at, from |-> req[j].stamp,
                   disp |-> Shows[j], to |-> Open]
          /\ x0.tbl = req[j].tbl /\ x0.robot = req[j].at /\ x0.from = req[j].stamp
          /\ x0.disp = Shows[j] /\ x0.to = Open
  <2>1. Open \in Times /\ req[j].at \in Robots
    BY <1>1, WindowsAssumption DEF Times, Open
  <2>2. [tbl |-> req[j].tbl, robot |-> req[j].at, from |-> req[j].stamp,
         disp |-> Shows[j], to |-> Open] \in Windows
    BY <1>0, <1>1, <2>1 DEF Windows
  <2> QED
    BY <2>2
<1> DEFINE N == req[j].new \cup {x0}
<1>3. PICK st \in {"stmt", "commit"}, tb \in Tables, b \in Robots, L \in SUBSET Robots :
          /\ req' = [req EXCEPT ![j] = [@ EXCEPT !.stage = st, !.tbl = tb, !.at = b,
                                                 !.left = L, !.new = N]]
          /\ \/ /\ Kind[j] = "start" /\ req[j].tbl = "assignment"
                /\ st = "stmt" /\ tb = "session" /\ b = req[j].at /\ L = req[j].left
             \/ /\ req[j].left = {} /\ ~(Kind[j] = "start" /\ req[j].tbl = "assignment")
                /\ st = "commit" /\ tb = req[j].tbl /\ b = req[j].at /\ L = req[j].left
             \/ /\ Kind[j] = "assign" /\ b \in req[j].left
                /\ st = "stmt" /\ tb = req[j].tbl /\ L = req[j].left \ {b}
  <2>1. NewWindow(j) = x0
    BY <1>2, Zenon DEF NewWindow
  <2>2. PICK st \in {"stmt", "commit"}, tb \in Tables, b \in Robots, L \in SUBSET Robots :
           Opens(j, st, tb, b, L)
    BY OpeningRequest
  <2>3. req' = [req EXCEPT ![j] = [@ EXCEPT !.stage = st, !.tbl = tb, !.at = b, !.left = L, !.new = N]]
    BY <2>1, <2>2, Zenon DEF Opens
  <2> HIDE DEF N
  <2> QED
    BY <2>2, <2>3 DEF Opens
<1>4. UNCHANGED <<rows, displays, clock, newest, late>> /\ clock \in Nat
  BY StampsPast DEF OpenWindow, history
<1>5. N \subseteq Windows
  BY <1>0, <1>2 DEF Requests
<1>6. N = req[j].new \cup {x0}
  OBVIOUS
<1> HIDE DEF N
<1>8. /\ req'[j].stage = st /\ req'[j].tbl = tb /\ req'[j].at = b /\ req'[j].left = L
      /\ req'[j].stamp = req[j].stamp /\ req'[j].targets = {}
      /\ req'[j].wrote = req[j].wrote /\ req'[j].new = N
      /\ req' = [req EXCEPT ![j] = req'[j]] /\ \A q \in Jobs \ {j} : req'[q] = req[q]
  BY <1>0, <1>1, <1>3 DEF TypeOK, Requests
<1>9. ClockInv'
  BY <1>0, <1>3, <1>4, <1>8, ClockKept
<1>10. req'[j] \in Requests
  BY <1>0, <1>3, <1>5 DEF TypeOK, Requests, Stages
<1>11. StageInv(j)'
  <2>1. b \in On[j] /\ L \subseteq On[j] \ {b}
    BY <1>1, <1>3
  <2>2. Active(j)' /\ (Kind[j] = "assign" => tb = "assignment")
    BY <1>1, <1>3, <1>8 DEF Active
  <2> QED
    BY <1>0, <1>1, <1>3, <1>4, <1>8, <2>1, <2>2 DEF StageInv, Opener
<1>12. ASSUME NEW x \in req[j].new, x.to = Open PROVE Id(x) \notin req[j].wrote
  <2> SUFFICES ASSUME Id(x) \in req[j].wrote PROVE FALSE
    OBVIOUS
  <2>1. PICK w \in rows : Id(w) = Id(x) /\ x \in Versions(j, w)
    BY <1>0 DEF VersionInv
  <2>2. PICK u \in rows : Id(u) = Id(x) /\ ~BadInterval(j, u)
    BY <1>0 DEF VersionInv
  <2>3. u = w
    BY <1>0, <2>1, <2>2 DEF RowsInv
  <2> QED
    BY <1>1, <1>12, <2>1, <2>2, <2>3, OpenVersion
<1>13. Id(x0) \notin req[j].wrote
  BY <1>0, <1>1, <1>2, IdsAgree DEF VersionInv, FreshInv
<1>14. VersionInv(j)'
  <2>1. \A w : /\ StillMatches(j, w)' = StillMatches(j, w)
               /\ BadInterval(j, w)' = BadInterval(j, w)
               /\ Versions(j, w)' = Versions(j, w)
    BY <1>8 DEF StillMatches, BadInterval, Versions
  <2>2. ASSUME NEW x \in req[j].new, InsertedBy(j, x) PROVE InsertedBy(j, x)'
    <3>1. x.robot = req[j].at => x.tbl # req[j].tbl
      BY <1>0, <2>2 DEF InsertedBy
    <3>2. x.robot \in On[j] \ L /\ (x.tbl # "assignment" => tb = "session")
      BY <1>1, <1>3, <2>2 DEF InsertedBy
    <3>3. st # "commit" /\ x.robot = b => x.tbl # tb
      BY <1>1, <1>3, <2>2, <3>1 DEF InsertedBy
    <3> QED
      BY <1>8, <2>2, <3>2, <3>3 DEF InsertedBy, Opener
  <2>3. InsertedBy(j, x0)'
    <3>1. x0.robot \in On[j] \ L
      BY <1>1, <1>2, <1>3
    <3>2. IF x0.tbl = "assignment" THEN Shows[j] # None ELSE Kind[j] = "start" /\ tb = "session"
      BY <1>1, <1>2, <1>3 DEF Tables, Opener
    <3>3. st # "commit" /\ x0.robot = b => x0.tbl # tb
      BY <1>1, <1>2, <1>3
    <3> QED
      BY <1>1, <1>2, <1>8, <3>1, <3>2, <3>3 DEF InsertedBy, Opener
  <2>4. ASSUME NEW k \in req[j].wrote
        PROVE  /\ Reach(j, k)
               /\ \E w \in rows : /\ Id(w) = k /\ StillMatches(j, w) /\ ~BadInterval(j, w)
                                  /\ Versions(j, w) \subseteq N
    BY <1>0, <1>6 DEF VersionInv
  <2>5. ASSUME NEW x \in N
        PROVE  IF Id(x) \in req[j].wrote
               THEN \E w \in rows : Id(w) = Id(x) /\ x \in Versions(j, w)
               ELSE InsertedBy(j, x)'
    BY <1>0, <1>6, <1>13, <2>2, <2>3 DEF VersionInv
  <2> QED
    BY <1>4, <1>8, <2>1, <2>4, <2>5 DEF VersionInv, Reach, Opener, Id
<1>15. OpenInv(j)'
  <2>1. ASSUME NEW x \in req[j].new, x.to = Open PROVE ~Same(x, x0)
    <3>1. InsertedBy(j, x)
      BY <1>0, <1>12, <2>1 DEF VersionInv
    <3> QED
      BY <1>0, <1>2, <3>1 DEF InsertedBy, Same
  <2>2. \A w \in OpenRows(x0.tbl, x0.robot) : Id(w) \in req[j].wrote
    BY <1>0, <1>2 DEF Conflict
  <2>3. \A x, y : Same(x, y) => Same(y, x)
    BY DEF Same
  <2>4. \A x \in N : x.to = Open =>
           /\ \A w \in OpenRows(x.tbl, x.robot) : Id(w) \in req[j].wrote
           /\ \A y \in N : Same(x, y) /\ y.to = Open => x = y
    BY <1>0, <1>6, <2>1, <2>2, <2>3 DEF OpenInv
  <2> QED
    BY <1>4, <1>8, <2>4 DEF OpenInv, OpenRows, Same, Id
<1>16. Inserted(j)' \subseteq Inserted(j) \cup {x0}
  BY <1>6, <1>8 DEF Inserted, Id
<1>17. DisplayInv(j)'
  <2>1. x0.disp \in displays \cup {None}
    BY <1>0, <1>2 DEF Conflict
  <2> QED
    BY <1>0, <1>1, <1>4, <1>16, <2>1 DEF DisplayInv, Deleting
<1>18. FreshInv(j)'
  BY <1>0, <1>4, <1>8 DEF FreshInv
<1>19. \A q \in Jobs \ {j} : LockInv(j, q)' /\ LockInv(q, j)'
  <2> SUFFICES ASSUME NEW q \in Jobs \ {j} PROVE LockInv(j, q)' /\ LockInv(q, j)'
    OBVIOUS
  <2>1. LockInv(j, q) /\ LockInv(q, j)
    BY DEF WindowsInv
  <2>2. /\ Inserted(q)' = Inserted(q) /\ (Deleting(q)' <=> Deleting(q))
        /\ (Active(q)' <=> Active(q)) /\ ~Deleting(j)'
    BY <1>1, <1>8 DEF Inserted, Deleting, Active
  <2>3. \A y \in req[q].new : ~(Same(x0, y) /\ y.to = Open)
    BY <1>0, <1>2 DEF Blockers, Same
  <2>4. Deleting(q) => Shows[q] # Shows[j]
    BY <1>0 DEF Blockers
  <2>5. \A x \in N, y \in req[q].new : ~(Same(x, y) /\ x.to = Open /\ y.to = Open)
    BY <1>6, <2>1, <2>3 DEF LockInv
  <2>6. LockInv(j, q)'
    BY <1>0, <1>2, <1>8, <1>16, <2>1, <2>2, <2>4, <2>5 DEF LockInv, Same
  <2>7. LockInv(q, j)'
    BY <1>0, <1>8, <2>1, <2>2, <2>5 DEF LockInv, Same
  <2> QED
    BY <2>6, <2>7
<1> QED
  BY <1>4, <1>8, <1>9, <1>10, <1>11, <1>14, <1>15, <1>17, <1>18, <1>19, LocalStep DEF OwnInv

----------------------------------------------------------------------------
(* What a commit does to the rows.                                         *)

\* A window is as it was, is the version of one, or is new.
Kept(j, x) == x \in rows /\ Id(x) \notin req[j].wrote
VersionOf(j, w, x) ==
    /\ w \in rows /\ x \in Versions(j, w) /\ Id(x) = Id(w) /\ Id(w) \in req[j].wrote
    /\ StillMatches(j, w) /\ ~BadInterval(j, w) /\ Reach(j, Id(w))
Added(j, x) == InsertedBy(j, x) /\ x \in Inserted(j)

LEMMA CommitRows ==
    ASSUME WindowsInv, NEW j \in Jobs, Commit(j)
    PROVE  /\ rows' \subseteq Windows
           /\ \A x \in rows' : \/ Kept(j, x)
                               \/ x \in req[j].new /\ \E w \in rows : VersionOf(j, w, x)
                               \/ x \in req[j].new /\ Added(j, x)
           /\ \A w \in rows :
                 IF Id(w) \in req[j].wrote
                 THEN /\ StillMatches(j, w) /\ ~BadInterval(j, w) /\ Reach(j, Id(w))
                      /\ Versions(j, w) \subseteq rows'
                 ELSE w \in rows'
<1>0. /\ rows \subseteq Windows /\ req[j].new \subseteq Windows /\ VersionInv(j) /\ RowsInv
      /\ req[j].stamp \in Times
  BY DEF WindowsInv, TypeOK, OwnInv, Requests
<1>1. rows' = {w \in rows : Id(w) \notin req[j].wrote} \cup req[j].new
  BY DEF Commit
<1>2. ASSUME NEW w \in rows, Id(w) \in req[j].wrote
      PROVE  /\ StillMatches(j, w) /\ ~BadInterval(j, w) /\ Reach(j, Id(w))
             /\ Versions(j, w) \subseteq req[j].new
  <2>1. PICK u \in rows : /\ Id(u) = Id(w) /\ StillMatches(j, u) /\ ~BadInterval(j, u)
                          /\ Versions(j, u) \subseteq req[j].new
    BY <1>0, <1>2 DEF VersionInv
  <2>2. u = w
    BY <1>0, <2>1 DEF RowsInv
  <2> QED
    BY <1>0, <1>2, <2>1, <2>2 DEF VersionInv
<1>3. ASSUME NEW x \in req[j].new
      PROVE  (\E w \in rows : VersionOf(j, w, x)) \/ Added(j, x)
  <2>1. CASE Id(x) \in req[j].wrote
    <3>1. PICK w \in rows : Id(w) = Id(x) /\ x \in Versions(j, w)
      BY <1>0, <2>1 DEF VersionInv
    <3> QED
      BY <1>2, <2>1, <3>1 DEF VersionOf
  <2>2. CASE Id(x) \notin req[j].wrote
    BY <1>0, <2>2 DEF VersionInv, Added, Inserted
  <2> QED
    BY <2>1, <2>2
<1> QED
  BY <1>0, <1>1, <1>2, <1>3 DEF Kept

LEMMA CommitRequests ==
    ASSUME WindowsInv, NEW j \in Jobs, Commit(j)
    PROVE  /\ req' \in [Jobs -> Requests] /\ req'[j] = Over
           /\ \A q \in Jobs \ {j} :
                 /\ req'[q] = req[q] \/ (Active(q) /\ Near(j, q) /\ req'[q].alone = FALSE)
                 /\ Active(q) /\ Near(j, q) => req'[q].alone = FALSE
                 /\ req'[q].stage = req[q].stage /\ req'[q].stamp = req[q].stamp
                 /\ req'[q].left = req[q].left /\ req'[q].at = req[q].at /\ req'[q].tbl = req[q].tbl
                 /\ req'[q].targets = req[q].targets /\ req'[q].wrote = req[q].wrote
                 /\ req'[q].new = req[q].new
<1>1. req \in [Jobs -> Requests] /\ Over \in Requests
  BY OverIsQuiet DEF WindowsInv, TypeOK
<1>2. req' = [q \in Jobs |-> IF q = j THEN Over
                             ELSE IF Active(q) /\ Near(j, q) THEN [req[q] EXCEPT !.alone = FALSE]
                             ELSE req[q]]
  BY DEF Commit
<1>3. req' \in [Jobs -> Requests] /\ req'[j] = Over
  BY <1>1, <1>2 DEF Requests
<1>4. ASSUME NEW q \in Jobs \ {j}, Active(q), Near(j, q)
      PROVE  /\ req'[q].alone = FALSE
             /\ req'[q].stage = req[q].stage /\ req'[q].stamp = req[q].stamp
             /\ req'[q].left = req[q].left /\ req'[q].at = req[q].at /\ req'[q].tbl = req[q].tbl
             /\ req'[q].targets = req[q].targets /\ req'[q].wrote = req[q].wrote
             /\ req'[q].new = req[q].new
  <2>1. req'[q] = [req[q] EXCEPT !.alone = FALSE] /\ req[q] \in Requests
    BY <1>1, <1>2, <1>4
  <2> QED
    BY <2>1 DEF Requests
<1>5. ASSUME NEW q \in Jobs \ {j}, ~(Active(q) /\ Near(j, q)) PROVE req'[q] = req[q]
  BY <1>1, <1>2, <1>5
<1>6. ASSUME NEW q \in Jobs \ {j}
      PROVE  /\ req'[q] = req[q] \/ (Active(q) /\ Near(j, q) /\ req'[q].alone = FALSE)
             /\ Active(q) /\ Near(j, q) => req'[q].alone = FALSE
             /\ req'[q].stage = req[q].stage /\ req'[q].stamp = req[q].stamp
             /\ req'[q].left = req[q].left /\ req'[q].at = req[q].at /\ req'[q].tbl = req[q].tbl
             /\ req'[q].targets = req[q].targets /\ req'[q].wrote = req[q].wrote
             /\ req'[q].new = req[q].new
  <2>1. CASE Active(q) /\ Near(j, q)
    BY <1>4, <2>1
  <2>2. CASE ~(Active(q) /\ Near(j, q))
    BY <1>5, <2>2
  <2> QED
    BY <2>1, <2>2
<1> QED
  BY <1>3, <1>6

LEMMA CommitStep ==
    ASSUME WindowsInv, NEW j \in Jobs, Commit(j)
    PROVE  WindowsInv'
<1>0. /\ TypeOK /\ ClockInv /\ RowsInv /\ req[j] \in Requests /\ Active(j) /\ req[j].stage = "commit"
      /\ StageInv(j) /\ VersionInv(j) /\ FreshInv(j) /\ OpenInv(j) /\ DisplayInv(j)
      /\ rows \subseteq Windows /\ req[j].stamp \in Times /\ req[j].stamp \in Nat
      /\ req[j].targets = {} /\ On[j] \subseteq Robots
  BY WindowsAssumption DEF WindowsInv, TypeOK, OwnInv, Commit, Active, Requests, StageInv, Times
<1>1. /\ displays' = IF Kind[j] = "delete" THEN displays \ {Shows[j]} ELSE displays
      /\ newest' = [b \in Robots |-> IF b \in On[j] /\ newest[b] < req[j].stamp
                                     THEN req[j].stamp ELSE newest[b]]
      /\ late' = late \cup {Id(w) : w \in {x \in Inserted(j) : x.from < newest[x.robot]}}
      /\ clock' = clock
  BY DEF Commit
<1>2. \A q \in Jobs \ {j} :
          /\ (Active(q)' <=> Active(q)) /\ (Deleting(q)' <=> Deleting(q)) /\ Inserted(q)' = Inserted(q)
          /\ \A w : /\ StillMatches(q, w)' = StillMatches(q, w)
                    /\ BadInterval(q, w)' = BadInterval(q, w)
                    /\ Versions(q, w)' = Versions(q, w)
                    /\ InsertedBy(q, w)' <=> InsertedBy(q, w)
  <2> SUFFICES ASSUME NEW q \in Jobs \ {j}
               PROVE  /\ (Active(q)' <=> Active(q)) /\ (Deleting(q)' <=> Deleting(q))
                      /\ Inserted(q)' = Inserted(q)
                      /\ \A w : /\ StillMatches(q, w)' = StillMatches(q, w)
                                /\ BadInterval(q, w)' = BadInterval(q, w)
                                /\ Versions(q, w)' = Versions(q, w)
                                /\ InsertedBy(q, w)' <=> InsertedBy(q, w)
    OBVIOUS
  <2>1. /\ req'[q].stage = req[q].stage /\ req'[q].stamp = req[q].stamp
        /\ req'[q].left = req[q].left /\ req'[q].at = req[q].at /\ req'[q].tbl = req[q].tbl
        /\ req'[q].wrote = req[q].wrote /\ req'[q].new = req[q].new
    BY CommitRequests
  <2>2. (Active(q)' <=> Active(q)) /\ (Deleting(q)' <=> Deleting(q)) /\ Inserted(q)' = Inserted(q)
    BY <2>1 DEF Active, Deleting, Inserted, Id
  <2>3. \A w : StillMatches(q, w)' = StillMatches(q, w) /\ BadInterval(q, w)' = BadInterval(q, w)
    BY <2>1 DEF StillMatches, BadInterval
  <2>4. \A w : Versions(q, w)' = Versions(q, w) /\ (InsertedBy(q, w)' <=> InsertedBy(q, w))
    BY <2>1 DEF Versions, InsertedBy
  <2> QED
    BY <2>2, <2>3, <2>4
<1>3. \A x \in rows', w \in rows : VersionOf(j, w, x) =>
          /\ w \in Windows /\ Same(x, w) /\ x.from = w.from /\ x.robot = w.robot /\ x.tbl = w.tbl
          /\ (Kind[j] # "delete" => x.to = req[j].stamp /\ x.disp = w.disp)
          /\ (Kind[j] = "delete" => x.to = w.to /\ x.disp = None /\ w.tbl = "session")
          /\ (x.to # Open => x.from < x.to)
  BY <1>0, VersionOfWindow, VersionInterval DEF VersionOf, Same
<1>4. TypeOK'
  <2>1. clock' \in Times /\ displays' \subseteq Displays
    BY <1>0, <1>1 DEF TypeOK
  <2>2. newest' \in [Robots -> Times]
    BY <1>0, <1>1 DEF TypeOK
  <2>3. late' \subseteq RowIds
    BY <1>0, <1>1, IdOfWindow DEF TypeOK, Inserted, Requests
  <2>4. ASSUME NEW x \in rows'
        PROVE  (x.to # Open => x.from < x.to) /\ (x.tbl = "assignment" => x.disp \in displays')
    <3>1. CASE Kept(j, x)
      BY <1>0, <1>1, <3>1 DEF Kept, TypeOK, DisplayInv, Deleting
    <3>2. ASSUME NEW w \in rows, VersionOf(j, w, x)
          PROVE  (x.to # Open => x.from < x.to) /\ (x.tbl = "assignment" => x.disp \in displays')
      BY <1>0, <1>1, <1>3, <3>2 DEF TypeOK, Tables
    <3>3. CASE Added(j, x)
      BY <1>0, <1>1, <3>3 DEF Added, InsertedBy, DisplayInv, Opener
    <3> QED
      BY <3>1, <3>2, <3>3, CommitRows
  <2> QED
    BY <2>1, <2>2, <2>3, <2>4, CommitRows, CommitRequests DEF TypeOK
<1>5. ClockInv'
  BY <1>0, <1>1, <1>2, ClockKept, CommitRequests, OverIsQuiet DEF Active
<1>6. /\ \A x \in rows', y \in rows' : Id(x) = Id(y) => x = y
      /\ \A x \in rows', y \in rows' : Same(x, y) /\ x.to = Open /\ y.to = Open => x = y
  <2>1. ASSUME NEW x \in rows', NEW y \in rows', Kept(j, x)
        PROVE  /\ Id(x) = Id(y) => x = y
               /\ Same(x, y) /\ x.to = Open /\ y.to = Open => x = y
    <3>1. CASE Kept(j, y)
      BY <1>0, <2>1, <3>1 DEF Kept, RowsInv
    <3>2. CASE y \in req[j].new /\ ~Kept(j, y)
      <4>1. Id(x) # Id(y)
        <5>1. ASSUME NEW w \in rows, VersionOf(j, w, y) PROVE Id(x) # Id(y)
          BY <2>1, <5>1 DEF Kept, VersionOf
        <5>2. ASSUME Added(j, y) PROVE Id(x) # Id(y)
          BY <1>0, <2>1, <5>2, IdsAgree DEF Kept, Added, InsertedBy, Inserted, FreshInv, Requests
        <5> QED
          BY <2>1, <3>2, <5>1, <5>2, CommitRows
      <4>2. ~(Same(x, y) /\ x.to = Open /\ y.to = Open)
        BY <1>0, <2>1, <3>2 DEF Kept, OpenInv, OpenRows, Same
      <4> QED
        BY <4>1, <4>2
    <3> QED
      BY <3>1, <3>2, CommitRows
  <2>2. ASSUME NEW x \in rows', NEW y \in rows', ~Kept(j, x), ~Kept(j, y)
        PROVE  /\ Id(x) = Id(y) => x = y
               /\ Same(x, y) /\ x.to = Open /\ y.to = Open => x = y
    <3>1. x \in req[j].new /\ y \in req[j].new
      BY <2>2, CommitRows
    <3>2. Same(x, y) /\ x.to = Open /\ y.to = Open => x = y
      BY <1>0, <3>1 DEF OpenInv
    <3>3. Id(x) = Id(y) => x = y
      <4> SUFFICES ASSUME Id(x) = Id(y) PROVE x = y
        OBVIOUS
      <4>1. CASE Id(x) \in req[j].wrote
        <5>1. PICK w \in rows : x \in Versions(j, w) /\ Id(w) = Id(x)
          BY <1>0, <3>1, <4>1 DEF VersionInv
        <5>2. PICK u \in rows : y \in Versions(j, u) /\ Id(u) = Id(y)
          BY <1>0, <3>1, <4>1 DEF VersionInv
        <5>3. w = u
          BY <1>0, <5>1, <5>2 DEF RowsInv
        <5> QED
          BY <1>0, <5>1, <5>2, <5>3, VersionOfWindow
      <4>2. CASE Id(x) \notin req[j].wrote
        <5>1. InsertedBy(j, x) /\ InsertedBy(j, y)
          BY <1>0, <3>1, <4>2 DEF VersionInv
        <5>2. Same(x, y)
          BY <1>0, <3>1, IdsAgree DEF Requests
        <5> QED
          BY <3>2, <5>1, <5>2 DEF InsertedBy
      <4> QED
        BY <4>1, <4>2
    <3> QED
      BY <3>2, <3>3
  <2>3. \A x, y : Same(x, y) => Same(y, x)
    BY DEF Same
  <2> QED
    BY <2>1, <2>2, <2>3
<1>7. RowsInv'
  <2>1. \A b \in Robots : newest[b] \in Nat /\ newest'[b] \in Nat /\ newest[b] <= newest'[b]
                          /\ newest'[b] <= clock /\ (b \in On[j] => req[j].stamp <= newest'[b])
    <3>1. clock \in Nat /\ req[j].stamp <= clock /\ \A b \in Robots : newest[b] \in Nat /\ newest[b] <= clock
      BY <1>0, WindowsAssumption DEF TypeOK, Times, RowsInv, StageInv
    <3> QED
      BY <1>0, <1>1, <3>1
  <2>2. ASSUME NEW x \in rows' PROVE x.from <= newest'[x.robot] /\ x.to <= newest'[x.robot]
    <3>0. x.from \in Nat /\ x.to \in Nat /\ x.robot \in Robots /\ x \in Windows
      BY CommitRows, WindowsAssumption DEF Windows, Times
    <3>1. CASE Kept(j, x)
      BY <1>0, <2>1, <3>0, <3>1 DEF Kept, RowsInv
    <3>2. ASSUME NEW w \in rows, VersionOf(j, w, x)
          PROVE  x.from <= newest'[x.robot] /\ x.to <= newest'[x.robot]
      <4>1. x.robot \in On[j] /\ w.robot = x.robot /\ w.from = x.from /\ (x.to = w.to \/ x.to = req[j].stamp)
        BY <1>0, <1>3, <3>2, IdOfWindow DEF VersionOf, Reach
      <4>2. w.from <= newest[x.robot] /\ w.to <= newest[x.robot]
        BY <1>0, <4>1 DEF RowsInv
      <4>3. w.to \in Nat
        BY <1>0, WindowsAssumption DEF Windows, Times
      <4> QED
        BY <2>1, <3>0, <4>1, <4>2, <4>3
    <3>3. CASE Added(j, x)
      BY <2>1, <3>0, <3>3 DEF Added, InsertedBy, Open
    <3> QED
      BY <3>1, <3>2, <3>3, CommitRows
  <2> QED
    BY <1>1, <1>6, <2>1, <2>2 DEF RowsInv, Id, Same
<1>8. ASSUME NEW q \in Jobs \ {j} PROVE OwnInv(q)'
  <2>0. /\ StageInv(q) /\ VersionInv(q) /\ FreshInv(q) /\ OpenInv(q) /\ DisplayInv(q)
        /\ LockInv(j, q) /\ LockInv(q, j) /\ req[q] \in Requests
    BY DEF WindowsInv, OwnInv, TypeOK
  <2>1. /\ req'[q].stage = req[q].stage /\ req'[q].stamp = req[q].stamp
        /\ req'[q].left = req[q].left /\ req'[q].at = req[q].at /\ req'[q].tbl = req[q].tbl
        /\ req'[q].targets = req[q].targets /\ req'[q].wrote = req[q].wrote
        /\ req'[q].new = req[q].new /\ (req[q].stage = "new" => req'[q] = req[q])
    BY CommitRequests DEF Active
  <2>2. StageInv(q)'
    BY <1>1, <1>2, <2>0, <2>1 DEF StageInv, Opener
  <2>3. VersionInv(q)'
    <3>1. \A w \in rows : Id(w) \in req[q].wrote => w \in rows'
      BY <2>0, CommitRows DEF LockInv
    <3>2. ASSUME NEW i \in req[q].wrote
          PROVE  \E w \in rows' : /\ Id(w) = i /\ StillMatches(q, w) /\ ~BadInterval(q, w)
                                  /\ Versions(q, w) \subseteq req[q].new
      BY <2>0, <3>1 DEF VersionInv
    <3>3. ASSUME NEW x \in req[q].new
          PROVE  IF Id(x) \in req[q].wrote
                 THEN \E w \in rows' : Id(w) = Id(x) /\ x \in Versions(q, w)
                 ELSE InsertedBy(q, x)
      BY <2>0, <3>1 DEF VersionInv
    <3>4. \A i \in req[q].wrote : Reach(q, i)
      BY <2>0 DEF VersionInv
    <3>5. \A i \in req[q].targets : Reach(q, i) /\ (Opener(q) => i.tbl = req[q].tbl /\ i.robot = req[q].at)
      BY <2>0 DEF VersionInv
    <3> QED
      BY <1>2, <2>1, <3>2, <3>3, <3>4, <3>5 DEF VersionInv, Reach, Opener, Id
  <2>4. FreshInv(q)'
    <3> SUFFICES ASSUME Active(q), Opener(q), NEW x \in rows' PROVE x.from # req[q].stamp
      BY <1>2, <2>1 DEF FreshInv, Opener
    <3>1. CASE Kept(j, x)
      BY <2>0, <3>1 DEF Kept, FreshInv
    <3>2. ASSUME NEW w \in rows, VersionOf(j, w, x) PROVE x.from # req[q].stamp
      BY <1>3, <2>0, <3>2 DEF FreshInv
    <3>3. CASE Added(j, x)
      BY <1>0, <2>0, <3>3 DEF Added, InsertedBy, LockInv
    <3> QED
      BY <3>1, <3>2, <3>3, CommitRows
  <2>5. OpenInv(q)'
    <3> SUFFICES ASSUME NEW x \in req[q].new, x.to = Open
                 PROVE  /\ \A w \in rows' : w.tbl = x.tbl /\ w.robot = x.robot /\ w.to = Open
                                            => Id(w) \in req[q].wrote
                        /\ \A y \in req[q].new : Same(x, y) /\ y.to = Open => x = y
      BY <2>1 DEF OpenInv, OpenRows, Id, Same
    <3>1. ASSUME NEW w \in rows', w.tbl = x.tbl, w.robot = x.robot, w.to = Open
          PROVE  Id(w) \in req[q].wrote
      <4>1. CASE w \in rows
        BY <2>0, <3>1, <4>1 DEF OpenInv, OpenRows
      <4>2. CASE w \in req[j].new
        BY <2>0, <3>1, <4>2 DEF LockInv, Same
      <4> QED
        BY <4>1, <4>2, CommitRows DEF Kept
    <3> QED
      BY <2>0, <3>1 DEF OpenInv
  <2>6. DisplayInv(q)'
    <3>1. \A x \in Inserted(q) : x.disp \in displays' \cup {None}
      BY <1>0, <1>1, <2>0 DEF DisplayInv, LockInv, Deleting
    <3>2. ASSUME Deleting(q), NEW x \in rows', x.disp = Shows[q]
          PROVE  Id(x) \in req[q].wrote \cup req[q].targets
      <4>1. Shows[q] # None
        BY <3>2, WindowsAssumption DEF Deleting, Sdk
      <4>2. CASE Kept(j, x)
        BY <2>0, <3>2, <4>2 DEF Kept, DisplayInv
      <4>3. ASSUME NEW w \in rows, VersionOf(j, w, x) PROVE Id(x) \in req[q].wrote \cup req[q].targets
        BY <1>3, <2>0, <3>2, <4>1, <4>3 DEF DisplayInv, VersionOf
      <4>4. CASE Added(j, x)
        BY <2>0, <3>2, <4>4 DEF Added, LockInv
      <4> QED
        BY <4>2, <4>3, <4>4, CommitRows
    <3> QED
      BY <1>2, <2>1, <3>1, <3>2 DEF DisplayInv, Id
  <2> QED
    BY <2>2, <2>3, <2>4, <2>5, <2>6 DEF OwnInv
<1>9. OwnInv(j)' /\ ~Active(j)' /\ ~Deleting(j)' /\ req'[j].wrote = {} /\ req'[j].new = {} /\ Inserted(j)' = {}
  <2>1. req'[j] = Over
    BY CommitRequests
  <2>2. ~Active(j)' /\ ~Deleting(j)' /\ req'[j].wrote = {} /\ req'[j].new = {} /\ req'[j].targets = {} /\ Inserted(j)' = {}
    BY <2>1, OverIsQuiet DEF Active, Deleting, Inserted
  <2>3. StageInv(j)'
    BY <1>1, <2>1, <2>2, OverIsQuiet, StampsPast DEF StageInv
  <2> QED
    BY <2>2, <2>3 DEF OwnInv, VersionInv, FreshInv, OpenInv, DisplayInv
<1>10. ASSUME NEW p \in Jobs, NEW q \in Jobs, p # q PROVE LockInv(p, q)'
  <2>1. CASE p # j /\ q # j
    <3>1. LockInv(p, q)
      BY <1>10 DEF WindowsInv
    <3>2. \A r \in {p, q} : req'[r].stamp = req[r].stamp /\ req'[r].wrote = req[r].wrote /\ req'[r].new = req[r].new
      <4>1. \A r \in Jobs \ {j} : req'[r].stamp = req[r].stamp /\ req'[r].wrote = req[r].wrote
                                  /\ req'[r].new = req[r].new
        BY CommitRequests
      <4> QED
        BY <2>1, <4>1
    <3>3. /\ Active(p)' => Active(p)
          /\ Active(q)' => Active(q)
          /\ Deleting(q)' => Deleting(q)
          /\ Inserted(p)' = Inserted(p)
      BY <1>2, <2>1
    <3> QED
      BY <3>1, <3>2, <3>3 DEF LockInv, Opener, Same
  <2>2. CASE p = j \/ q = j
    BY <1>9, <2>2 DEF LockInv
  <2> QED
    BY <2>1, <2>2
<1> QED
  BY <1>4, <1>5, <1>7, <1>8, <1>9, <1>10 DEF WindowsInv

----------------------------------------------------------------------------

LEMMA InitWindows == Init => WindowsInv
<1> SUFFICES ASSUME Init PROVE WindowsInv
  OBVIOUS
<1>1. /\ Unsent \in Requests /\ Unsent.stage = "new" /\ Unsent.stamp = 0 /\ Unsent.targets = {}
      /\ Unsent.wrote = {} /\ Unsent.new = {}
  BY WindowsAssumption DEF Unsent, Requests, Stages, Times, Tables
<1>2. \A j \in Jobs : req[j] = Unsent
  BY DEF Init
<1>3. TypeOK /\ RowsInv
  BY <1>1, WindowsAssumption DEF Init, TypeOK, Times, RowsInv
<1>4. ClockInv
  <2>1. Begun = {} /\ Stamped = {}
    BY <1>1, <1>2 DEF Begun, Stamped
  <2> QED
    BY <2>1, FS_EmptySet, WindowsAssumption DEF ClockInv, Init
<1>5. ASSUME NEW j \in Jobs PROVE OwnInv(j) /\ ~Active(j) /\ Inserted(j) = {} /\ ~Deleting(j)
  <2>1. ~Active(j) /\ Inserted(j) = {} /\ ~Deleting(j)
    BY <1>1, <1>2 DEF Active, Inserted, Deleting
  <2>2. StageInv(j)
    BY <1>1, <1>2, <2>1 DEF StageInv, Init
  <2> QED
    BY <1>1, <1>2, <2>1, <2>2 DEF OwnInv, VersionInv, FreshInv, OpenInv, DisplayInv
<1>6. \A j, q \in Jobs : j # q => LockInv(j, q)
  BY <1>1, <1>2, <1>5 DEF LockInv
<1> QED
  BY <1>3, <1>4, <1>5, <1>6 DEF WindowsInv

LEMMA RollbackStep ==
    ASSUME WindowsInv, NEW j \in Jobs, Fail(j) \/ Victim(j) \/ Die(j)
    PROVE  Active(j) /\ Rollback(j) /\ WindowsInv'
<1>1. Rollback(j)
  BY DEF Fail, Victim, Die
<1>2. Active(j)
  <2>1. Refused(j) => Active(j)
    BY DEF Refused, Active
  <2>2. j \in Waiting => Active(j)
    BY DEF Waiting, Blockers, Active
  <2> QED
    BY <2>1, <2>2 DEF Fail, Victim, Die
<1> QED
  BY <1>1, <1>2, EndStep DEF Rollback

LEMMA StepWindows == WindowsInv /\ [Next]_vars => WindowsInv'
<1> SUFFICES ASSUME WindowsInv, [Next]_vars PROVE WindowsInv'
  OBVIOUS
<1>1. CASE UNCHANGED vars
  BY SMTT(20), <1>1 DEF vars, history, WindowsInv, TypeOK, ClockInv, RowsInv, Begun, Stamped, OwnInv, StageInv,
              VersionInv, FreshInv, OpenInv, DisplayInv, LockInv, Active, Reach, InsertedBy, StillMatches,
              BadInterval, Versions, Id, Same, OpenRows, Inserted, Deleting
<1>2. ASSUME NEW j \in Jobs, Begin(j) \/ Serve(j) \/ Die(j) PROVE WindowsInv'
  BY <1>2, BeginStep, LookStartStep, LookStopStep, SnapshotStep, ApplyStep, OpenWindowStep,
     RollbackStep, CommitStep DEF Serve
<1> QED
  BY <1>1, <1>2 DEF Next

LEMMA WindowsInvariance == Spec => []WindowsInv
  BY InitWindows, StepWindows, PTL DEF Spec

(* Whatever overlaps, waits, fails and dies, every window ends after it    *)
(* begins, every assignment is to a display that exists, and the clock     *)
(* stays within the bound on the requests.                                 *)
THEOREM WindowTypes == Spec => []TypeOK
<1>1. WindowsInv => TypeOK
  BY DEF WindowsInv
<1> QED
  BY <1>1, WindowsInvariance, PTL

----------------------------------------------------------------------------
(* The history of assignments.                                             *)

LEMMA OnlyCommitWrites ==
    ASSUME [Next]_vars
    PROVE  (\E j \in Jobs : Commit(j)) \/ UNCHANGED <<rows, displays, newest, late>>
<1>1. CASE UNCHANGED vars
  BY <1>1 DEF vars, history
<1>2. ASSUME NEW j \in Jobs, Begin(j) \/ Serve(j) \/ Die(j), ~Commit(j)
      PROVE  UNCHANGED <<rows, displays, newest, late>>
  BY <1>2 DEF Begin, Serve, Die, LookStart, LookStop, Snapshot, Apply, OpenWindow, Fail, Victim,
              Rollback, history
<1> QED
  BY <1>1, <1>2 DEF Next, Serve

Log == {w \in rows : w.tbl = "assignment"}

\* A request that is no deletion closes windows that are open and opens others.
LEMMA CommitTurns ==
    ASSUME WindowsInv, WindowsInv', NEW j \in Jobs, Commit(j), Kind[j] # "delete"
    PROVE  Assignments!Turn
<1>0. /\ rows \subseteq Windows /\ req[j].stamp \in Times /\ RowsInv'
  BY DEF WindowsInv, TypeOK, Requests
<1>1. ASSUME NEW w \in Log
      PROVE  \E x \in Log' : \/ x = w
                             \/ w.to = Open /\ x.to > w.from /\ x = [w EXCEPT !.to = x.to]
  <2>0. w \in rows /\ w \in Windows /\ w.tbl = "assignment"
    BY <1>0 DEF Log
  <2>1. CASE Id(w) \notin req[j].wrote
    BY <2>0, <2>1, CommitRows DEF Log
  <2>2. CASE Id(w) \in req[j].wrote
    <3>1. StillMatches(j, w) /\ ~BadInterval(j, w) /\ Reach(j, Id(w)) /\ Versions(j, w) \subseteq rows'
      BY <2>0, <2>2, CommitRows
    <3>2. PICK x \in Versions(j, w) : x \in rows'
      BY <3>1 DEF Versions
    <3>3. x = [w EXCEPT !.to = x.to] /\ x.to = req[j].stamp /\ x.tbl = w.tbl
      BY <1>0, <2>0, VersionOfWindow DEF Same
    <3>4. Kind[j] # "stop"
      BY <2>0, <3>1, IdOfWindow DEF Reach, WindowsInv
    <3>5. w.to = Open
      BY <3>1, <3>4 DEF StillMatches
    <3>6. x.to > w.from
      BY <1>0, <2>0, <3>1, <3>3, WindowsAssumption DEF BadInterval, Windows, Times
    <3> QED
      BY <2>0, <3>2, <3>3, <3>5, <3>6 DEF Log
  <2> QED
    BY <2>1, <2>2
<1>2. \A w \in Log', x \in Log' : w.robot = x.robot /\ w.to = Open /\ x.to = Open => w = x
  BY <1>0 DEF Log, RowsInv, Same
<1> QED
  BY <1>1, <1>2 DEF Assignments!Turn, Assignments!OneOpen, Log

\* A deletion takes along the windows of its display, and no other.
LEMMA CommitPurges ==
    ASSUME WindowsInv, NEW j \in Jobs, Commit(j), Kind[j] = "delete"
    PROVE  Assignments!Purge \/ UNCHANGED Log
<1>0. /\ rows \subseteq Windows /\ req[j].stamp \in Times /\ DisplayInv(j)
      /\ req[j].stage = "commit" /\ req[j].targets = {}
  BY DEF WindowsInv, TypeOK, Requests, OwnInv, StageInv, Commit
<1>1. Log' = {x \in Log : x.disp # Shows[j]}
  <2>1. ASSUME NEW x \in rows', x.tbl = "assignment" PROVE x \in Log /\ x.disp # Shows[j]
    <3>1. CASE Kept(j, x)
      BY <1>0, <2>1, <3>1 DEF Kept, Log, DisplayInv, Deleting
    <3>2. ASSUME NEW w \in rows, VersionOf(j, w, x) PROVE FALSE
      BY <1>0, <2>1, <3>2, VersionOfWindow DEF VersionOf, Same
    <3>3. ~Added(j, x)
      BY DEF Added, InsertedBy, Opener
    <3> QED
      BY <3>1, <3>2, <3>3, CommitRows
  <2>2. ASSUME NEW x \in Log, x.disp # Shows[j] PROVE x \in rows' /\ x.tbl = "assignment"
    BY <2>2, CommitRows DEF Log, StillMatches
  <2> QED
    BY <2>1, <2>2 DEF Log
<1>2. CASE \E w \in Log : w.disp = Shows[j]
  <2>1. PICK w \in Log : w.disp = Shows[j]
    BY <1>2
  <2> QED
    BY <1>1, <2>1 DEF Assignments!Purge, Log
<1>3. CASE ~\E w \in Log : w.disp = Shows[j]
  BY <1>1, <1>3
<1> QED
  BY <1>2, <1>3

(* Assigns, unassigns, deletions and starts that run at the same time keep *)
(* the history of assignments as WindowLog promises it: at most one open   *)
(* window per robot, and no change to a closed one while its display is    *)
(* there.                                                                  *)
THEOREM HistoryIsALog == Spec => AssignmentsAreALog
<1>1. Init => Assignments!Init
  BY DEF Init, Assignments!Init
<1>2. ASSUME WindowsInv, WindowsInv', [Next]_vars
      PROVE  [Assignments!Turn \/ Assignments!Purge]_(Log)
  <2>1. ASSUME NEW j \in Jobs, Commit(j) PROVE Assignments!Turn \/ Assignments!Purge \/ UNCHANGED Log
    BY <1>2, <2>1, CommitTurns, CommitPurges
  <2>2. CASE UNCHANGED <<rows, displays, newest, late>>
    BY <2>2 DEF Log
  <2> QED
    BY <1>2, <2>1, <2>2, OnlyCommitWrites
<1> QED
  BY <1>1, <1>2, WindowsInvariance, PTL DEF Spec, AssignmentsAreALog, Assignments!Spec, Log

----------------------------------------------------------------------------
(* Windows that do not overlap.                                            *)

\* The row that a window which is not new comes from: with the same end, or closed
\* by this request.
Origin(j, w, x) ==
    /\ w \in rows /\ Id(w) = Id(x) /\ Same(w, x) /\ w.from = x.from
    /\ \/ x.to = w.to
       \/ /\ x.to = req[j].stamp /\ x.to # Open /\ StillMatches(j, w) /\ Kind[j] # "delete"
          /\ Id(w) \in req[j].wrote /\ Reach(j, Id(w))

LEMMA OriginOfWindow ==
    ASSUME WindowsInv, NEW j \in Jobs, Commit(j), NEW x \in rows', ~Added(j, x)
    PROVE  \E w \in rows : Origin(j, w, x)
<1>0. rows \subseteq Windows /\ req[j].stamp \in Times /\ TypeOK
  BY DEF WindowsInv, TypeOK, Requests
<1>1. CASE Kept(j, x)
  BY <1>1 DEF Kept, Origin, Same
<1>2. ASSUME NEW w \in rows, VersionOf(j, w, x) PROVE Origin(j, w, x)
  BY <1>0, <1>2, VersionOfWindow, VersionInterval DEF VersionOf, Origin, Same
<1> QED
  BY <1>1, <1>2, CommitRows

LEMMA ApartIfShorter ==
    ASSUME NEW w, NEW u, NEW x, NEW y, Apart(w, u),
           w.from = x.from, x.to = w.to \/ w.to = Open,
           u.from = y.from, y.to = u.to \/ u.to = Open
    PROVE  Apart(x, y)
  BY DEF Apart, Within

LEMMA ApartIfAfter ==
    ASSUME NEW x \in Windows, NEW y \in Windows, y.to # Open, y.to <= x.from
    PROVE  Apart(x, y) /\ Apart(y, x)
  BY WindowsAssumption DEF Apart, Within, Windows, Times

\* A window that a request adds begins when everything else on its robot has ended,
\* unless it has been overtaken.
LEMMA AddedComesLast ==
    ASSUME WindowsInv, NEW j \in Jobs, Commit(j), NEW x \in rows', NEW y \in rows',
           Added(j, x), ~Added(j, y), Same(x, y)
    PROVE  x.from = req[j].stamp /\ y.to # Open /\ (y \in rows \/ y.to = req[j].stamp)
<1>0. rows' \subseteq Windows /\ rows \subseteq Windows /\ req[j].stamp \in Times /\ OpenInv(j) /\ TypeOK
  BY CommitRows DEF WindowsInv, OwnInv, TypeOK, Requests
<1>1. x.from = req[j].stamp /\ Kind[j] # "delete" /\ x.to = Open /\ x \in req[j].new
  BY DEF Added, InsertedBy, Opener, Inserted
<1>2. CASE Kept(j, y)
  BY <1>0, <1>1, <1>2 DEF Kept, OpenInv, OpenRows, Same
<1>3. ASSUME NEW w \in rows, VersionOf(j, w, y) PROVE y.to = req[j].stamp /\ y.to # Open
  BY <1>0, <1>1, <1>3, VersionOfWindow, VersionInterval DEF VersionOf
<1> QED
  BY <1>1, <1>2, <1>3, CommitRows DEF Kept

LEMMA AddedAlone ==
    ASSUME WindowsInv, NEW j \in Jobs, NEW x, NEW y, Added(j, x), Added(j, y), Same(x, y)
    PROVE  x = y
<1>1. OpenInv(j) /\ x \in req[j].new /\ y \in req[j].new /\ x.to = Open /\ y.to = Open
  BY DEF WindowsInv, OwnInv, Added, InsertedBy, Inserted
<1> QED
  BY <1>1 DEF OpenInv

\* Windows that were apart are, however they are shortened.
LEMMA OriginsApart ==
    ASSUME WindowsInv, NEW j \in Jobs, NEW x, NEW y, NEW w, NEW u,
           Origin(j, w, x), Origin(j, u, y), Apart(w, u),
           x.to = w.to \/ w.to = Open, y.to = u.to \/ u.to = Open
    PROVE  Apart(x, y)
  BY ApartIfShorter DEF Origin

LEMMA StepLog == WindowsInv /\ WindowsInv' /\ LogInv /\ [Next]_vars => LogInv'
<1> SUFFICES ASSUME WindowsInv, WindowsInv', LogInv, [Next]_vars PROVE LogInv'
  OBVIOUS
<1>1. CASE UNCHANGED <<rows, displays, newest, late>>
  BY <1>1 DEF LogInv, Id, Same, Apart, Within
<1>2. ASSUME NEW j \in Jobs, Commit(j) PROVE LogInv'
  <2>0. /\ rows \subseteq Windows /\ rows' \subseteq Windows /\ RowsInv /\ RowsInv'
        /\ req[j].stamp \in Nat /\ TypeOK
        /\ \A b \in Robots : newest[b] \in Nat
    BY WindowsAssumption DEF WindowsInv, TypeOK, OwnInv, Requests, Times
  <2>1. late' = late \cup {Id(w) : w \in {x \in Inserted(j) : x.from < newest[x.robot]}}
    BY <1>2 DEF Commit
  <2>2. ASSUME NEW x \in rows', x.tbl = "assignment", NEW w \in rows, Origin(j, w, x)
        PROVE  (x.to = w.to \/ w.to = Open) /\ w.tbl = "assignment"
    <3>1. w.tbl = "assignment" /\ Id(w).tbl = w.tbl
      BY <2>0, <2>2, IdOfWindow DEF Origin, Same
    <3> QED
      BY <2>2, <3>1 DEF Origin, StillMatches, Reach
  <2>3. ASSUME NEW x \in rows', NEW y \in rows', Same(x, y), Added(j, x), Id(x) \notin late', ~Added(j, y)
        PROVE  Apart(x, y) /\ Apart(y, x)
    <3>1. x.from = req[j].stamp /\ y.to # Open /\ (y \in rows \/ y.to = req[j].stamp)
      BY <1>2, <2>3, AddedComesLast
    <3>2. newest[x.robot] <= req[j].stamp
      BY <2>0, <2>1, <2>3, <3>1 DEF Added, Windows
    <3>3. y \in rows => y.to <= newest[x.robot] /\ y.to \in Nat /\ newest[x.robot] \in Nat
      BY <2>0, <2>3, WindowsAssumption DEF RowsInv, Same, Windows, Times
    <3>4. y.to <= x.from
      BY <2>0, <3>1, <3>2, <3>3
    <3> QED
      BY <2>0, <3>1, <3>4, ApartIfAfter
  <2>4. ASSUME NEW x \in rows', NEW y \in rows', Same(x, y), x # y, x.tbl = "assignment",
               Id(x) \notin late', Id(y) \notin late'
        PROVE  Apart(x, y)
    <3>1. CASE Added(j, x) /\ Added(j, y)
      BY <2>4, <3>1, AddedAlone
    <3>2. CASE Added(j, x) /\ ~Added(j, y)
      BY <2>3, <2>4, <3>2
    <3>3. CASE ~Added(j, x) /\ Added(j, y)
      <4>1. Same(y, x)
        BY <2>4 DEF Same
      <4> QED
        BY <2>3, <2>4, <3>3, <4>1
    <3>4. CASE ~Added(j, x) /\ ~Added(j, y)
      <4>1. PICK w \in rows : Origin(j, w, x)
        BY <1>2, <3>4, OriginOfWindow
      <4>2. PICK u \in rows : Origin(j, u, y)
        BY <1>2, <3>4, OriginOfWindow
      <4>3. w # u /\ Same(w, u)
        BY <2>0, <2>4, <4>1, <4>2 DEF Origin, RowsInv, Same
      <4>4. Id(w) \notin late /\ Id(u) \notin late
        BY <2>1, <2>4, <4>1, <4>2 DEF Origin
      <4>5. /\ x.to = w.to \/ w.to = Open
            /\ y.to = u.to \/ u.to = Open
            /\ w.tbl = "assignment"
        BY <2>2, <2>4, <4>1, <4>2 DEF Same
      <4>6. Apart(w, u)
        BY <4>3, <4>4, <4>5 DEF LogInv
      <4> QED
        BY <4>1, <4>2, <4>5, <4>6, OriginsApart
    <3> QED
      BY <3>1, <3>2, <3>3, <3>4
  <2> QED
    BY <2>4 DEF LogInv, Id, Same, Apart, Within
<1> QED
  BY <1>1, <1>2, OnlyCommitWrites

(* Two assignments of a robot overlap only where one of them was overtaken:*)
(* an event is attributed to one display, unless a request on its robot    *)
(* that took its stamp later committed before the one that opened a window.*)
THEOREM AttributedToOne == Spec => []AttributedOnce
<1>1. Init => LogInv
  BY DEF Init, LogInv
<1>2. LogInv => AttributedOnce
  BY DEF LogInv, AttributedOnce, Overlap, Apart
<1> QED
  BY <1>1, <1>2, StepLog, WindowsInvariance, PTL DEF Spec

----------------------------------------------------------------------------
(* The sessions of a robot.                                                *)

\* A step of one request that commits nothing keeps sessions apart, if it keeps its
\* own place.
LEMMA LocalSession ==
    ASSUME WindowsInv, SessionInv, NEW j \in Jobs, UNCHANGED rows,
           \A q \in Jobs \ {j} : req'[q] = req[q],
           Begun \subseteq Begun',
           Active(j)' => \A b \in Robots : OneKey(b)' /\ OnRobot(j, b) =>
                            /\ SessionSerial(j, b)'
                            /\ Active(j) \/ \A q \in Jobs \ {j} : ~(Active(q) /\ OnRobot(q, b))
    PROVE  SessionInv'
<1> SUFFICES ASSUME NEW b \in Robots, OneKey(b)'
             PROVE  /\ \A w, x \in rows : Same(w, x) /\ w # x /\ w.tbl = "session" /\ w.robot = b => Apart(w, x)
                    /\ \A p, q \in Jobs : Active(p)' /\ Active(q)' /\ OnRobot(p, b) /\ OnRobot(q, b) => p = q
                    /\ \A p \in Jobs : Active(p)' /\ OnRobot(p, b) => SessionSerial(p, b)'
  BY DEF SessionInv, OnRobot, Same, Apart, Within
<1>1. OneKey(b)
  BY DEF OneKey
<1>2. \A q \in Jobs \ {j} : /\ Active(q)' <=> Active(q)
                            /\ OnRobot(q, b) /\ SessionSerial(q, b) => SessionSerial(q, b)'
  BY DEF Active, SessionSerial, Id
<1> QED
  BY <1>1, <1>2 DEF SessionInv

LEMMA BeginSession ==
    ASSUME WindowsInv, SessionInv, NEW j \in Jobs, Begin(j)
    PROVE  SessionInv'
<1>1. /\ req[j] \in Requests /\ req[j].stage = "new" /\ StageInv(j)
      /\ req \in [Jobs -> Requests]
  BY DEF Begin, WindowsInv, TypeOK, OwnInv
<1>2. PICK a \in On[j] :
          req' = [req EXCEPT ![j] = [@ EXCEPT
                    !.stage = IF Kind[j] \in Sdk THEN "look" ELSE "stmt",
                    !.stamp = clock', !.left = On[j] \ {a}, !.at = a]]
  BY DEF Begin
<1>3. /\ req'[j].stage # "new" /\ req'[j].stamp = clock'
      /\ req'[j].wrote = {} /\ req'[j].targets = {}
      /\ \A q \in Jobs \ {j} : req'[q] = req[q]
  <2>1. req[j].wrote = {} /\ req[j].targets = {}
    BY <1>1 DEF StageInv
  <2> QED
    BY <1>1, <1>2, <2>1 DEF Requests
<1>4. Begun \subseteq Begun' /\ j \in Begun' /\ UNCHANGED rows
  BY <1>1, <1>3 DEF Begun, Begin
<1>5. ASSUME NEW b \in Robots, OneKey(b)', OnRobot(j, b)
      PROVE  /\ SessionSerial(j, b)'
             /\ \A q \in Jobs \ {j} : ~(Active(q) /\ OnRobot(q, b))
  <2>1. SessionSerial(j, b)'
    <3>1. Kind[j] = "start" => clock' = clock + 1
      BY DEF Begin
    <3> QED
      BY <1>3, <1>4, <3>1, StampsPast DEF SessionSerial
  <2>2. ASSUME NEW q \in Jobs \ {j}, Active(q), OnRobot(q, b) PROVE FALSE
    <3>1. q \in Begun'
      <4>1. req'[q] = req[q] /\ req[q].stage # "new"
        BY <1>3, <2>2 DEF Active
      <4> QED
        BY <4>1 DEF Begun
    <3>2. KeyOf[q] = KeyOf[j]
      BY <1>4, <1>5, <2>2, <3>1 DEF OneKey, OnRobot
    <3>3. KeyOf[j] = None
      BY <2>2, <3>2 DEF Begin, KeyFree
    <3> QED
      BY <1>5, <3>3, WindowsAssumption DEF OnRobot
  <2> QED
    BY <2>1, <2>2
<1> QED
  BY <1>3, <1>4, <1>5, LocalSession

LEMMA LookStopSession ==
    ASSUME WindowsInv, SessionInv, NEW j \in Jobs, LookStop(j)
    PROVE  SessionInv'
<1>1. /\ req[j] \in Requests /\ StageInv(j) /\ Active(j) /\ req \in [Jobs -> Requests]
      /\ Kind[j] = "stop" /\ req[j].wrote = {} /\ UNCHANGED rows
  BY DEF LookStop, WindowsInv, TypeOK, OwnInv, StageInv, Active
<1>2. \A q \in Jobs \ {j} : req'[q] = req[q]
  BY <1>1 DEF LookStop
<1>3. Begun \subseteq Begun'
  <2>1. CASE Matched(j) = {}
    BY <1>1, <1>2, <2>1, OverIsQuiet DEF LookStop, Begun
  <2>2. CASE Matched(j) # {}
    <3>1. req' = [req EXCEPT ![j] = [@ EXCEPT !.stage = "apply", !.stamp = clock',
                                              !.targets = {Id(w) : w \in Matched(j)}]]
      BY <2>2 DEF LookStop
    <3>2. req'[j].stage = "apply"
      BY <1>1, <3>1 DEF Requests
    <3> QED
      BY <1>2, <3>2 DEF Begun
  <2> QED
    BY <2>1, <2>2
<1>4. ASSUME Active(j)', NEW b \in Robots PROVE SessionSerial(j, b)'
  <2>1. req' = [req EXCEPT ![j] = [@ EXCEPT !.stage = "apply", !.stamp = clock',
                                            !.targets = {Id(w) : w \in Matched(j)}]]
    BY <1>1, <1>4, OverIsQuiet DEF LookStop, Active
  <2>2. req'[j].wrote = {} /\ req'[j].targets = {Id(w) : w \in Matched(j)}
    BY <1>1, <2>1 DEF Requests
  <2>3. \A w \in Matched(j) : w \in rows /\ w.to = Open
    BY <1>1 DEF Matched, OpenRows, Opener
  <2>4. \A w, x \in rows : Id(w) = Id(x) => w = x
    BY DEF WindowsInv, RowsInv
  <2>5. \A w \in rows : Id(w) \in req'[j].wrote \cup req'[j].targets => w.to = Open
    BY <2>2, <2>3, <2>4
  <2> QED
    BY <1>1, <2>5 DEF SessionSerial, Id
<1> QED
  BY <1>1, <1>2, <1>3, <1>4, LocalSession

\* A request that goes on with what it has, or ends, keeps its place.
LEMMA KeepSession ==
    ASSUME WindowsInv, SessionInv, NEW j \in Jobs, UNCHANGED rows, Active(j),
           \A q \in Jobs \ {j} : req'[q] = req[q],
           req'[j].stage # "new",
           Active(j)' =>
              /\ req'[j].stamp = req[j].stamp
              /\ Kind[j] = "stop" =>
                    req'[j].wrote \cup req'[j].targets \subseteq req[j].wrote \cup req[j].targets
    PROVE  SessionInv'
<1>1. Begun \subseteq Begun'
  BY DEF Begun
<1>2. ASSUME Active(j)', NEW b \in Robots, OneKey(b)', OnRobot(j, b)
      PROVE  SessionSerial(j, b)'
  <2>1. OneKey(b)
    BY <1>1, <1>2 DEF OneKey
  <2>2. SessionSerial(j, b)
    BY <1>2, <2>1 DEF SessionInv
  <2>3. Id(j)' = Id(j) /\ \A w : Id(w)' = Id(w)
    BY DEF Id
  <2> QED
    BY <1>2, <2>2, <2>3 DEF SessionSerial
<1> QED
  BY <1>1, <1>2, LocalSession

LEMMA QuietSession ==
    ASSUME WindowsInv, SessionInv, NEW j \in Jobs,
           \/ LookStart(j) \/ Snapshot(j) \/ Apply(j) \/ OpenWindow(j)
           \/ Fail(j) \/ Victim(j) \/ Die(j)
    PROVE  SessionInv'
<1>1. /\ req[j] \in Requests /\ StageInv(j) /\ VersionInv(j) /\ req \in [Jobs -> Requests]
  BY DEF WindowsInv, TypeOK, OwnInv
<1>2. CASE Fail(j) \/ Victim(j) \/ Die(j)
  <2>1. Active(j) /\ UNCHANGED rows /\ req' = [req EXCEPT ![j] = Over]
    BY <1>2, RollbackStep DEF Rollback
  <2>2. ~Active(j)' /\ req'[j].stage # "new" /\ \A q \in Jobs \ {j} : req'[q] = req[q]
    BY <1>1, <2>1, OverIsQuiet DEF Active
  <2> QED
    BY <2>1, <2>2, KeepSession
<1>3. CASE LookStart(j)
  <2>1. Active(j) /\ UNCHANGED rows /\ Kind[j] = "start" /\ \A q \in Jobs \ {j} : req'[q] = req[q]
    BY <1>1, <1>3 DEF LookStart, Active
  <2>2. CASE Shows[j] \notin displays \cup {None}
    <3>1. req'[j] = Over
      BY <1>1, <1>3, <2>2 DEF LookStart
    <3>2. ~Active(j)' /\ req'[j].stage # "new"
      BY <3>1, OverIsQuiet DEF Active
    <3> QED
      BY <2>1, <3>2, KeepSession
  <2>3. CASE Shows[j] \in displays \cup {None}
    <3>1. req'[j] = [req[j] EXCEPT !.stage = "stmt", !.tbl = StartTable(j)]
      BY <1>1, <1>3, <2>3 DEF LookStart
    <3>2. req'[j].stamp = req[j].stamp /\ req'[j].stage # "new"
      BY <1>1, <3>1 DEF Requests
    <3> QED
      BY <2>1, <3>2, KeepSession
  <2> QED
    BY <2>2, <2>3
<1>4. CASE Snapshot(j)
  <2>1. Active(j) /\ UNCHANGED rows /\ Kind[j] # "stop" /\ \A q \in Jobs \ {j} : req'[q] = req[q]
    BY <1>1, <1>4 DEF Snapshot, Active, StageInv
  <2>2. req'[j] = [req[j] EXCEPT
                     !.stage = IF Matched(j) = {} THEN Written(j) ELSE "apply",
                     !.targets = {Id(w) : w \in Matched(j)}]
    BY <1>1, <1>4 DEF Snapshot
  <2>3. req'[j].stamp = req[j].stamp /\ req'[j].stage # "new"
    BY <1>1, <2>2 DEF Requests, Written
  <2> QED
    BY <2>1, <2>3, KeepSession
<1>5. CASE Apply(j)
  <2>1. Active(j) /\ UNCHANGED rows /\ \A q \in Jobs \ {j} : req'[q] = req[q]
    BY <1>1, <1>5 DEF Apply, Active
  <2>2. PICK i \in req[j].targets :
          req'[j] = [req[j] EXCEPT
                       !.stage = IF req[j].targets = {i} THEN Written(j) ELSE "apply",
                       !.targets = req[j].targets \ {i},
                       !.wrote = req[j].wrote \cup {Id(w) : w \in Current(j, i)},
                       !.new = req[j].new \cup UNION {Versions(j, w) : w \in Current(j, i)}]
    BY <1>1, <1>5 DEF Apply
  <2>3. /\ req'[j].stamp = req[j].stamp /\ req'[j].stage # "new"
        /\ req'[j].targets = req[j].targets \ {i}
        /\ req'[j].wrote = req[j].wrote \cup {Id(w) : w \in Current(j, i)}
    BY <1>1, <2>2 DEF Requests, Written
  <2>4. {Id(w) : w \in Current(j, i)} \subseteq {i}
    BY DEF Current
  <2>5. req'[j].wrote \cup req'[j].targets \subseteq req[j].wrote \cup req[j].targets
    BY <2>3, <2>4
  <2> QED
    BY <2>1, <2>3, <2>5, KeepSession
<1>6. CASE OpenWindow(j)
  <2>1. /\ Active(j) /\ UNCHANGED rows /\ Kind[j] # "stop"
        /\ \A q \in Jobs \ {j} : req'[q] = req[q]
    BY <1>1, <1>6 DEF OpenWindow, Active, StageInv, Opener
  <2>2. PICK st \in {"stmt", "commit"}, tb \in Tables, b \in Robots, L \in SUBSET Robots :
           Opens(j, st, tb, b, L)
    BY <1>6, OpeningRequest
  <2>3. req'[j].stamp = req[j].stamp /\ req'[j].stage # "new"
    BY <1>1, <2>2 DEF Opens, Requests
  <2> QED
    BY <2>1, <2>3, KeepSession
<1> QED
  BY <1>2, <1>3, <1>4, <1>5, <1>6

\* Where a session that a commit leaves comes from: only the request of a fleet key
\* on its robot ends it, and only while it is open.
SessionOrigin(j, b, w, x) ==
    /\ Origin(j, w, x) /\ w.tbl = "session" /\ w.robot = b
    /\ x.to = w.to \/ w.to = Open
    /\ ~OnRobot(j, b) => x.to = w.to

LEMMA SessionComesFrom ==
    ASSUME WindowsInv, SessionInv, NEW j \in Jobs, Commit(j), NEW b \in Robots, OneKey(b),
           NEW x \in rows', x.tbl = "session", x.robot = b
    PROVE  /\ Added(j, x) => OnRobot(j, b) /\ Kind[j] = "start"
           /\ ~Added(j, x) => \E w \in rows : SessionOrigin(j, b, w, x)
<1>0. /\ rows \subseteq Windows /\ TypeOK /\ Active(j) /\ On[j] \subseteq Robots
      /\ Kind[j] \in {"assign", "unassign", "delete", "start", "stop"}
  BY WindowsAssumption DEF WindowsInv, TypeOK, Commit, Active, Sdk
<1>1. ASSUME Added(j, x) PROVE OnRobot(j, b) /\ Kind[j] = "start"
  <2>1. Kind[j] = "start" /\ b \in On[j]
    BY <1>1 DEF Added, InsertedBy
  <2> QED
    BY <2>1, WindowsAssumption DEF OnRobot, Sdk
<1>2. ASSUME ~Added(j, x) PROVE \E w \in rows : SessionOrigin(j, b, w, x)
  <2>1. PICK w \in rows : Origin(j, w, x)
    BY <1>2, OriginOfWindow
  <2>2. w.tbl = "session" /\ w.robot = b /\ Id(w).tbl = "session" /\ Id(w).robot = b
    BY <2>1 DEF Origin, Same, Id
  <2>3. CASE x.to = w.to
    BY <2>1, <2>2, <2>3 DEF SessionOrigin
  <2>4. CASE x.to # w.to
    <3>1. StillMatches(j, w) /\ Kind[j] # "delete" /\ Id(w) \in req[j].wrote /\ Reach(j, Id(w))
      BY <2>1, <2>4 DEF Origin
    <3>2. Kind[j] \in Sdk /\ b \in On[j]
      BY <1>0, <2>2, <3>1 DEF Reach, Sdk
    <3>3. OnRobot(j, b)
      BY <3>2, WindowsAssumption DEF OnRobot
    <3>4. SessionSerial(j, b)
      BY <1>0, <3>3 DEF SessionInv
    <3>5. w.to = Open
      BY <3>1, <3>2, <3>4 DEF SessionSerial, StillMatches, Sdk
    <3> QED
      BY <2>1, <2>2, <3>3, <3>5 DEF SessionOrigin
  <2> QED
    BY <2>3, <2>4
<1> QED
  BY <1>1, <1>2

LEMMA CommitSession ==
    ASSUME WindowsInv, WindowsInv', SessionInv, NEW j \in Jobs, Commit(j)
    PROVE  SessionInv'
<1>0. /\ rows \subseteq Windows /\ rows' \subseteq Windows /\ RowsInv /\ RowsInv'
      /\ Active(j) /\ req[j].stamp \in Nat /\ ~Active(j)'
      /\ \A q \in Jobs \ {j} : /\ Active(q)' <=> Active(q)
                               /\ req'[q].wrote = req[q].wrote /\ req'[q].targets = req[q].targets
                               /\ req'[q].stamp = req[q].stamp
  <2>1. \A q \in Jobs \ {j} : Active(q)' <=> Active(q)
    BY CommitRequests DEF Active
  <2> QED
    BY <2>1, CommitRequests, OverIsQuiet, StampsPast DEF WindowsInv, TypeOK, Commit, Active
<1>1. Begun \subseteq Begun'
  <2>1. \A q \in Jobs : req[q].stage # "new" => req'[q].stage # "new"
    BY CommitRequests, OverIsQuiet
  <2> QED
    BY <2>1 DEF Begun
<1> SUFFICES ASSUME NEW b \in Robots, OneKey(b)'
             PROVE  /\ \A x, y \in rows' : Same(x, y) /\ x # y /\ x.tbl = "session" /\ x.robot = b => Apart(x, y)
                    /\ \A p, q \in Jobs : Active(p)' /\ Active(q)' /\ OnRobot(p, b) /\ OnRobot(q, b) => p = q
                    /\ \A p \in Jobs : Active(p)' /\ OnRobot(p, b) => SessionSerial(p, b)'
  BY DEF SessionInv, OnRobot, Same, Apart, Within
<1>2. OneKey(b)
  BY <1>1 DEF OneKey
<1>3. \A p, q \in Jobs : Active(p)' /\ Active(q)' /\ OnRobot(p, b) /\ OnRobot(q, b) => p = q
  BY <1>0, <1>2 DEF SessionInv
<1>4. ASSUME NEW p \in Jobs, Active(p)', OnRobot(p, b) PROVE SessionSerial(p, b)'
  <2>1. Active(p) /\ p # j /\ ~OnRobot(j, b) /\ SessionSerial(p, b) /\ VersionInv(p)
    BY <1>0, <1>2, <1>4 DEF SessionInv, WindowsInv, OwnInv
  <2>2. ASSUME NEW x \in rows', x.tbl = "session", x.robot = b
        PROVE  \E w \in rows : /\ w.tbl = "session" /\ w.robot = b /\ w.from = x.from
                               /\ w.to = x.to /\ Id(w) = Id(x)
    <3>1. PICK w \in rows : SessionOrigin(j, b, w, x)
      BY <1>2, <2>1, <2>2, SessionComesFrom
    <3> QED
      BY <2>1, <3>1 DEF SessionOrigin, Origin
  <2>3. ASSUME Kind[p] = "start", NEW x \in rows', x.tbl = "session", x.robot = b
        PROVE  x.from < req'[p].stamp /\ x.to < req'[p].stamp
    BY <1>0, <2>1, <2>2, <2>3 DEF SessionSerial
  <2>4. ASSUME Kind[p] = "stop", NEW x \in rows', Id(x) \in req'[p].wrote \cup req'[p].targets
        PROVE  x.to = Open
    <3>1. Id(x) \in req[p].wrote \cup req[p].targets
      BY <1>0, <2>1, <2>4
    <3>2. Reach(p, Id(x))
      BY <2>1, <3>1 DEF VersionInv
    <3>3. x.tbl = "session" /\ x.robot = b
      BY <1>4, <2>4, <3>2 DEF Reach, OnRobot, Id
    <3> QED
      BY <2>1, <2>2, <2>4, <3>1, <3>3 DEF SessionSerial
  <2> QED
    BY <2>3, <2>4 DEF SessionSerial, Id
<1>5. ASSUME NEW x \in rows', NEW y \in rows', Same(x, y), x.tbl = "session", x.robot = b,
             Added(j, x), ~Added(j, y)
      PROVE  Apart(x, y) /\ Apart(y, x)
  <2>1. x.from = req[j].stamp /\ y.to # Open /\ (y \in rows \/ y.to = req[j].stamp)
    BY <1>5, AddedComesLast
  <2>2. OnRobot(j, b) /\ Kind[j] = "start"
    BY <1>2, <1>5, SessionComesFrom
  <2>3. SessionSerial(j, b)
    BY <1>0, <1>2, <2>2 DEF SessionInv
  <2>4. y.tbl = "session" /\ y.robot = b /\ y.to \in Nat
    BY <1>0, <1>5, WindowsAssumption DEF Same, Windows, Times
  <2>5. y.to <= x.from
    BY <1>0, <2>1, <2>2, <2>3, <2>4 DEF SessionSerial
  <2> QED
    BY <1>0, <2>1, <2>5, ApartIfAfter
<1>6. ASSUME NEW x \in rows', NEW y \in rows', Same(x, y), x # y, x.tbl = "session", x.robot = b
      PROVE  Apart(x, y)
  <2>0. y.tbl = "session" /\ y.robot = b /\ Same(y, x)
    BY <1>6 DEF Same
  <2>1. CASE Added(j, x) /\ Added(j, y)
    BY <1>6, <2>1, AddedAlone
  <2>2. CASE Added(j, x) /\ ~Added(j, y)
    BY <1>5, <1>6, <2>2
  <2>3. CASE ~Added(j, x) /\ Added(j, y)
    BY <1>5, <1>6, <2>0, <2>3
  <2>4. CASE ~Added(j, x) /\ ~Added(j, y)
    <3>1. PICK w \in rows : SessionOrigin(j, b, w, x)
      BY <1>2, <1>6, <2>4, SessionComesFrom
    <3>2. PICK u \in rows : SessionOrigin(j, b, u, y)
      BY <1>2, <2>0, <2>4, SessionComesFrom
    <3>3. w # u /\ Same(w, u) /\ w.tbl = "session" /\ w.robot = b
      BY <1>0, <1>6, <3>1, <3>2 DEF SessionOrigin, Origin, RowsInv, Same
    <3>4. Apart(w, u)
      BY <1>2, <3>3 DEF SessionInv
    <3> QED
      BY <3>1, <3>2, <3>4, OriginsApart DEF SessionOrigin
  <2> QED
    BY <2>1, <2>2, <2>3, <2>4
<1> QED
  BY <1>3, <1>4, <1>6

LEMMA StepSession == WindowsInv /\ WindowsInv' /\ SessionInv /\ [Next]_vars => SessionInv'
<1> SUFFICES ASSUME WindowsInv, WindowsInv', SessionInv, [Next]_vars PROVE SessionInv'
  OBVIOUS
<1>1. CASE UNCHANGED vars
  BY <1>1 DEF vars, history, SessionInv, OneKey, Begun, Active, OnRobot, SessionSerial, Same, Id, Apart, Within
<1>2. ASSUME NEW j \in Jobs, Begin(j) \/ Serve(j) \/ Die(j) PROVE SessionInv'
  BY <1>2, BeginSession, LookStopSession, QuietSession, CommitSession DEF Serve
<1> QED
  BY <1>1, <1>2 DEF Next

(* Two sessions of a robot overlap only if two fleet keys were used on it: *)
(* the requests of one key are served one after another, so a start finds  *)
(* every earlier session ended, and a stop ends the one it has read.       *)
THEOREM SessionsApart == Spec => []SessionsDisjoint
<1>1. Init => SessionInv
  BY InitWindows DEF Init, SessionInv, Active, Unsent
<1>2. WindowsInv /\ SessionInv => SessionsDisjoint
  <2> SUFFICES ASSUME WindowsInv, SessionInv, NEW w \in rows, NEW x \in rows, Overlap(w, x), w.tbl = "session"
               PROVE  Cardinality(KeysUsed(w.robot)) > 1
    BY DEF SessionsDisjoint
  <2> DEFINE b == w.robot
             K == KeysUsed(b)
             users == {q \in Begun : Kind[q] \in Sdk /\ On[q] = {b}}
  <2>1. b \in Robots /\ ~OneKey(b)
    BY DEF SessionInv, Overlap, Apart, WindowsInv, TypeOK, Windows
  <2>2. PICK j \in Begun, q \in Begun : j \in users /\ q \in users /\ KeyOf[j] # KeyOf[q]
    BY <2>1 DEF OneKey
  <2>3. KeyOf[j] \in K /\ KeyOf[q] \in K
    BY <2>2 DEF KeysUsed
  <2>4. IsFiniteSet(K)
    <3>1. IsFiniteSet(users)
      BY FS_Subset DEF WindowsInv, ClockInv
    <3>2. [k \in users |-> KeyOf[k]] \in Surjection(users, K)
      BY DEF KeysUsed, Surjection
    <3> QED
      BY <3>1, <3>2, FS_Surjection
  <2> HIDE DEF K
  <2>5. Cardinality({KeyOf[j], KeyOf[q]}) = 2
    <3>1. {KeyOf[j], KeyOf[q]} = {KeyOf[j]} \cup {KeyOf[q]}
      OBVIOUS
    <3>2. IsFiniteSet({KeyOf[j]}) /\ Cardinality({KeyOf[j]}) = 1 /\ KeyOf[q] \notin {KeyOf[j]}
      BY <2>2, FS_Singleton
    <3>3. Cardinality({KeyOf[j]} \cup {KeyOf[q]}) = Cardinality({KeyOf[j]}) + 1
      BY <3>2, FS_AddElement
    <3> QED
      BY <3>1, <3>2, <3>3
  <2>6. {KeyOf[j], KeyOf[q]} \in SUBSET K
    BY <2>3
  <2>7. Cardinality({KeyOf[j], KeyOf[q]}) <= Cardinality(K) /\ Cardinality(K) \in Nat
    BY <2>4, <2>6, FS_Subset, FS_CardinalityType
  <2> QED
    BY <2>5, <2>7 DEF K
<1> QED
  BY <1>1, <1>2, StepSession, WindowsInvariance, PTL DEF Spec

----------------------------------------------------------------------------
(* A request that is alone.                                                *)

LEMMA LocalAlone ==
    ASSUME WindowsInv, AloneInv, NEW j \in Jobs, UNCHANGED <<rows, displays>>,
           \A q \in Jobs \ {j} : req'[q] = req[q],
           Active(j)' /\ req'[j].alone => Undisturbed(j)'
    PROVE  AloneInv'
<1>1. ASSUME NEW q \in Jobs \ {j}, Active(q)', req'[q].alone PROVE Undisturbed(q)'
  <2>1. req'[q] = req[q]
    OBVIOUS
  <2>2. Active(q) /\ req[q].alone
    BY <1>1, <2>1 DEF Active
  <2>3. Undisturbed(q)
    BY <2>2 DEF AloneInv
  <2>4. q \in Stamped' <=> q \in Stamped
    BY <2>1 DEF Stamped, Begun
  <2>5. OpenRows(req[q].tbl, req[q].at)' = OpenRows(req[q].tbl, req[q].at)
    BY <2>1 DEF OpenRows
  <2> QED
    BY <2>1, <2>3, <2>4, <2>5 DEF Undisturbed, Opener, Id, OpenRows
<1> QED
  BY <1>1 DEF AloneInv

LEMMA BeginAlone ==
    ASSUME WindowsInv, AloneInv, NEW j \in Jobs, Begin(j)
    PROVE  AloneInv'
<1>1. /\ req[j] \in Requests /\ req[j].stage = "new" /\ req \in [Jobs -> Requests]
      /\ UNCHANGED <<rows, displays>>
  BY DEF Begin, WindowsInv, TypeOK, history
<1>2. PICK b \in On[j] :
          req' = [req EXCEPT ![j] = [@ EXCEPT
                    !.stage = IF Kind[j] \in Sdk THEN "look" ELSE "stmt",
                    !.stamp = clock', !.left = On[j] \ {b}, !.at = b]]
  BY DEF Begin
<1>3. /\ req'[j].stage = IF Kind[j] \in Sdk THEN "look" ELSE "stmt"
      /\ req'[j].stamp = clock'
      /\ \A q \in Jobs \ {j} : req'[q] = req[q]
  BY <1>1, <1>2 DEF Requests
<1>4. Kind[j] # "stop" => \A w \in rows : w.from < clock'
  BY StampsPast DEF Begin
<1>5. j \in Stamped' => Kind[j] # "stop"
  BY <1>3 DEF Stamped, Sdk
<1>6. Undisturbed(j)'
  BY <1>1, <1>3, <1>4, <1>5 DEF Undisturbed, Begin, Sdk
<1> QED
  BY <1>1, <1>3, <1>6, LocalAlone

LEMMA LookStartAlone ==
    ASSUME WindowsInv, AloneInv, NEW j \in Jobs, LookStart(j)
    PROVE  AloneInv'
<1>1. /\ req[j] \in Requests /\ req[j].stage = "look" /\ req \in [Jobs -> Requests]
      /\ UNCHANGED <<rows, displays>> /\ Kind[j] = "start" /\ Active(j)
      /\ req[j].wrote = {} /\ \A q \in Jobs \ {j} : req'[q] = req[q]
  BY DEF LookStart, WindowsInv, TypeOK, OwnInv, StageInv, Active
<1>2. CASE Shows[j] \notin displays \cup {None}
  <2>1. req'[j] = Over
    BY <1>1, <1>2 DEF LookStart
  <2>2. ~Active(j)'
    BY <2>1, OverIsQuiet DEF Active
  <2> QED
    BY <1>1, <2>2, LocalAlone
<1>3. CASE Shows[j] \in displays \cup {None}
  <2>1. req'[j] = [req[j] EXCEPT !.stage = "stmt", !.tbl = StartTable(j)]
    BY <1>1, <1>3 DEF LookStart
  <2>2. /\ req'[j].stamp = req[j].stamp /\ req'[j].stage = "stmt" /\ req'[j].tbl = StartTable(j)
        /\ req'[j].at = req[j].at /\ req'[j].wrote = {} /\ req'[j].new = req[j].new
        /\ req'[j].alone = req[j].alone
    BY <1>1, <2>1 DEF Requests
  <2>3. j \in Stamped
    BY <1>1 DEF Stamped, Begun
  <2>4. ASSUME req[j].alone PROVE Undisturbed(j)'
    <3>1. Undisturbed(j)
      BY <1>1, <2>4 DEF AloneInv
    <3>2. \A w \in rows : w.robot \in On[j] => w.from < req[j].stamp
      BY <2>3, <3>1 DEF Undisturbed
    <3>3. Shows[j] # None /\ StartTable(j) = "session" =>
             \E w \in rows : w.tbl = "assignment" /\ w.robot = req[j].at /\ w.to = Open /\ w.disp = Shows[j]
      BY DEF StartTable, OpenRows
    <3> QED
      BY <1>1, <1>3, <2>2, <3>2, <3>3 DEF Undisturbed, Sdk
  <2> QED
    BY <1>1, <2>2, <2>4, LocalAlone
<1> QED
  BY <1>2, <1>3

LEMMA LookStopAlone ==
    ASSUME WindowsInv, AloneInv, NEW j \in Jobs, LookStop(j)
    PROVE  AloneInv'
<1>1. /\ req[j] \in Requests /\ req \in [Jobs -> Requests]
      /\ UNCHANGED <<rows, displays>> /\ Kind[j] = "stop" /\ ~Opener(j) /\ Kind[j] \in Sdk
      /\ \A q \in Jobs \ {j} : req'[q] = req[q]
  BY DEF LookStop, WindowsInv, TypeOK, Opener, Sdk
<1>2. CASE Matched(j) = {}
  <2>1. ~Active(j)'
    BY <1>1, <1>2, OverIsQuiet DEF LookStop, Active
  <2> QED
    BY <1>1, <2>1, LocalAlone
<1>3. CASE Matched(j) # {}
  <2>1. clock' = clock + 1 /\ req' = [req EXCEPT ![j] = [@ EXCEPT !.stage = "apply", !.stamp = clock',
                                              !.targets = {Id(w) : w \in Matched(j)}]]
    BY <1>3 DEF LookStop
  <2>2. req'[j].stamp = clock + 1
    BY <1>1, <2>1 DEF Requests
  <2>3. \A w \in rows : w.from < req'[j].stamp
    BY <2>2, StampsPast
  <2>4. Undisturbed(j)'
    BY <1>1, <2>3 DEF Undisturbed, Opener
  <2> QED
    BY <1>1, <2>4, LocalAlone
<1> QED
  BY <1>2, <1>3

LEMMA SnapshotAlone ==
    ASSUME WindowsInv, AloneInv, NEW j \in Jobs, Snapshot(j)
    PROVE  AloneInv'
<1>1. /\ req[j] \in Requests /\ req[j].stage = "stmt" /\ req \in [Jobs -> Requests]
      /\ UNCHANGED <<rows, displays>> /\ Active(j)
      /\ \A q \in Jobs \ {j} : req'[q] = req[q]
  BY DEF Snapshot, WindowsInv, TypeOK, Active, history
<1>2. req'[j] = [req[j] EXCEPT
                   !.stage = IF Matched(j) = {} THEN Written(j) ELSE "apply",
                   !.targets = {Id(w) : w \in Matched(j)}]
  BY <1>1 DEF Snapshot
<1>3. /\ req'[j].stamp = req[j].stamp /\ req'[j].tbl = req[j].tbl /\ req'[j].at = req[j].at
      /\ req'[j].wrote = req[j].wrote /\ req'[j].new = req[j].new /\ req'[j].alone = req[j].alone
      /\ req'[j].targets = {Id(w) : w \in Matched(j)}
      /\ Opener(j) => req'[j].stage # "commit"
  BY <1>1, <1>2 DEF Requests, Written
<1>4. Opener(j) => \A w \in OpenRows(req[j].tbl, req[j].at) : Id(w) \in req'[j].targets
  <2>1. ASSUME Opener(j), NEW w \in OpenRows(req[j].tbl, req[j].at) PROVE Id(w) \in req'[j].targets
    <3>1. w \in Matched(j)
      BY <2>1 DEF Matched, OpenRows
    <3> QED
      BY <1>3, <3>1
  <2> QED
    BY <2>1
<1>5. j \in Stamped
  BY <1>1 DEF Stamped, Begun
<1>6. ASSUME req[j].alone PROVE Undisturbed(j)'
  <2>1. Undisturbed(j)
    BY <1>1, <1>6 DEF AloneInv
  <2> QED
    BY <1>1, <1>3, <1>4, <1>5, <2>1 DEF Undisturbed, Opener, OpenRows, Id
<1> QED
  BY <1>1, <1>3, <1>6, LocalAlone

LEMMA ApplyAlone ==
    ASSUME WindowsInv, AloneInv, NEW j \in Jobs, Apply(j)
    PROVE  AloneInv'
<1>1. /\ req[j] \in Requests /\ req[j].stage = "apply" /\ req \in [Jobs -> Requests]
      /\ UNCHANGED <<rows, displays>> /\ Active(j) /\ VersionInv(j)
      /\ \A q \in Jobs \ {j} : req'[q] = req[q]
  BY DEF Apply, WindowsInv, TypeOK, Active, OwnInv
<1>2. PICK i \in req[j].targets :
          req'[j] = [req[j] EXCEPT
                       !.stage = IF req[j].targets = {i} THEN Written(j) ELSE "apply",
                       !.targets = req[j].targets \ {i},
                       !.wrote = req[j].wrote \cup {Id(w) : w \in Current(j, i)},
                       !.new = req[j].new \cup UNION {Versions(j, w) : w \in Current(j, i)}]
  BY <1>1 DEF Apply
<1>3. /\ req'[j].stamp = req[j].stamp /\ req'[j].tbl = req[j].tbl /\ req'[j].at = req[j].at
      /\ req'[j].wrote = req[j].wrote \cup {Id(w) : w \in Current(j, i)}
      /\ req'[j].targets = req[j].targets \ {i}
      /\ req[j].new \subseteq req'[j].new /\ req'[j].alone = req[j].alone
      /\ req'[j].stage \in {"apply", "open", "commit"} /\ (Opener(j) => req'[j].stage # "commit")
  BY <1>1, <1>2 DEF Requests, Written
<1>4. j \in Stamped
  BY <1>1 DEF Stamped, Begun
<1>5. ASSUME req[j].alone PROVE Undisturbed(j)'
  <2>1. Undisturbed(j)
    BY <1>1, <1>5 DEF AloneInv
  <2>2. ASSUME Opener(j), NEW w \in OpenRows(req[j].tbl, req[j].at)
        PROVE  Id(w) \in req'[j].wrote \cup req'[j].targets
    <3>1. Id(w) \in req[j].wrote \cup req[j].targets
      BY <1>1, <2>1, <2>2 DEF Undisturbed
    <3>2. Id(w) = i => w \in Current(j, i)
      BY <2>2 DEF Current, OpenRows, StillMatches, Opener
    <3> QED
      BY <1>3, <3>1, <3>2
  <2>3. ASSUME Kind[j] = "start", Shows[j] # None, req[j].tbl = "session"
        PROVE  \E w \in req'[j].new \cup {x \in rows : Id(x) \notin req'[j].wrote} :
                  w.tbl = "assignment" /\ w.robot = req[j].at /\ w.to = Open /\ w.disp = Shows[j]
    <3>1. PICK w \in req[j].new \cup {x \in rows : Id(x) \notin req[j].wrote} :
             w.tbl = "assignment" /\ w.robot = req[j].at /\ w.to = Open /\ w.disp = Shows[j]
      BY <1>1, <2>1, <2>3 DEF Undisturbed
    <3>2. i.tbl = "session"
      BY <1>1, <2>3 DEF VersionInv, Opener
    <3>3. Id(w) # i
      BY <3>1, <3>2 DEF Id
    <3>4. {Id(u) : u \in Current(j, i)} \subseteq {i}
      BY DEF Current
    <3> QED
      BY <1>3, <3>1, <3>3, <3>4
  <2>4. /\ \A w \in rows : w.robot \in On[j] => w.from < req'[j].stamp
        /\ Kind[j] = "start" => Shows[j] \in displays \cup {None}
        /\ Kind[j] \notin Sdk => Shows[j] \in displays
    BY <1>1, <1>3, <1>4, <2>1 DEF Undisturbed
  <2>5. OpenRows(req[j].tbl, req[j].at)' = OpenRows(req[j].tbl, req[j].at)
    BY <1>1, <1>3 DEF OpenRows
  <2>6. Kind[j] = "start" => req'[j].stage # "commit"
    BY <1>3 DEF Opener
  <2> QED
    BY <1>1, <1>3, <2>2, <2>3, <2>4, <2>5, <2>6 DEF Undisturbed, Opener, Id
<1> QED
  BY <1>1, <1>3, <1>5, LocalAlone

LEMMA OpenWindowAlone ==
    ASSUME WindowsInv, AloneInv, NEW j \in Jobs, OpenWindow(j)
    PROVE  AloneInv'
<1>1. /\ req[j] \in Requests /\ req[j].stage = "open" /\ req \in [Jobs -> Requests]
      /\ UNCHANGED <<rows, displays>> /\ Active(j)
      /\ \A q \in Jobs \ {j} : req'[q] = req[q]
  BY DEF OpenWindow, WindowsInv, TypeOK, Active
<1>2. PICK st \in {"stmt", "commit"}, tb \in Tables, b \in Robots, L \in SUBSET Robots :
         Opens(j, st, tb, b, L)
  BY OpeningRequest
<1>3. /\ req'[j].stamp = req[j].stamp /\ req'[j].tbl = tb /\ req'[j].at = b
      /\ req'[j].wrote = req[j].wrote /\ req'[j].stage = st
      /\ req'[j].new = req[j].new \cup {NewWindow(j)} /\ req'[j].alone = req[j].alone
  <2> DEFINE N == req[j].new \cup {NewWindow(j)}
  <2>1. req'[j] = [req[j] EXCEPT !.stage = st, !.tbl = tb, !.at = b, !.left = L, !.new = N]
    BY <1>1, <1>2 DEF Opens
  <2> HIDE DEF N
  <2>2. /\ req'[j].stamp = req[j].stamp /\ req'[j].tbl = tb /\ req'[j].at = b
        /\ req'[j].wrote = req[j].wrote /\ req'[j].stage = st
        /\ req'[j].new = N /\ req'[j].alone = req[j].alone
    BY <1>1, <2>1 DEF Requests
  <2> QED
    BY <2>2 DEF N
<1>4. j \in Stamped
  BY <1>1 DEF Stamped, Begun
<1>5. ASSUME req[j].alone PROVE Undisturbed(j)'
  <2>1. Undisturbed(j)
    BY <1>1, <1>5 DEF AloneInv
  <2>2. ASSUME Kind[j] = "start", Shows[j] # None
        PROVE  \E w \in req'[j].new \cup {x \in rows : Id(x) \notin req'[j].wrote} :
                  w.tbl = "assignment" /\ w.robot = b /\ w.to = Open /\ w.disp = Shows[j]
    <3>0. b = req[j].at
      BY <1>2, <2>2 DEF Opens
    <3>1. CASE req[j].tbl = "assignment"
      <4>1. /\ NewWindow(j).tbl = "assignment" /\ NewWindow(j).robot = req[j].at
            /\ NewWindow(j).to = Open /\ NewWindow(j).disp = Shows[j]
        BY <3>1 DEF NewWindow
      <4>2. NewWindow(j) \in req'[j].new
        BY <1>3
      <4> QED
        BY <3>0, <4>1, <4>2
    <3>2. CASE req[j].tbl = "session"
      <4>1. PICK w \in req[j].new \cup {x \in rows : Id(x) \notin req[j].wrote} :
               w.tbl = "assignment" /\ w.robot = req[j].at /\ w.to = Open /\ w.disp = Shows[j]
        BY <1>1, <2>1, <2>2, <3>2 DEF Undisturbed
      <4> QED
        BY <1>3, <3>0, <4>1
    <3> QED
      BY <3>1, <3>2, OpeningRequest DEF Tables
  <2>3. /\ \A w \in rows : w.robot \in On[j] => w.from < req'[j].stamp
        /\ Kind[j] = "start" => Shows[j] \in displays \cup {None}
        /\ Kind[j] \notin Sdk => Shows[j] \in displays
    BY <1>1, <1>3, <1>4, <2>1 DEF Undisturbed
  <2> QED
    BY <1>1, <1>3, <2>2, <2>3 DEF Undisturbed, Id
<1> QED
  BY <1>1, <1>3, <1>5, LocalAlone

\* A commit that leaves a request alone touches neither the rows of its robots nor
\* the displays.
LEMMA FarCommit ==
    ASSUME WindowsInv, NEW q \in Jobs, Commit(q), NEW j \in Jobs, On[j] \cap On[q] = {}
    PROVE  /\ displays' = displays
           /\ \A w : w.robot \in On[j] => (w \in rows' <=> w \in rows)
<1>1. On[j] \subseteq Robots /\ On[j] # {} /\ (Kind[q] = "delete" => On[q] = Robots)
  BY WindowsAssumption
<1>2. displays' = displays
  BY <1>1 DEF Commit
<1>3. ASSUME NEW w \in rows', w.robot \in On[j] PROVE w \in rows
  <2>1. ~Added(q, w)
    BY <1>3 DEF Added, InsertedBy
  <2>2. ASSUME NEW u \in rows, VersionOf(q, u, w) PROVE FALSE
    <3>1. Id(w) = Id(u) /\ Id(u).robot \in On[q]
      BY <2>2 DEF VersionOf, Reach
    <3> QED
      BY <1>3, <3>1 DEF Id
  <2> QED
    BY <2>1, <2>2, CommitRows DEF Kept
<1>4. ASSUME NEW w \in rows, w.robot \in On[j] PROVE w \in rows'
  <2>1. Id(w) \in req[q].wrote => Id(w).robot \in On[q]
    BY CommitRows DEF Reach
  <2> QED
    BY <1>4, <2>1, CommitRows DEF Id
<1> QED
  BY <1>2, <1>3, <1>4

LEMMA CommitAlone ==
    ASSUME WindowsInv, AloneInv, NEW q \in Jobs, Commit(q)
    PROVE  AloneInv'
<1> SUFFICES ASSUME NEW j \in Jobs, Active(j)', req'[j].alone PROVE Undisturbed(j)'
  BY DEF AloneInv
<1>1. j # q
  BY CommitRequests, OverIsQuiet DEF Active
<1>2. /\ req'[j].stage = req[j].stage /\ req'[j].stamp = req[j].stamp /\ req'[j].tbl = req[j].tbl
      /\ req'[j].at = req[j].at /\ req'[j].targets = req[j].targets
      /\ req'[j].wrote = req[j].wrote /\ req'[j].new = req[j].new
  BY <1>1, CommitRequests
<1>3. Active(j) /\ ~Near(q, j) /\ req[j].alone
  <2>1. Active(j)
    BY <1>2 DEF Active
  <2>2. ~Near(q, j)
    BY <1>1, <2>1, CommitRequests
  <2> QED
    BY <1>1, <2>1, <2>2, CommitRequests
<1>4. Undisturbed(j) /\ req[j].at \in On[j]
  BY <1>3 DEF AloneInv, WindowsInv, OwnInv, StageInv
<1>5. /\ displays' = displays
      /\ \A w : w.robot \in On[j] => (w \in rows' <=> w \in rows)
  BY <1>3, FarCommit DEF Near
<1>6. j \in Stamped' <=> j \in Stamped
  BY <1>2 DEF Stamped, Begun
<1>7. \A w : w \in OpenRows(req[j].tbl, req[j].at)' => w \in OpenRows(req[j].tbl, req[j].at)
  BY <1>2, <1>4, <1>5 DEF OpenRows
<1>8. /\ Kind[j] = "start" /\ Shows[j] # None /\ req[j].stage # "look"
      /\ req[j].stage = "commit" \/ req[j].tbl = "session"
      => \E w \in req[j].new \cup {x \in rows' : Id(x) \notin req[j].wrote} :
            w.tbl = "assignment" /\ w.robot = req[j].at /\ w.to = Open /\ w.disp = Shows[j]
  BY <1>4, <1>5 DEF Undisturbed
<1>9. OpenRows(req[j].tbl, req[j].at)' = {w \in rows' : w.tbl = req'[j].tbl /\ w.robot = req'[j].at /\ w.to = Open}
  BY DEF OpenRows
<1> QED
  BY <1>2, <1>4, <1>5, <1>6, <1>7, <1>8, <1>9 DEF Undisturbed, Opener, Id, OpenRows

LEMMA StepAlone == WindowsInv /\ AloneInv /\ [Next]_vars => AloneInv'
<1> SUFFICES ASSUME WindowsInv, AloneInv, [Next]_vars PROVE AloneInv'
  OBVIOUS
<1>1. CASE UNCHANGED vars
  BY <1>1 DEF vars, history, AloneInv, Undisturbed, Begun, Stamped, Active, Id, OpenRows
<1>2. ASSUME NEW j \in Jobs, Fail(j) \/ Victim(j) \/ Die(j) PROVE AloneInv'
  <2>1. Rollback(j) /\ req \in [Jobs -> Requests]
    BY <1>2, RollbackStep DEF WindowsInv, TypeOK
  <2>2. /\ ~Active(j)' /\ UNCHANGED <<rows, displays>>
        /\ \A q \in Jobs \ {j} : req'[q] = req[q]
    BY <2>1, OverIsQuiet DEF Rollback, Active
  <2> QED
    BY <2>2, LocalAlone
<1>3. ASSUME NEW j \in Jobs, Begin(j) \/ Serve(j) \/ Die(j) PROVE AloneInv'
  BY <1>2, <1>3, BeginAlone, LookStartAlone, LookStopAlone, SnapshotAlone, ApplyAlone, OpenWindowAlone,
     CommitAlone DEF Serve
<1> QED
  BY <1>1, <1>3 DEF Next

LEMMA AloneInvariance == Spec => []AloneInv
<1>1. Init => AloneInv
  BY DEF Init, AloneInv, Active, Unsent
<1> QED
  BY <1>1, StepAlone, WindowsInvariance, PTL DEF Spec

(* No request fails by what it does alone: a CHECK, the unique index on    *)
(* open windows or the foreign key on the display refuses a statement only *)
(* if another request on its robots committed while it was served.         *)
THEOREM RefusedAlone == Spec => []RefusedOnlyIfOverlapped
<1>1. ASSUME WindowsInv, AloneInv, NEW j \in Jobs, Refused(j), req[j].alone PROVE FALSE
  <2>1. Active(j) /\ StageInv(j) /\ VersionInv(j) /\ req[j] \in Requests
    BY <1>1 DEF Refused, Active, WindowsInv, OwnInv, TypeOK
  <2>2. Undisturbed(j)
    BY <1>1, <2>1 DEF AloneInv
  <2>3. ASSUME req[j].stage = "apply", NEW i \in req[j].targets, NEW w \in Current(j, i), BadInterval(j, w)
        PROVE  FALSE
    <3>1. j \in Stamped
      BY <2>3 DEF Stamped, Begun
    <3>2. w \in rows /\ w.robot \in On[j]
      BY <2>1, <2>3 DEF Current, VersionInv, Reach, Id
    <3>3. w.from < req[j].stamp
      BY <2>2, <3>1, <3>2 DEF Undisturbed
    <3> QED
      BY <1>1, <2>3, <3>2, <3>3, StampsPast DEF BadInterval
  <2>4. CASE req[j].stage = "open" /\ Conflict(j)
    <3>1. Opener(j) /\ req[j].targets = {}
      BY <2>1, <2>4 DEF StageInv
    <3>2. Shows[j] \in displays \cup {None}
      BY <2>2, <2>4, <3>1 DEF Undisturbed, Opener, Sdk
    <3>3. \A w \in OpenRows(req[j].tbl, req[j].at) : Id(w) \in req[j].wrote
      BY <2>2, <2>4, <3>1 DEF Undisturbed
    <3> QED
      BY <2>4, <3>2, <3>3 DEF Conflict
  <2> QED
    BY <1>1, <2>3, <2>4 DEF Refused
<1>2. WindowsInv /\ AloneInv => RefusedOnlyIfOverlapped
  BY <1>1 DEF RefusedOnlyIfOverlapped
<1> QED
  BY <1>2, WindowsInvariance, AloneInvariance, PTL

(* A session that starts with a display commits with its robot assigned to *)
(* that display, unless another request on the robot committed meanwhile.  *)
THEOREM StartShows == Spec => SessionShowsItsDisplay
<1> DEFINE Started(j) == /\ Kind[j] = "start" /\ Shows[j] # None
                         /\ req[j].stage = "commit" /\ req[j].alone /\ rows' # rows
                         /\ req'[j] = Over
           Shown(j) == \E w \in rows' : /\ w.tbl = "assignment" /\ w.robot = req[j].at
                                        /\ w.to = Open /\ w.disp = Shows[j]
<1>1. ASSUME WindowsInv, AloneInv, [Next]_vars, NEW j \in Jobs, Started(j) PROVE Shown(j)
  <2>1. PICK q \in Jobs : Commit(q)
    BY <1>1, OnlyCommitWrites
  <2>2. q = j
    <3>1. req[j].stage = "commit" /\ req'[j].stage # "commit"
      BY <1>1, OverIsQuiet
    <3>2. WindowsInv /\ q \in Jobs /\ Commit(q)
      BY <1>1, <2>1
    <3>3. \A p \in Jobs \ {q} : req'[p].stage = req[p].stage
      BY ONLY <3>2, CommitRequests
    <3> QED
      BY <3>1, <3>3
  <2>3. rows' = {w \in rows : Id(w) \notin req[j].wrote} \cup req[j].new
    BY <2>1, <2>2 DEF Commit
  <2>4. Undisturbed(j)
    BY <1>1 DEF AloneInv, Active
  <2>5. PICK w \in req[j].new \cup {x \in rows : Id(x) \notin req[j].wrote} :
           w.tbl = "assignment" /\ w.robot = req[j].at /\ w.to = Open /\ w.disp = Shows[j]
    BY <1>1, <2>4 DEF Undisturbed
  <2> QED
    BY <2>3, <2>5
<1>2. WindowsInv /\ AloneInv /\ [Next]_vars => [\A j \in Jobs : Started(j) => Shown(j)]_vars
  BY <1>1
<1> QED
  BY <1>2, WindowsInvariance, AloneInvariance, PTL DEF Spec, SessionShowsItsDisplay
=============================================================================
