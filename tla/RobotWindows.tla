---------------------------- MODULE RobotWindows ----------------------------
(***************************************************************************)
(* The two tables of time windows a robot has: display_assignments, what   *)
(* it shows, and sessions, when it is recorded.  The portal assigns,       *)
(* unassigns and deletes displays (routes/oem.py); a fleet key starts and  *)
(* stops sessions (routes/sessions.py), and a start may assign a display.  *)
(* Every request is one READ COMMITTED transaction.  It takes its time     *)
(* stamp before the statements that wait for the rows of others.           *)
(*                                                                         *)
(* An UPDATE takes the rows its snapshot matches, waits for those another  *)
(* transaction has written and looks at them again before it writes.  An   *)
(* INSERT waits for whoever may still leave or take an open window of that *)
(* robot, and for a deletion of its display.  Of requests that wait for    *)
(* each other the database aborts one.  Requests of one fleet key run one  *)
(* after another, because authentication locks the row of the key.         *)
(***************************************************************************)
EXTENDS Naturals, FiniteSets

CONSTANTS
    Robots, Displays, Keys,
    Jobs,          \* requests, each made at most once
    Kind,          \* what a request does
    On,            \* the robots it is about; a deletion may be about any
    Shows,         \* the display it is about, if any
    KeyOf,         \* the fleet key it is made with; the portal uses none
    MaxRequests,   \* bound on the requests of a behaviour
    None

Sdk == {"start", "stop"}
Tables == {"assignment", "session"}

ASSUME WindowsAssumption ==
    /\ Kind \in [Jobs -> {"assign", "unassign", "delete"} \cup Sdk]
    /\ On \in [Jobs -> (SUBSET Robots) \ {{}}]
    /\ Shows \in [Jobs -> Displays \cup {None}]
    /\ KeyOf \in [Jobs -> Keys \cup {None}]
    /\ \A j \in Jobs :
          /\ Kind[j] \in Sdk <=> KeyOf[j] \in Keys
          /\ Kind[j] \in Sdk => \E b \in Robots : On[j] = {b}
          /\ Kind[j] \notin Sdk => Shows[j] \in Displays
          /\ Kind[j] = "delete" => On[j] = Robots
    /\ MaxRequests \in Nat
    /\ None \notin Displays \cup Keys \cup Robots

VARIABLES
    rows,          \* committed windows of both tables
    displays,      \* committed displays
    clock,         \* the last time stamp taken
    req,           \* a request: its stage and locals
    newest,        \* history: the latest stamp of a request on a robot that committed
    late           \* history: windows committed by a request with an earlier stamp

history == <<newest, late>>
vars == <<rows, displays, clock, req, history>>

Open == 0

\* left: robots still to do, at: the one in hand, and tbl: its table; targets: rows
\* its statement has still to write; wrote, new: rows it has written, and the
\* versions it leaves; alone: history, no request on its robots has committed since
\* it began.
Unsent == [stage |-> "new", stamp |-> 0, left |-> {}, at |-> None, tbl |-> "assignment",
           targets |-> {}, wrote |-> {}, new |-> {}, alone |-> TRUE]

Stages == {"new", "look", "stmt", "apply", "open", "commit", "done", "failed"}

Times == 0..MaxRequests
RowIds == [tbl : Tables, robot : Robots, from : Times]
Windows == [tbl : Tables, robot : Robots, from : Times, disp : Displays \cup {None}, to : Times]
Requests == [stage : Stages, stamp : Times, left : SUBSET Robots, at : Robots \cup {None},
             tbl : Tables, targets : SUBSET RowIds, wrote : SUBSET RowIds,
             new : SUBSET Windows, alone : BOOLEAN]

TypeOK ==
    /\ rows \subseteq Windows
    /\ displays \subseteq Displays
    /\ clock \in Times
    /\ req \in [Jobs -> Requests]
    /\ newest \in [Robots -> Times]
    /\ late \subseteq RowIds
    /\ \A w \in rows : /\ w.to # Open => w.from < w.to
                       /\ w.tbl = "assignment" => w.disp \in displays

Init ==
    /\ rows = {}
    /\ displays = Displays
    /\ clock = 0
    /\ req = [j \in Jobs |-> Unsent]
    /\ newest = [b \in Robots |-> 0]
    /\ late = {}

----------------------------------------------------------------------------
(* Rows and their locks.                                                   *)

Id(w) == [tbl |-> w.tbl, robot |-> w.robot, from |-> w.from]
Same(w, x) == w.tbl = x.tbl /\ w.robot = x.robot
OpenRows(t, b) == {w \in rows : w.tbl = t /\ w.robot = b /\ w.to = Open}

Opener(j) == Kind[j] \in {"assign", "start"}
Active(j) == req[j].stage \notin {"new", "done", "failed"}
Inserted(j) == {w \in req[j].new : Id(w) \notin req[j].wrote}

\* A deletion has locked the row of its display.
Deleting(j) == Kind[j] = "delete" /\ req[j].stage \in {"apply", "commit"}

\* Mutant of Matched: only windows of the request's own display are closed.
MatchedOfDisplay(j) ==
    {w \in rows : w.to = Open /\ w.robot = req[j].at /\ w.disp = Shows[j]}

\* What a statement matches in its snapshot.
Matched(j) ==
    {w \in rows :
        \/ Opener(j) /\ w \in OpenRows(req[j].tbl, req[j].at)
        \/ Kind[j] = "stop" /\ w \in OpenRows("session", req[j].at)
        \/ /\ Kind[j] = "unassign" /\ w.tbl = "assignment" /\ w.to = Open
           /\ w.disp = Shows[j] /\ w.robot \in On[j]
        \/ Kind[j] = "delete" /\ w.disp = Shows[j]}

\* Who j waits for.
Holders(j, i) == {q \in Jobs \ {j} : i \in req[q].wrote}

Blockers(j) ==
    CASE req[j].stage = "apply" ->
            IF \E i \in req[j].targets : Holders(j, i) = {} THEN {}
            ELSE UNION {Holders(j, i) : i \in req[j].targets}
      [] req[j].stage = "open" ->
            {q \in Jobs \ {j} :
                \/ \E w \in OpenRows(req[j].tbl, req[j].at) : Id(w) \in req[q].wrote
                \/ \E w \in req[q].new : w.tbl = req[j].tbl /\ w.robot = req[j].at /\ w.to = Open
                \/ Deleting(q) /\ Shows[q] = Shows[j]}
      [] req[j].stage = "stmt" /\ Kind[j] = "delete" ->
            {q \in Jobs \ {j} :
                \/ \E w \in Inserted(q) : w.disp = Shows[j]
                \/ Deleting(q) /\ Shows[q] = Shows[j]}
      [] OTHER -> {}

Waiting == {j \in Jobs : Blockers(j) # {}}

\* Requests that wait for one another.
Deadlocked(s) ==
    /\ s # {}
    /\ \A j \in s : Blockers(j) \cap s # {} /\ \E q \in s : j \in Blockers(q)

\* The state of a request that is over; its locks go with it.
Over == [Unsent EXCEPT !.stage = "done"]

----------------------------------------------------------------------------
(* A request, statement by statement.                                      *)

\* Mutant of KeyFree: last_used_at is not bumped, so no row lock is taken.
KeyNotLocked(j) == TRUE

KeyFree(j) == \A q \in Jobs : KeyOf[q] = KeyOf[j] /\ Active(q) => KeyOf[j] = None

Begun == {j \in Jobs : req[j].stage # "new"}

\* Authentication, the look-ups that answer 404, and the time stamp; a stop takes
\* its own later.
Begin(j) ==
    /\ req[j].stage = "new"
    /\ Cardinality(Begun) < MaxRequests
    /\ KeyFree(j)
    /\ Kind[j] \in Sdk \/ Shows[j] \in displays
    /\ clock' = IF Kind[j] = "stop" THEN clock ELSE clock + 1
    /\ \E b \in On[j] :
          req' = [req EXCEPT ![j] = [@ EXCEPT
                    !.stage = IF Kind[j] \in Sdk THEN "look" ELSE "stmt",
                    !.stamp = clock', !.left = On[j] \ {b}, !.at = b]]
    /\ UNCHANGED <<rows, displays, history>>

\* Mutant of StartTable: any open assignment of the robot will do.
StartTableAny(j) ==
    IF Shows[j] = None \/ OpenRows("assignment", req[j].at) # {} THEN "session" ELSE "assignment"

\* The robot is assigned to the display only if it does not show it already.
StartTable(j) ==
    IF Shows[j] = None \/ \E w \in OpenRows("assignment", req[j].at) : w.disp = Shows[j]
    THEN "session" ELSE "assignment"

\* start: the display must exist.
LookStart(j) ==
    /\ Kind[j] = "start" /\ req[j].stage = "look"
    /\ req' = [req EXCEPT ![j] =
          IF Shows[j] \notin displays \cup {None} THEN Over
          ELSE [@ EXCEPT !.stage = "stmt", !.tbl = StartTable(j)]]
    /\ UNCHANGED <<rows, displays, clock, history>>

\* stop: the session is read; if it is open its end is stamped, after that.
LookStop(j) ==
    /\ Kind[j] = "stop" /\ req[j].stage = "look"
    /\ IF Matched(j) = {}
       THEN req' = [req EXCEPT ![j] = Over] /\ UNCHANGED clock
       ELSE /\ clock' = clock + 1
            /\ req' = [req EXCEPT ![j] = [@ EXCEPT !.stage = "apply", !.stamp = clock',
                                              !.targets = {Id(w) : w \in Matched(j)}]]
    /\ UNCHANGED <<rows, displays, history>>

\* Where a request goes when its statement has written all it matched.
Written(j) == IF Opener(j) THEN "open" ELSE "commit"

\* The snapshot of an UPDATE, or of a DELETE and its cascades, which first locks
\* the row of the display.
Snapshot(j) ==
    /\ req[j].stage = "stmt"
    /\ Blockers(j) = {}
    /\ req' = [req EXCEPT ![j] = [@ EXCEPT
                 !.stage = IF Matched(j) = {} THEN Written(j) ELSE "apply",
                 !.targets = {Id(w) : w \in Matched(j)}]]
    /\ UNCHANGED <<rows, displays, clock, history>>

\* Mutant of StillMatches: a row is written although another has closed it.
MatchesAsRead(j, w) == TRUE

\* What a statement still matches once the row is its own: a stop names the row it
\* has read by its primary key alone.
StillMatches(j, w) ==
    CASE Kind[j] = "stop" -> TRUE
      [] Kind[j] = "delete" -> w.disp = Shows[j]
      [] OTHER -> w.to = Open

\* The row as it is now, if it still matches.
Current(j, i) == {w \in rows : Id(w) = i /\ StillMatches(j, w)}

\* A window is closed; a deleted display takes its assignments along and is
\* forgotten by its sessions.
Versions(j, w) ==
    CASE Kind[j] # "delete" -> {[w EXCEPT !.to = req[j].stamp]}
      [] Kind[j] = "delete" /\ w.tbl = "session" -> {[w EXCEPT !.disp = None]}
      [] OTHER -> {}

\* Mutant of BadInterval: the table has no CHECK.
AnyInterval(j, w) == FALSE

\* The CHECK of both tables: a window ends after it begins.
BadInterval(j, w) == Kind[j] # "delete" /\ req[j].stamp <= w.from

Apply(j) ==
    /\ req[j].stage = "apply"
    /\ \E i \in req[j].targets :
          /\ Holders(j, i) = {}
          /\ \A w \in Current(j, i) : ~BadInterval(j, w)
          /\ req' = [req EXCEPT ![j] = [@ EXCEPT
                       !.stage = IF req[j].targets = {i} THEN Written(j) ELSE "apply",
                       !.targets = req[j].targets \ {i},
                       !.wrote = req[j].wrote \cup {Id(w) : w \in Current(j, i)},
                       !.new = req[j].new \cup UNION {Versions(j, w) : w \in Current(j, i)}]]
    /\ UNCHANGED <<rows, displays, clock, history>>

\* Mutant of Conflict: no unique index on open windows.
ConflictOnDisplay(j) == Shows[j] \notin displays \cup {None}

\* The unique index on open windows and the foreign key on the display.
Conflict(j) ==
    \/ \E w \in OpenRows(req[j].tbl, req[j].at) : Id(w) \notin req[j].wrote
    \/ Shows[j] \notin displays \cup {None}

\* INSERT of the new window, then the next robot of an assign, or the session of a
\* start.
OpenWindow(j) ==
    /\ req[j].stage = "open"
    /\ Blockers(j) = {} /\ ~Conflict(j)
    /\ LET w == [tbl |-> req[j].tbl, robot |-> req[j].at, from |-> req[j].stamp,
                 disp |-> Shows[j], to |-> Open]
           kept == [req[j] EXCEPT !.new = req[j].new \cup {w}]
       IN IF Kind[j] = "start" /\ req[j].tbl = "assignment"
          THEN req' = [req EXCEPT ![j] = [kept EXCEPT !.stage = "stmt", !.tbl = "session"]]
          ELSE IF req[j].left = {}
          THEN req' = [req EXCEPT ![j] = [kept EXCEPT !.stage = "commit"]]
          ELSE \E b \in req[j].left :
                  req' = [req EXCEPT ![j] = [kept EXCEPT !.stage = "stmt", !.at = b,
                                                         !.left = req[j].left \ {b}]]
    /\ UNCHANGED <<rows, displays, clock, history>>

\* A statement that a constraint refuses ends the request with a 500.
Refused(j) ==
    \/ /\ req[j].stage = "apply"
       /\ \E i \in req[j].targets :
             Holders(j, i) = {} /\ \E w \in Current(j, i) : BadInterval(j, w)
    \/ req[j].stage = "open" /\ Blockers(j) = {} /\ Conflict(j)

\* Mutant of Rollback: the transaction is left open.
RollbackNever(j) ==
    /\ req' = [req EXCEPT ![j].stage = "done"]
    /\ UNCHANGED <<rows, displays, clock, history>>

\* Rolled back: refused, the victim of a deadlock, or lost with its connection.
Rollback(j) ==
    /\ req' = [req EXCEPT ![j] = Over]
    /\ UNCHANGED <<rows, displays, clock, history>>

Fail(j) == Refused(j) /\ Rollback(j)

Victim(j) == (\E s \in SUBSET Waiting : j \in s /\ Deadlocked(s)) /\ Rollback(j)

Die(j) == Active(j) /\ Rollback(j)

Near(j, q) == On[j] \cap On[q] # {}

Commit(j) ==
    /\ req[j].stage = "commit"
    /\ rows' = {w \in rows : Id(w) \notin req[j].wrote} \cup req[j].new
    /\ displays' = IF Kind[j] = "delete" THEN displays \ {Shows[j]} ELSE displays
    /\ newest' = [b \in Robots |-> IF b \in On[j] /\ newest[b] < req[j].stamp
                                  THEN req[j].stamp ELSE newest[b]]
    /\ late' = late \cup {Id(w) : w \in {x \in Inserted(j) : x.from < newest[x.robot]}}
    /\ req' = [q \in Jobs |-> IF q = j THEN Over
                              ELSE IF Active(q) /\ Near(j, q) THEN [req[q] EXCEPT !.alone = FALSE]
                              ELSE req[q]]
    /\ UNCHANGED clock

----------------------------------------------------------------------------

Serve(j) ==
    \/ LookStart(j) \/ LookStop(j) \/ Snapshot(j) \/ Apply(j) \/ OpenWindow(j)
    \/ Fail(j) \/ Victim(j) \/ Commit(j)

Next == \E j \in Jobs : Begin(j) \/ Serve(j) \/ Die(j)

Spec == Init /\ [][Next]_vars

\* Of the requests that have begun some are served, as long as one can be; the
\* database breaks every deadlock.
FairSpec == Spec /\ WF_vars(\E j \in Jobs : Serve(j))

----------------------------------------------------------------------------
(* Properties.                                                             *)

Assignments == INSTANCE WindowLog WITH log <- {w \in rows : w.tbl = "assignment"}

\* The history of assignments keeps what WindowLog promises, whoever assigns,
\* unassigns, deletes and starts at the same time.
AssignmentsAreALog == Assignments!Spec

\* The half-open interval of a window: an event of its robot at time t belongs to it.
Within(w, t) == w.from <= t /\ (w.to = Open \/ t < w.to)

Overlap(w, x) == Same(w, x) /\ w # x /\ \E t \in Times : Within(w, t) /\ Within(x, t)

KeysUsed(b) == {KeyOf[j] : j \in {q \in Begun : Kind[q] \in Sdk /\ On[q] = {b}}}

\* An event falls into one assignment of its robot, as display_insights.py relies
\* on, unless an assign was overtaken: a request on that robot that took its stamp
\* later committed first.
AttributedOnce ==
    \A w, x \in rows :
        Overlap(w, x) /\ w.tbl = "assignment" => {Id(w), Id(x)} \cap late # {}

\* The sessions of a robot do not overlap unless two fleet keys were used on it.
SessionsDisjoint ==
    \A w, x \in rows :
        Overlap(w, x) /\ w.tbl = "session" => Cardinality(KeysUsed(w.robot)) > 1

\* A session that starts with a display finds its robot assigned to it, unless
\* another request on the robot committed while the start was served.
SessionShowsItsDisplay ==
    [][\A j \in Jobs :
          /\ Kind[j] = "start" /\ Shows[j] # None
          /\ req[j].stage = "commit" /\ req[j].alone /\ rows' # rows
          /\ req'[j] = Over
          => \E w \in rows' : /\ w.tbl = "assignment" /\ w.robot = req[j].at
                              /\ w.to = Open /\ w.disp = Shows[j]]_vars

\* A constraint refuses a request only if another one on its robots committed while
\* it was served: no request fails by what it does alone.
RefusedOnlyIfOverlapped == \A j \in Jobs : Refused(j) => ~req[j].alone

\* Every request that has begun ends, however the rows are fought over.
RequestsEnd == []<>(\A j \in Jobs : ~Active(j))
=============================================================================
