---------------------------- MODULE EventIngest ----------------------------
(***************************************************************************)
(* How plays and robots get into the database: POST /sdk/v1/events/batch   *)
(* and POST /sdk/v1/heartbeat (routes/sdk.py), each request in one         *)
(* READ COMMITTED transaction of its own session.                          *)
(*                                                                         *)
(* Authentication (auth.py) updates api_keys.last_used_at in that same     *)
(* transaction.  The row lock of that UPDATE is kept until the request's   *)
(* transaction ends, so requests made with one key run one after another.  *)
(*                                                                         *)
(* The robot SDK is external.  It sends a batch or a heartbeat again until *)
(* it sees an answer, and may do so while an earlier attempt still runs.   *)
(***************************************************************************)
EXTENDS Naturals, FiniteSets, Sequences, SequencesExt

CONSTANTS
    Events, Robots, Keys,
    Batches,       \* event batches a robot sends
    Beats,         \* heartbeats
    Items,         \* the events of a batch, in order
    RobotOf,       \* the robot that sends a batch or a heartbeat
    KeyOf,         \* the API key it is sent with
    Unparsable,    \* events with a timestamp that fromtimestamp() refuses
    Unstorable,    \* events whose INSERT the database refuses
    Requests,      \* requests that can be in flight
    MaxLosses,     \* bound on lost requests and answers
    None

Jobs == Batches \cup Beats

ASSUME IngestAssumption ==
    /\ Batches \cap Beats = {}
    /\ Items \in [Batches -> Seq(Events)]
    /\ RobotOf \in [Jobs -> Robots]
    /\ KeyOf \in [Jobs -> Keys]
    /\ Unparsable \subseteq Events /\ Unstorable \subseteq Events
    /\ MaxLosses \in Nat
    /\ None \notin Jobs \cup Requests

\* A robot reports its own plays, with its own key.
ASSUME OwnPlaysAssumption ==
    \A a, b \in Batches :
        KeyOf[a] # KeyOf[b] => ToSet(Items[a]) \cap ToSet(Items[b]) = {}

VARIABLES
    stored,        \* the committed row of an event: with its robot, without, or none
    robots,        \* committed robot rows
    keyLock,       \* holder of an API key's row lock
    req,           \* a request: its job, stage and locals
    answered,      \* jobs the robot has an answer for
    losses,
    told,          \* history: events reported as accepted or duplicate
    spoiled,       \* history: the same, from a transaction that was aborted
    registrar,     \* history: the key a robot was registered with
    commitFirst    \* the build: does the session commit before the answer is sent?

database == <<stored, robots, keyLock>>
history  == <<told, spoiled, registrar>>
vars == <<database, req, answered, losses, history, commitFirst>>

\* link: the robot looked up, "?" before; new, kept: the events this request has
\* inserted, and those it counts as accepted or duplicates; aborted: a statement
\* failed, so the database ignores the rest of the transaction; knew: history,
\* the robot was registered when the request arrived.
Idle == [stage |-> "idle", job |-> None, link |-> "?", at |-> 1,
         new |-> {}, kept |-> {}, aborted |-> FALSE, knew |-> FALSE]

Stages == {"idle", "auth", "body", "answer", "told"}

TypeOK ==
    /\ stored \in [Events -> {"none", "linked", "unlinked"}]
    /\ robots \subseteq Robots
    /\ keyLock \in [Keys -> Requests \cup {None}]
    /\ req \in [Requests -> [stage : Stages, job : Jobs \cup {None},
                             link : {"?", "linked", "unlinked"}, at : Nat \ {0},
                             new : SUBSET Events, kept : SUBSET Events,
                             aborted : BOOLEAN, knew : BOOLEAN]]
    /\ answered \subseteq Jobs
    /\ losses \in 0..MaxLosses
    /\ told \subseteq Events /\ spoiled \subseteq Events
    /\ registrar \in [Robots -> Keys \cup {None}]
    /\ commitFirst \in BOOLEAN

Init ==
    /\ stored = [e \in Events |-> "none"]
    /\ robots = {}
    /\ keyLock = [k \in Keys |-> None]
    /\ req = [r \in Requests |-> Idle]
    /\ answered = {} /\ losses = 0
    /\ told = {} /\ spoiled = {}
    /\ registrar = [b \in Robots |-> None]
    /\ commitFirst \in BOOLEAN

----------------------------------------------------------------------------
(* The robot, the network and the key.                                     *)

Stored == {e \in Events : stored[e] # "none"}
Key(r) == KeyOf[req[r].job]
Robot(r) == RobotOf[req[r].job]

\* A first attempt, or a retry of a job that has no answer yet.
Send(r, j) ==
    /\ req[r].stage = "idle"
    /\ j \notin answered
    /\ req' = [req EXCEPT ![r] = [Idle EXCEPT !.stage = "auth", !.job = j,
                                              !.knew = RobotOf[j] \in robots]]
    /\ UNCHANGED <<database, answered, losses, history, commitFirst>>

\* Mutant of KeyFree: last_used_at is not bumped, so no row lock is taken.
KeyNotLocked(k) == TRUE

KeyFree(k) == keyLock[k] = None

\* The key is found and its last_used_at updated.
Authenticate(r) ==
    /\ req[r].stage = "auth"
    /\ KeyFree(Key(r))
    /\ keyLock' = [keyLock EXCEPT ![Key(r)] = r]
    /\ req' = [req EXCEPT ![r].stage = "body"]
    /\ UNCHANGED <<stored, robots, answered, losses, history, commitFirst>>

\* Mutant of Unlocked: the claim on the key outlives the transaction.
UnlockedNever(r) == keyLock

\* The end of a transaction releases the key.
Unlocked(r) == [k \in Keys |-> IF keyLock[k] = r THEN None ELSE keyLock[k]]

\* The process or the connection dies, or the robot never sees the answer.
Lose(r) ==
    /\ req[r].stage # "idle"
    /\ losses < MaxLosses
    /\ losses' = losses + 1
    /\ req' = [req EXCEPT ![r] = Idle]
    /\ keyLock' = Unlocked(r)
    /\ UNCHANGED <<stored, robots, answered, history, commitFirst>>

----------------------------------------------------------------------------
(* POST /events/batch.                                                     *)

InBatch(r) == req[r].stage = "body" /\ req[r].job \in Batches
Item(r) == Items[req[r].job][req[r].at]
Left(r) == InBatch(r) /\ req[r].at <= Len(Items[req[r].job])

\* Mutant of Lookup: robots are looked up per key and not per fleet.
LookupByKey(r) == IF registrar[Robot(r)] = Key(r) THEN "linked" ELSE "unlinked"

\* Mutant of Lookup: the missing row is used as if it were a robot.
LookupRow(r) == IF Robot(r) \in robots THEN "linked" ELSE "none"

Lookup(r) == IF Robot(r) \in robots THEN "linked" ELSE "unlinked"

\* The robot is looked up at the first event and cached for the batch.
LookRobot(r) ==
    /\ Left(r) \/ (req[r].stage = "body" /\ req[r].job \in Beats)
    /\ req[r].link = "?"
    /\ req' = [req EXCEPT ![r].link = Lookup(r)]
    /\ UNCHANGED <<database, answered, losses, history, commitFirst>>

\* An exception in Python, or any statement of an aborted transaction.
Reject(r) ==
    /\ Left(r) /\ req[r].link # "?"
    /\ req[r].aborted \/ Item(r) \in Unparsable
    /\ req' = [req EXCEPT ![r].at = @ + 1]
    /\ UNCHANGED <<database, answered, losses, history, commitFirst>>

Inserting(r) == Left(r) /\ req[r].link # "?" /\ ~req[r].aborted /\ Item(r) \notin Unparsable

\* INSERT ... ON CONFLICT DO NOTHING, which waits for another transaction that
\* has inserted the same event_id: a new row is accepted, an old one a duplicate.
Insert(r) ==
    /\ Inserting(r)
    /\ Item(r) \notin Unstorable
    /\ \A q \in Requests \ {r} : Item(r) \notin req[q].new
    /\ req' = [req EXCEPT ![r].at = @ + 1,
                          ![r].kept = @ \cup {Item(r)},
                          ![r].new = IF Item(r) \in Stored THEN @ ELSE @ \cup {Item(r)}]
    /\ UNCHANGED <<database, answered, losses, history, commitFirst>>

\* The INSERT fails: the event is rejected, and the transaction is aborted with
\* everything it had inserted, although the handler goes on.
Abort(r) ==
    /\ Inserting(r)
    /\ Item(r) \in Unstorable
    /\ req' = [req EXCEPT ![r].at = @ + 1, ![r].aborted = TRUE, ![r].new = {}]
    /\ keyLock' = Unlocked(r)
    /\ UNCHANGED <<stored, robots, answered, losses, history, commitFirst>>

----------------------------------------------------------------------------
(* POST /heartbeat.                                                        *)

BeatReady(r) == req[r].stage = "body" /\ req[r].job \in Beats /\ req[r].link # "?"

\* The robot was not found at the look-up and another request has registered it
\* since: the unique constraint makes this one fail with a 500.
Conflict(r) ==
    /\ BeatReady(r)
    /\ req[r].link = "unlinked" /\ Robot(r) \in robots
    /\ req' = [req EXCEPT ![r] = Idle]
    /\ keyLock' = Unlocked(r)
    /\ UNCHANGED <<stored, robots, answered, losses, history, commitFirst>>

----------------------------------------------------------------------------
(* The end of a request: COMMIT and the answer, in the order of the build. *)

BatchDone(r) == InBatch(r) /\ ~Left(r)

\* A robot row that is inserted but not committed makes a second INSERT wait.
BeatDone(r) ==
    /\ BeatReady(r)
    /\ req[r].link = "linked" \/ Robot(r) \notin robots
    /\ \A q \in Requests : ~(req[q].stage = "told" /\ req[q].job \in Beats /\ Robot(q) = Robot(r))

Handled(r) == BatchDone(r) \/ BeatDone(r)

\* Mutant of Persist: the row of a re-sent event replaces the one stored.
PersistAll(r) ==
    stored' = [e \in Events |-> IF e \in req[r].kept THEN req[r].link ELSE stored[e]]

\* Mutant of Persist: rows of an unknown robot are left out, as an inner join would.
PersistLinked(r) ==
    stored' = [e \in Events |-> IF e \in req[r].new /\ req[r].link = "linked" THEN "linked" ELSE stored[e]]

\* The rows become visible; of an aborted transaction nothing does.
Persist(r) ==
    stored' = [e \in Events |-> IF e \in req[r].new THEN req[r].link ELSE stored[e]]

Commit(r) ==
    /\ IF commitFirst THEN Handled(r) ELSE req[r].stage = "told"
    /\ req' = [req EXCEPT ![r] =
          IF commitFirst THEN [@ EXCEPT !.stage = "answer", !.new = {}] ELSE Idle]
    /\ Persist(r)
    /\ robots' = IF req[r].job \in Beats THEN robots \cup {Robot(r)} ELSE robots
    /\ registrar' = IF robots' = robots THEN registrar
                    ELSE [registrar EXCEPT ![Robot(r)] = Key(r)]
    /\ keyLock' = Unlocked(r)
    /\ UNCHANGED <<answered, losses, told, spoiled, commitFirst>>

\* The robot sees the answer and forgets the job.
Answer(r) ==
    /\ IF commitFirst THEN req[r].stage = "answer" ELSE Handled(r)
    /\ req' = [req EXCEPT ![r] = IF commitFirst THEN Idle ELSE [@ EXCEPT !.stage = "told"]]
    /\ answered' = answered \cup {req[r].job}
    /\ IF req[r].aborted
       THEN spoiled' = spoiled \cup req[r].kept /\ UNCHANGED told
       ELSE told' = told \cup req[r].kept /\ UNCHANGED spoiled
    /\ UNCHANGED <<database, losses, registrar, commitFirst>>

----------------------------------------------------------------------------

Handle(r) ==
    \/ Authenticate(r) \/ LookRobot(r) \/ Reject(r) \/ Insert(r) \/ Abort(r)
    \/ Conflict(r) \/ Commit(r) \/ Answer(r)

Next ==
    \/ \E r \in Requests : Handle(r) \/ Lose(r)
    \/ \E r \in Requests, j \in Jobs : Send(r, j)

Spec == Init /\ [][Next]_vars

\* A handler runs to its end unless it is lost, a key is granted in some order
\* that starves nobody, and a robot goes on sending what has no answer.
FairSpec ==
    /\ Spec
    /\ \A r \in Requests : WF_vars(Handle(r)) /\ SF_vars(Authenticate(r))
    /\ \A j \in Jobs : SF_vars(\E r \in Requests : Send(r, j))

----------------------------------------------------------------------------
(* Properties.                                                             *)

\* The log of events is append-only: a row once stored is never changed, by a
\* retry, by a batch that overlaps another, or by a request that is lost.
AppendOnly == [][\A e \in Stored : stored'[e] = stored[e]]_vars

\* An event reported as accepted, or as a duplicate, by a batch that was not
\* aborted is in the database, where the commit precedes the answer: what made
\* it a duplicate is a committed row, never one that may still be rolled back.
ToldIsStored == commitFirst => told \subseteq Stored

\* An event is stored without its robot, and so never priced by its audience,
\* only if the robot was still unknown when its batch arrived.
UnlinkedOnlyIfUnknown ==
    [][\A e \in Events :
          stored[e] = "none" /\ stored'[e] = "unlinked"
          => \E r \in Requests : e \in req[r].new /\ ~req[r].knew]_vars

\* First heartbeats of one robot do not fail for each other when they use one
\* key: its row lock makes the second find what the first registered.
ConflictNeedsTwoKeys ==
    \A r \in Requests :
        BeatReady(r) /\ req[r].link = "unlinked" /\ Robot(r) \in robots
        => registrar[Robot(r)] # Key(r)

\* Where the commit precedes the answer, every event of a batch that the database
\* can store ends up stored once the batch is sent: retries, lost answers, events
\* that were rejected and the queue for a key lose none and block none for ever.
EventsArrive ==
    \A b \in Batches :
        ToSet(Items[b]) \cap Unstorable = {} =>
            (commitFirst /\ \E r \in Requests : req[r].job = b)
            ~> ToSet(Items[b]) \ Unparsable \subseteq Stored

\* Events a robot is told are accepted land in events_raw (README.md:11).
AcceptedIsStored == commitFirst => told \cup spoiled \subseteq Stored
=============================================================================
