------------------------- MODULE EventIngestProofs -------------------------
(***************************************************************************)
(* EventIngest for every number of events, robots, keys, requests and      *)
(* losses.  The log is append-only because what a request has inserted     *)
(* and not committed is neither stored nor inserted by another (NewInv);   *)
(* heartbeats of one key never conflict because the request at work holds  *)
(* the row lock of its key (LockInv).                                      *)
(***************************************************************************)
EXTENDS EventIngest, TLAPS

USE IngestAssumption
USE DEF database, history, Jobs

RequestType == [stage : Stages, job : Jobs \cup {None},
                link : {"?", "linked", "unlinked"}, at : Nat \ {0},
                new : SUBSET Events, kept : SUBSET Events,
                aborted : BOOLEAN, knew : BOOLEAN]

\* A busy request has a job, and a heartbeat's transaction is never aborted.
JobInv ==
    \A r \in Requests :
        /\ req[r].stage # "idle" => req[r].job \in Jobs
        /\ req[r].job \in Beats => ~req[r].aborted
        /\ req[r].new # {} => req[r].link # "?"

\* What a request has inserted is nobody else's, and not committed yet.
NewInv ==
    \A r \in Requests :
        /\ req[r].new \cap Stored = {}
        /\ \A q \in Requests \ {r} : req[r].new \cap req[q].new = {}

\* What it counts as accepted or duplicate is stored, or will be by its commit.
KeptInv ==
    \A r \in Requests :
        /\ ~req[r].aborted => req[r].kept \subseteq Stored \cup req[r].new
        /\ req[r].stage = "answer" => req[r].new = {}

\* A request at work holds the row lock of its key, until its transaction ends.
LockInv ==
    \A r \in Requests :
        req[r].stage \in {"body", "told"} /\ ~req[r].aborted => keyLock[Key(r)] = r

\* The robot is looked up after the key.
AuthInv == \A r \in Requests : req[r].stage = "auth" => req[r].link = "?"

IngestInv == TypeOK /\ JobInv

LEMMA InitIngest == Init => IngestInv /\ NewInv /\ KeptInv /\ LockInv /\ AuthInv
<1> SUFFICES ASSUME Init PROVE IngestInv /\ NewInv /\ KeptInv /\ LockInv /\ AuthInv
  OBVIOUS
<1>1. Idle \in RequestType
  BY DEF Idle, RequestType, Stages
<1>2. IngestInv
  BY <1>1 DEF Init, IngestInv, TypeOK, JobInv, Idle, RequestType
<1> QED
  BY <1>2 DEF Init, Idle, NewInv, KeptInv, LockInv, AuthInv, Stored

LEMMA ItemIsEvent == ASSUME IngestInv, NEW r \in Requests, Left(r) PROVE Item(r) \in Events
<1>1. req[r].at \in Nat \ {0} /\ req[r].job \in Batches
  BY DEF IngestInv, TypeOK, Left, InBatch
<1>2. Items[req[r].job] \in Seq(Events)
  BY <1>1
<1> QED
  BY <1>1, <1>2 DEF Left, Item

\* The request that takes a step keeps the shape of its record.
Shaped(r) ==
    /\ req' = [req EXCEPT ![r] = req'[r]]
    /\ req'[r] \in RequestType
    /\ req'[r].stage # "idle" => req'[r].job \in Jobs
    /\ req'[r].job \in Beats => ~req'[r].aborted
    /\ req'[r].new # {} => req'[r].link # "?"

LEMMA ShapedStep ==
    ASSUME IngestInv, NEW r \in Requests, Shaped(r)
    PROVE  req' \in [Requests -> RequestType] /\ JobInv'
<1>1. req \in [Requests -> RequestType]
  BY DEF IngestInv, TypeOK, RequestType
<1> QED
  BY <1>1 DEF Shaped, IngestInv, JobInv

LEMMA IdleShaped ==
    ASSUME IngestInv, NEW r \in Requests, req' = [req EXCEPT ![r] = Idle] PROVE Shaped(r)
<1>1. Idle \in RequestType /\ Idle.stage = "idle" /\ ~Idle.aborted /\ Idle.new = {}
  BY DEF Idle, RequestType, Stages
<1>2. req'[r] = Idle
  BY DEF IngestInv, TypeOK
<1> QED
  BY <1>1, <1>2 DEF Shaped

LEMMA HandleShaped ==
    ASSUME IngestInv, NEW r \in Requests, Handle(r) PROVE Shaped(r)
<1>1. req[r] \in RequestType /\ req \in [Requests -> RequestType]
  BY DEF IngestInv, TypeOK, RequestType
<1>2. /\ req[r].stage # "idle" => req[r].job \in Jobs
      /\ req[r].job \in Beats => ~req[r].aborted
      /\ req[r].new # {} => req[r].link # "?"
  BY DEF IngestInv, JobInv
<1>3. CASE Authenticate(r)
  <2>1. req'[r] = [req[r] EXCEPT !.stage = "body"] /\ req' = [req EXCEPT ![r] = req'[r]]
    BY <1>1, <1>3 DEF Authenticate
  <2> QED
    BY <1>1, <1>2, <1>3, <2>1 DEF Authenticate, Shaped, RequestType, Stages
<1>4. CASE LookRobot(r)
  <2>1. req'[r] = [req[r] EXCEPT !.link = Lookup(r)] /\ req' = [req EXCEPT ![r] = req'[r]]
    BY <1>1, <1>4 DEF LookRobot
  <2> QED
    BY <1>1, <1>2, <2>1 DEF Lookup, Shaped, RequestType
<1>5. CASE Reject(r)
  <2>1. req'[r] = [req[r] EXCEPT !.at = @ + 1] /\ req' = [req EXCEPT ![r] = req'[r]]
    BY <1>1, <1>5 DEF Reject
  <2>2. req[r].at + 1 \in Nat \ {0}
    BY <1>1 DEF RequestType
  <2>3. req'[r] \in RequestType
    BY <1>1, <2>1, <2>2 DEF RequestType
  <2> QED
    BY <1>1, <1>2, <2>1, <2>3 DEF Shaped, RequestType
<1>6. CASE Insert(r)
  <2> DEFINE kept == req[r].kept \cup {Item(r)}
             new == IF Item(r) \in Stored THEN req[r].new ELSE req[r].new \cup {Item(r)}
  <2>1. /\ req'[r] = [req[r] EXCEPT !.at = @ + 1, !.kept = kept, !.new = new]
        /\ req' = [req EXCEPT ![r] = req'[r]]
    BY <1>1, <1>6 DEF Insert
  <2>2. Item(r) \in Events /\ req[r].link # "?"
    BY <1>6, ItemIsEvent DEF Insert, Inserting
  <2>3. kept \in SUBSET Events /\ new \in SUBSET Events /\ req[r].at + 1 \in Nat \ {0}
    BY <1>1, <2>2 DEF RequestType
  <2> HIDE DEF kept, new
  <2>4. req'[r] \in RequestType
    BY <1>1, <2>1, <2>3 DEF RequestType
  <2>5. /\ req'[r].stage = req[r].stage /\ req'[r].job = req[r].job
        /\ req'[r].aborted = req[r].aborted /\ req'[r].link = req[r].link
    BY <1>1, <2>1 DEF RequestType
  <2> QED
    BY <1>2, <2>1, <2>2, <2>4, <2>5 DEF Shaped
<1>7. CASE Abort(r)
  <2>1. /\ req'[r] = [req[r] EXCEPT !.at = @ + 1, !.aborted = TRUE, !.new = {}]
        /\ req' = [req EXCEPT ![r] = req'[r]]
    BY <1>1, <1>7 DEF Abort
  <2>2. req[r].job \in Batches
    BY <1>7 DEF Abort, Inserting, Left, InBatch
  <2>3. {} \in SUBSET Events /\ req[r].at + 1 \in Nat \ {0}
    BY <1>1 DEF RequestType
  <2>4. req'[r] \in RequestType
    BY <1>1, <2>1, <2>3 DEF RequestType
  <2>5. req'[r].job = req[r].job /\ req'[r].new = {}
    BY <1>1, <2>1 DEF RequestType
  <2> QED
    BY <2>1, <2>2, <2>4, <2>5 DEF Shaped
<1>8. CASE Conflict(r)
  BY <1>8, IdleShaped DEF Conflict
<1>9. CASE Commit(r)
  <2>1. CASE commitFirst
    <3>1. req'[r] = [req[r] EXCEPT !.stage = "answer", !.new = {}] /\ req' = [req EXCEPT ![r] = req'[r]]
      BY <1>1, <1>9, <2>1 DEF Commit
    <3>2. req[r].stage = "body"
      BY <1>9, <2>1 DEF Commit, Handled, BatchDone, InBatch, BeatDone, BeatReady
    <3>3. {} \in SUBSET Events /\ "answer" \in Stages
      BY DEF Stages
    <3>4. req'[r] \in RequestType
      BY <1>1, <3>1, <3>3 DEF RequestType
    <3>5. req'[r].job = req[r].job /\ req'[r].new = {} /\ req'[r].aborted = req[r].aborted
      BY <1>1, <3>1 DEF RequestType
    <3> QED
      BY <1>2, <3>1, <3>2, <3>4, <3>5 DEF Shaped
  <2>2. CASE ~commitFirst
    BY <1>9, <2>2, IdleShaped DEF Commit
  <2> QED
    BY <2>1, <2>2
<1>10. CASE Answer(r)
  <2>1. CASE commitFirst
    BY <1>10, <2>1, IdleShaped DEF Answer
  <2>2. CASE ~commitFirst
    <3>1. req'[r] = [req[r] EXCEPT !.stage = "told"] /\ req' = [req EXCEPT ![r] = req'[r]]
      BY <1>1, <1>10, <2>2 DEF Answer
    <3>2. req[r].stage = "body"
      BY <1>10, <2>2 DEF Answer, Handled, BatchDone, InBatch, BeatDone, BeatReady
    <3> QED
      BY <1>1, <1>2, <3>1, <3>2 DEF Shaped, RequestType, Stages
  <2> QED
    BY <2>1, <2>2
<1> QED
  BY <1>3, <1>4, <1>5, <1>6, <1>7, <1>8, <1>9, <1>10 DEF Handle

LEMMA StepIngest == IngestInv /\ [Next]_vars => IngestInv'
<1> SUFFICES ASSUME IngestInv, [Next]_vars PROVE IngestInv'
  OBVIOUS
<1>1. ASSUME NEW r \in Requests, NEW j \in Jobs, Send(r, j) PROVE IngestInv'
  <2> DEFINE sent == [Idle EXCEPT !.stage = "auth", !.job = j, !.knew = RobotOf[j] \in robots]
  <2>1. sent \in RequestType
    <3>1. Idle \in RequestType /\ j \in Jobs \cup {None} /\ (RobotOf[j] \in robots) \in BOOLEAN /\ "auth" \in Stages
      BY DEF Idle, RequestType, Stages
    <3> QED
      BY <3>1 DEF RequestType
  <2>2. sent.job = j /\ ~sent.aborted /\ sent.new = {}
    BY DEF Idle
  <2>3. req' = [req EXCEPT ![r] = sent]
    BY <1>1 DEF Send
  <2> HIDE DEF sent
  <2>4. Shaped(r)
    BY <2>1, <2>2, <2>3 DEF Shaped, IngestInv, TypeOK
  <2> QED
    BY <1>1, <2>4, ShapedStep DEF Send, IngestInv, TypeOK, RequestType
<1>2. ASSUME NEW r \in Requests, Lose(r) PROVE IngestInv'
  <2>1. req' \in [Requests -> RequestType] /\ JobInv'
    BY <1>2, IdleShaped, ShapedStep DEF Lose
  <2>2. keyLock' \in [Keys -> Requests \cup {None}] /\ losses' \in 0..MaxLosses
    BY <1>2 DEF Lose, Unlocked, IngestInv, TypeOK
  <2> QED
    BY <1>2, <2>1, <2>2 DEF Lose, IngestInv, TypeOK, RequestType
<1>3. ASSUME NEW r \in Requests, Handle(r) PROVE IngestInv'
  <2>1. req' \in [Requests -> RequestType] /\ JobInv'
    BY <1>3, HandleShaped, ShapedStep
  <2>2. req[r] \in RequestType
    BY DEF IngestInv, TypeOK, RequestType
  <2>3. req[r].stage # "idle" /\ req[r].job \in Jobs
    BY <1>3 DEF Handle, Authenticate, LookRobot, Left, InBatch, Reject, Insert, Inserting, Abort, Conflict,
       BeatReady, Commit, Answer, Handled, BatchDone, BeatDone, IngestInv, JobInv
  <2>4. stored' \in [Events -> {"none", "linked", "unlinked"}]
    <3>1. UNCHANGED stored \/ Persist(r)
      BY <1>3 DEF Handle, Authenticate, LookRobot, Reject, Insert, Abort, Conflict, Commit, Answer
    <3>2. stored \in [Events -> {"none", "linked", "unlinked"}]
      BY DEF IngestInv, TypeOK
    <3>3. req[r].new # {} => req[r].link \in {"linked", "unlinked"}
      BY <2>2 DEF IngestInv, JobInv, RequestType
    <3> QED
      BY <3>1, <3>2, <3>3 DEF Persist
  <2>5. keyLock' \in [Keys -> Requests \cup {None}]
    BY <1>3 DEF Handle, Authenticate, LookRobot, Reject, Insert, Abort, Conflict, Commit, Unlocked, Answer,
       IngestInv, TypeOK
  <2>6. robots' \subseteq Robots /\ registrar' \in [Robots -> Keys \cup {None}]
    <3>1. Robot(r) \in Robots /\ Key(r) \in Keys
      BY <2>3 DEF Robot, Key
    <3>2. \/ UNCHANGED <<robots, registrar>>
          \/ /\ robots' \in {robots, robots \cup {Robot(r)}}
             /\ registrar' \in {registrar, [registrar EXCEPT ![Robot(r)] = Key(r)]}
      BY <1>3 DEF Handle, Authenticate, LookRobot, Reject, Insert, Abort, Conflict, Commit, Answer
    <3> QED
      BY <3>1, <3>2 DEF IngestInv, TypeOK
  <2>7. answered' \subseteq Jobs /\ losses' \in 0..MaxLosses /\ commitFirst' \in BOOLEAN
    BY <1>3, <2>3 DEF Handle, Authenticate, LookRobot, Reject, Insert, Abort, Conflict, Commit, Answer,
       IngestInv, TypeOK
  <2>8. told' \subseteq Events /\ spoiled' \subseteq Events
    BY <1>3, <2>2 DEF Handle, Authenticate, LookRobot, Reject, Insert, Abort, Conflict, Commit, Answer,
       IngestInv, TypeOK, RequestType
  <2> QED
    BY <2>1, <2>4, <2>5, <2>6, <2>7, <2>8 DEF IngestInv, TypeOK, RequestType
<1>4. CASE UNCHANGED vars
  BY <1>4 DEF vars, IngestInv, TypeOK, JobInv
<1> QED
  BY <1>1, <1>2, <1>3, <1>4 DEF Next

(* Which of the sets that the properties speak about a step changes.       *)
LEMMA StoredStep ==
    ASSUME IngestInv, NewInv, [Next]_vars
    PROVE  /\ \A e \in Stored : stored'[e] = stored[e]
           /\ Stored \subseteq Stored'
<1>1. stored \in [Events -> {"none", "linked", "unlinked"}]
  BY DEF IngestInv, TypeOK
<1>2. \/ UNCHANGED stored
      \/ \E r \in Requests : Persist(r)
  BY DEF Next, vars, Send, Lose, Handle, Authenticate, LookRobot, Reject, Insert, Abort, Conflict, Commit, Answer
<1>3. ASSUME NEW r \in Requests, Persist(r) PROVE \A e \in Stored : stored'[e] = stored[e]
  BY <1>3 DEF Persist, NewInv, Stored
<1>4. \A e \in Stored : stored'[e] = stored[e]
  BY <1>2, <1>3 DEF Stored
<1> QED
  BY <1>1, <1>4 DEF Stored

\* What a step does to the rows a request has inserted: they stay its own, and
\* the only way for them to be stored is that request's commit.
Moves(r) ==
    \/ UNCHANGED stored /\ req' = [req EXCEPT ![r] = req'[r]] /\ req'[r].new \in {{}, req[r].new}
    \/ UNCHANGED stored /\ Insert(r)
    \/ Persist(r) /\ req' = [req EXCEPT ![r] = req'[r]] /\ req'[r].new = {}

LEMMA NextMoves ==
    ASSUME IngestInv, Next PROVE \E r \in Requests : Moves(r)
<1>1. req \in [Requests -> RequestType]
  BY DEF IngestInv, TypeOK, RequestType
<1>2. ASSUME NEW r \in Requests, Handle(r) PROVE Moves(r)
  <2>1. req' = [req EXCEPT ![r] = req'[r]]
    BY <1>2, HandleShaped DEF Shaped
  <2>2. CASE Authenticate(r) \/ LookRobot(r) \/ Reject(r) \/ Answer(r)
    <3>1. UNCHANGED stored
      BY <2>2 DEF Authenticate, LookRobot, Reject, Answer
    <3>2. req'[r].new \in {{}, req[r].new}
      BY <1>1, <2>2 DEF Authenticate, LookRobot, Reject, Answer, Idle, RequestType
    <3> QED
      BY <2>1, <3>1, <3>2 DEF Moves
  <2>3. CASE Insert(r)
    BY <2>3 DEF Insert, Moves
  <2>4. CASE Abort(r) \/ Conflict(r)
    <3>1. UNCHANGED stored
      BY <2>4 DEF Abort, Conflict
    <3>2. req'[r].new = {}
      BY <1>1, <2>4 DEF Abort, Conflict, Idle, RequestType
    <3> QED
      BY <2>1, <3>1, <3>2 DEF Moves
  <2>5. CASE Commit(r)
    <3>1. Persist(r)
      BY <2>5 DEF Commit
    <3>2. req'[r].new = {}
      BY <1>1, <2>5 DEF Commit, Idle, RequestType
    <3> QED
      BY <2>1, <3>1, <3>2 DEF Moves
  <2> QED
    BY <1>2, <2>2, <2>3, <2>4, <2>5 DEF Handle
<1>3. ASSUME NEW r \in Requests, Lose(r) PROVE Moves(r)
  BY <1>1, <1>3 DEF Lose, Idle, Moves
<1>4. ASSUME NEW r \in Requests, NEW j \in Jobs, Send(r, j) PROVE Moves(r)
  BY <1>1, <1>4 DEF Send, Idle, Moves
<1> QED
  BY <1>2, <1>3, <1>4 DEF Next

LEMMA StepNew == IngestInv /\ NewInv /\ [Next]_vars => NewInv'
<1> SUFFICES ASSUME IngestInv, NewInv, [Next]_vars PROVE NewInv'
  OBVIOUS
<1>1. CASE UNCHANGED vars
  BY <1>1 DEF vars, NewInv, Stored
<1>2. CASE Next
  <2>1. PICK r \in Requests : Moves(r)
    BY <1>2, NextMoves
  <2>2. req \in [Requests -> RequestType] /\ stored \in [Events -> {"none", "linked", "unlinked"}]
    BY DEF IngestInv, TypeOK, RequestType
  <2>3. CASE UNCHANGED stored /\ req' = [req EXCEPT ![r] = req'[r]] /\ req'[r].new \in {{}, req[r].new}
    <3>1. \A q \in Requests : req'[q].new \subseteq req[q].new
      BY <2>2, <2>3
    <3> QED
      BY <2>3, <3>1 DEF NewInv, Stored
  <2>4. CASE UNCHANGED stored /\ Insert(r)
    <3>1. /\ \A q \in Requests \ {r} : req'[q] = req[q] /\ Item(r) \notin req[q].new
          /\ \/ req'[r].new = req[r].new
             \/ Item(r) \notin Stored /\ req'[r].new = req[r].new \cup {Item(r)}
      BY <2>2, <2>4 DEF Insert, RequestType
    <3> QED
      BY <2>4, <3>1 DEF NewInv, Stored
  <2>5. CASE Persist(r) /\ req' = [req EXCEPT ![r] = req'[r]] /\ req'[r].new = {}
    <3>1. Stored' \subseteq Stored \cup req[r].new
      BY <2>2, <2>5 DEF Persist, Stored
    <3>2. \A q \in Requests \ {r} : req'[q] = req[q]
      BY <2>2, <2>5
    <3> QED
      BY <2>5, <3>1, <3>2 DEF NewInv
  <2> QED
    BY <2>1, <2>3, <2>4, <2>5 DEF Moves
<1> QED
  BY <1>1, <1>2

LEMMA StepKept == IngestInv /\ NewInv /\ KeptInv /\ [Next]_vars => KeptInv'
<1> SUFFICES ASSUME IngestInv, NewInv, KeptInv, [Next]_vars PROVE KeptInv'
  OBVIOUS
<1>0. /\ Stored \subseteq Stored'
      /\ req \in [Requests -> RequestType]
      /\ stored \in [Events -> {"none", "linked", "unlinked"}]
  BY StoredStep DEF IngestInv, TypeOK, RequestType
<1>1. CASE UNCHANGED vars
  BY <1>1 DEF vars, KeptInv, Stored
<1>2. ASSUME NEW r \in Requests, req' = [req EXCEPT ![r] = req'[r]],
             ~req'[r].aborted => req'[r].kept \subseteq Stored' \cup req'[r].new,
             req'[r].stage = "answer" => req'[r].new = {}
      PROVE  KeptInv'
  BY <1>0, <1>2 DEF KeptInv
<1>3. ASSUME NEW r \in Requests, req' = [req EXCEPT ![r] = Idle] PROVE KeptInv'
  <2>1. req'[r].kept = {} /\ req'[r].stage = "idle" /\ req' = [req EXCEPT ![r] = req'[r]]
    BY <1>0, <1>3 DEF Idle
  <2> QED
    BY <1>2, <2>1
<1>4. ASSUME NEW r \in Requests, NEW j \in Jobs, Send(r, j) PROVE KeptInv'
  <2>1. req'[r].kept = {} /\ req'[r].stage = "auth" /\ req' = [req EXCEPT ![r] = req'[r]]
    BY <1>0, <1>4 DEF Send, Idle
  <2> QED
    BY <1>2, <2>1
<1>5. ASSUME NEW r \in Requests, Handle(r) PROVE KeptInv'
  <2>1. req' = [req EXCEPT ![r] = req'[r]]
    BY <1>5, HandleShaped DEF Shaped
  <2>2. CASE Authenticate(r) \/ LookRobot(r) \/ Reject(r)
    <3>1. /\ req'[r].new = req[r].new /\ req'[r].kept = req[r].kept
          /\ req'[r].aborted = req[r].aborted /\ req'[r].stage = "body"
      BY <1>0, <2>2 DEF Authenticate, LookRobot, Reject, Left, InBatch, RequestType
    <3> QED
      BY <1>0, <1>2, <2>1, <3>1 DEF KeptInv
  <2>3. CASE Insert(r)
    <3>1. /\ req'[r].kept = req[r].kept \cup {Item(r)} /\ req'[r].stage = "body" /\ ~req[r].aborted
          /\ req'[r].new = IF Item(r) \in Stored THEN req[r].new ELSE req[r].new \cup {Item(r)}
      BY <1>0, <2>3 DEF Insert, Inserting, Left, InBatch, RequestType
    <3> QED
      BY <1>0, <1>2, <2>1, <3>1 DEF KeptInv
  <2>4. CASE Abort(r)
    <3>1. req'[r].aborted /\ req'[r].new = {}
      BY <1>0, <2>4 DEF Abort, RequestType
    <3> QED
      BY <1>2, <2>1, <3>1
  <2>5. CASE Conflict(r)
    BY <1>3, <2>5 DEF Conflict
  <2>6. CASE Commit(r)
    <3>1. CASE commitFirst
      <4>1. /\ req'[r].new = {} /\ req'[r].kept = req[r].kept /\ req'[r].aborted = req[r].aborted
        BY <1>0, <2>6, <3>1 DEF Commit, RequestType
      <4>2. req[r].new \subseteq Stored'
        <5>1. \A e \in req[r].new : req[r].link \in {"linked", "unlinked"} /\ e \in Events
          BY <1>0 DEF IngestInv, JobInv, RequestType
        <5> QED
          BY <1>0, <2>6, <5>1 DEF Commit, Persist, Stored
      <4> QED
        BY <1>0, <1>2, <2>1, <4>1, <4>2 DEF KeptInv
    <3>2. CASE ~commitFirst
      BY <1>3, <2>6, <3>2 DEF Commit
    <3> QED
      BY <3>1, <3>2
  <2>7. CASE Answer(r)
    <3>1. CASE commitFirst
      BY <1>3, <2>7, <3>1 DEF Answer
    <3>2. CASE ~commitFirst
      <4>1. /\ req'[r].new = req[r].new /\ req'[r].kept = req[r].kept
            /\ req'[r].aborted = req[r].aborted /\ req'[r].stage = "told"
        BY <1>0, <2>7, <3>2 DEF Answer, RequestType
      <4> QED
        BY <1>0, <1>2, <2>1, <4>1 DEF KeptInv
    <3> QED
      BY <3>1, <3>2
  <2> QED
    BY <1>5, <2>2, <2>3, <2>4, <2>5, <2>6, <2>7 DEF Handle
<1> QED
  BY <1>1, <1>3, <1>4, <1>5 DEF Next, Lose

LEMMA StepLock == IngestInv /\ LockInv /\ [Next]_vars => LockInv'
<1> SUFFICES ASSUME IngestInv, LockInv, [Next]_vars PROVE LockInv'
  OBVIOUS
<1>0. /\ req \in [Requests -> RequestType]
      /\ keyLock \in [Keys -> Requests \cup {None}]
  BY DEF IngestInv, TypeOK, RequestType
<1>1. CASE UNCHANGED vars
  BY <1>1 DEF vars, LockInv, Key
<1>2. ASSUME NEW r \in Requests, req' = [req EXCEPT ![r] = req'[r]],
             UNCHANGED keyLock, Key(r)' = Key(r),
             req'[r].stage \in {"body", "told"} /\ ~req'[r].aborted
                => req[r].stage \in {"body", "told"} /\ ~req[r].aborted
      PROVE  LockInv'
  <2>1. ASSUME NEW q \in Requests, req'[q].stage \in {"body", "told"}, ~req'[q].aborted
        PROVE  keyLock'[Key(q)'] = q
    <3>1. CASE q = r
      BY <1>2, <2>1, <3>1 DEF LockInv
    <3>2. CASE q # r
      <4>1. req'[q] = req[q] /\ Key(q)' = Key(q)
        BY <1>0, <1>2, <3>2 DEF Key
      <4> QED
        BY <1>2, <2>1, <4>1 DEF LockInv
    <3> QED
      BY <3>1, <3>2
  <2> QED
    BY <2>1 DEF LockInv
<1>3. ASSUME NEW r \in Requests, req' = [req EXCEPT ![r] = req'[r]], keyLock' = Unlocked(r),
             req'[r].stage \notin {"body", "told"} \/ req'[r].aborted
      PROVE  LockInv'
  <2>1. ASSUME NEW q \in Requests \ {r}, req'[q].stage \in {"body", "told"}, ~req'[q].aborted
        PROVE  keyLock'[Key(q)'] = q
    <3>1. req'[q] = req[q] /\ Key(q)' = Key(q)
      BY <1>0, <1>3 DEF Key
    <3>2. keyLock[Key(q)] = q /\ req[q].job \in Jobs
      BY <2>1, <3>1 DEF LockInv, IngestInv, JobInv
    <3>3. Key(q) \in Keys
      BY <3>2 DEF Key
    <3> QED
      BY <1>3, <3>1, <3>2, <3>3 DEF Unlocked
  <2> QED
    BY <1>3, <2>1 DEF LockInv
<1>4. ASSUME NEW r \in Requests, Lose(r) PROVE LockInv'
  BY <1>0, <1>3, <1>4 DEF Lose, Idle
<1>5. ASSUME NEW r \in Requests, NEW j \in Jobs, Send(r, j) PROVE LockInv'
  <2>1. req'[r].stage = "auth" /\ \A q \in Requests \ {r} : req'[q] = req[q]
    BY <1>0, <1>5 DEF Send, Idle
  <2> QED
    BY <1>5, <2>1 DEF Send, LockInv, Key
<1>6. ASSUME NEW r \in Requests, Handle(r) PROVE LockInv'
  <2>1. req' = [req EXCEPT ![r] = req'[r]]
    BY <1>6, HandleShaped DEF Shaped
  <2>2. CASE Authenticate(r)
    <3>1. req'[r].job = req[r].job /\ req[r].job \in Jobs
      BY <1>0, <2>2 DEF Authenticate, RequestType, IngestInv, JobInv
    <3>2. Key(r) \in Keys /\ Key(r)' = Key(r)
      BY <3>1 DEF Key
    <3>3. keyLock[Key(r)] = None /\ keyLock' = [keyLock EXCEPT ![Key(r)] = r]
      BY <2>2 DEF Authenticate, KeyFree
    <3>4. ASSUME NEW q \in Requests \ {r}, req'[q].stage \in {"body", "told"}, ~req'[q].aborted
          PROVE  keyLock'[Key(q)'] = q
      <4>1. req'[q] = req[q] /\ Key(q)' = Key(q)
        BY <1>0, <2>1 DEF Key
      <4>2. keyLock[Key(q)] = q
        BY <3>4, <4>1 DEF LockInv
      <4> QED
        BY <1>0, <3>2, <3>3, <4>1, <4>2
    <3> QED
      BY <1>0, <3>2, <3>3, <3>4 DEF LockInv
  <2>3. CASE LookRobot(r) \/ Reject(r) \/ Insert(r)
    <3>1. /\ req'[r].job = req[r].job /\ req'[r].aborted = req[r].aborted
          /\ req'[r].stage = req[r].stage /\ UNCHANGED keyLock
      BY <1>0, <2>3 DEF LookRobot, Reject, Insert, RequestType
    <3> QED
      BY <1>2, <2>1, <3>1 DEF Key
  <2>4. CASE Abort(r)
    <3>1. req'[r].aborted /\ keyLock' = Unlocked(r)
      BY <1>0, <2>4 DEF Abort, RequestType
    <3> QED
      BY <1>3, <2>1, <3>1
  <2>5. CASE Conflict(r)
    BY <1>0, <1>3, <2>5 DEF Conflict, Idle
  <2>6. CASE Commit(r)
    <3>1. req'[r].stage \in {"idle", "answer"} /\ keyLock' = Unlocked(r)
      BY <1>0, <2>6 DEF Commit, Idle, RequestType
    <3> QED
      BY <1>3, <2>1, <3>1
  <2>7. CASE Answer(r)
    <3>1. CASE commitFirst
      <4>1. req'[r].stage = "idle" /\ \A q \in Requests \ {r} : req'[q] = req[q]
        BY <1>0, <2>7, <3>1 DEF Answer, Idle
      <4> QED
        BY <2>7, <4>1 DEF Answer, LockInv, Key
    <3>2. CASE ~commitFirst
      <4>1. /\ req'[r].job = req[r].job /\ req'[r].aborted = req[r].aborted
            /\ req[r].stage = "body" /\ UNCHANGED keyLock
        BY <1>0, <2>7, <3>2 DEF Answer, Handled, BatchDone, InBatch, BeatDone, BeatReady, RequestType
      <4> QED
        BY <1>2, <2>1, <4>1 DEF Key
    <3> QED
      BY <3>1, <3>2
  <2> QED
    BY <1>6, <2>2, <2>3, <2>4, <2>5, <2>6, <2>7 DEF Handle
<1> QED
  BY <1>1, <1>4, <1>5, <1>6 DEF Next

LEMMA StepAuth == IngestInv /\ AuthInv /\ [Next]_vars => AuthInv'
<1> SUFFICES ASSUME IngestInv, AuthInv, [Next]_vars PROVE AuthInv'
  OBVIOUS
<1>0. req \in [Requests -> RequestType]
  BY DEF IngestInv, TypeOK, RequestType
<1>1. CASE UNCHANGED vars
  BY <1>1 DEF vars, AuthInv
<1>2. ASSUME NEW r \in Requests, req' = [req EXCEPT ![r] = req'[r]],
             req'[r].stage # "auth" \/ req'[r].link = "?"
      PROVE  AuthInv'
  BY <1>0, <1>2 DEF AuthInv
<1>3. ASSUME NEW r \in Requests, Lose(r) PROVE AuthInv'
  BY <1>0, <1>2, <1>3 DEF Lose, Idle
<1>4. ASSUME NEW r \in Requests, NEW j \in Jobs, Send(r, j) PROVE AuthInv'
  BY <1>0, <1>2, <1>4 DEF Send, Idle
<1>5. ASSUME NEW r \in Requests, Handle(r) PROVE AuthInv'
  <2>1. req' = [req EXCEPT ![r] = req'[r]]
    BY <1>5, HandleShaped DEF Shaped
  <2>2. CASE Authenticate(r) \/ LookRobot(r) \/ Reject(r)
    <3>1. req'[r].stage = "body"
      BY <1>0, <2>2 DEF Authenticate, LookRobot, Reject, Left, InBatch, RequestType
    <3> QED
      BY <1>2, <2>1, <3>1
  <2>3. CASE Insert(r) \/ Abort(r)
    <3>1. req'[r].stage = "body"
      BY <1>0, <2>3 DEF Insert, Abort, Inserting, Left, InBatch, RequestType
    <3> QED
      BY <1>2, <2>1, <3>1
  <2>4. CASE Conflict(r) \/ Commit(r) \/ Answer(r)
    <3>1. req'[r].stage \in {"idle", "answer", "told"}
      <4>1. CASE Conflict(r)
        BY <1>0, <4>1 DEF Conflict, Idle
      <4>2. CASE Commit(r)
        BY <1>0, <4>2 DEF Commit, Idle, RequestType
      <4>3. CASE Answer(r)
        BY <1>0, <4>3 DEF Answer, Idle, RequestType
      <4> QED
        BY <2>4, <4>1, <4>2, <4>3
    <3> QED
      BY <1>2, <2>1, <3>1
  <2> QED
    BY <1>5, <2>2, <2>3, <2>4 DEF Handle
<1> QED
  BY <1>1, <1>3, <1>4, <1>5 DEF Next

(* A robot that registers while a heartbeat of the same key is past its    *)
(* look-up would have to hold the lock that heartbeat holds.               *)
LEMMA StepConflict ==
    IngestInv /\ LockInv /\ AuthInv /\ ConflictNeedsTwoKeys /\ [Next]_vars => ConflictNeedsTwoKeys'
<1> SUFFICES ASSUME IngestInv, LockInv, AuthInv, ConflictNeedsTwoKeys, [Next]_vars,
                    NEW r \in Requests, BeatReady(r)', req'[r].link = "unlinked", Robot(r)' \in robots'
             PROVE  registrar'[Robot(r)'] # Key(r)'
  BY DEF ConflictNeedsTwoKeys
<1>0. /\ req \in [Requests -> RequestType] /\ registrar \in [Robots -> Keys \cup {None}]
  BY DEF IngestInv, TypeOK, RequestType
<1>1. CASE UNCHANGED <<robots, registrar>> /\ req'[r] = req[r]
  BY <1>1 DEF ConflictNeedsTwoKeys, BeatReady, Robot, Key
<1>2. ASSUME NEW q \in Requests, Commit(q) PROVE registrar'[Robot(r)'] # Key(r)'
  <2>1. q # r
    BY <1>0, <1>2 DEF Commit, BeatReady, Idle, RequestType
  <2>2. req'[r] = req[r] /\ BeatReady(r) /\ req[r].link = "unlinked" /\ Robot(r)' = Robot(r) /\ Key(r)' = Key(r)
    BY <1>0, <1>2, <2>1 DEF Commit, BeatReady, Robot, Key
  <2>3. CASE Robot(r) \in robots
    <3>1. registrar[Robot(r)] # Key(r)
      BY <2>2, <2>3 DEF ConflictNeedsTwoKeys
    <3>2. registrar'[Robot(r)] = registrar[Robot(r)] \/ Robot(q) = Robot(r)
      BY <1>0, <1>2 DEF Commit
    <3>3. robots' = robots => registrar' = registrar
      BY <1>2 DEF Commit
    <3>4. Robot(q) = Robot(r) => robots' = robots
      BY <1>2, <2>3 DEF Commit
    <3> QED
      BY <2>2, <3>1, <3>2, <3>3, <3>4
  <2>4. CASE Robot(r) \notin robots
    <3>1. req[q].job \in Beats /\ Robot(q) = Robot(r) /\ registrar' = [registrar EXCEPT ![Robot(q)] = Key(q)]
      BY <1>2, <2>2, <2>4 DEF Commit
    <3>2. Robot(r) \in Robots
      BY <2>2 DEF BeatReady, Robot
    <3>3. req[q].stage \in {"body", "told"} /\ ~req[q].aborted
      BY <1>2, <3>1 DEF Commit, Handled, BatchDone, InBatch, BeatDone, BeatReady, IngestInv, JobInv
    <3>4. keyLock[Key(q)] = q
      BY <3>3 DEF LockInv
    <3>5. keyLock[Key(r)] = r
      BY <2>2 DEF BeatReady, LockInv, IngestInv, JobInv
    <3> QED
      BY <1>0, <2>1, <2>2, <3>1, <3>2, <3>4, <3>5
  <2> QED
    BY <2>3, <2>4
<1>3. ASSUME NEW q \in Requests, Handle(q), ~Commit(q) PROVE registrar'[Robot(r)'] # Key(r)'
  <2>1. UNCHANGED <<robots, registrar>>
    BY <1>3 DEF Handle, Authenticate, LookRobot, Reject, Insert, Abort, Conflict, Answer
  <2>2. CASE q # r
    <3>1. req'[r] = req[r]
      BY <1>0, <1>3, <2>2, HandleShaped DEF Shaped
    <3> QED
      BY <1>1, <2>1, <3>1
  <2>3. CASE q = r
    <3>1. CASE LookRobot(r)
      <4>1. req'[r].link = Lookup(r) /\ Robot(r)' = Robot(r)
        BY <1>0, <3>1 DEF LookRobot, Robot, RequestType
      <4>2. Robot(r) \notin robots
        BY <4>1 DEF Lookup
      <4> QED
        BY <2>1, <4>1, <4>2
    <3>2. CASE Authenticate(r)
      <4>1. req'[r].link = req[r].link /\ req'[r].job = req[r].job /\ req[r].stage = "auth"
        BY <1>0, <3>2 DEF Authenticate, RequestType
      <4> QED
        BY <4>1 DEF AuthInv
    <3>3. CASE Reject(r) \/ Insert(r) \/ Abort(r)
      <4>1. req'[r].job = req[r].job /\ req[r].job \in Batches
        BY <1>0, <3>3 DEF Reject, Insert, Abort, Inserting, Left, InBatch, RequestType
      <4> QED
        BY <4>1 DEF BeatReady
    <3>4. CASE Conflict(r) \/ Answer(r)
      <4>1. req'[r].stage # "body"
        BY <1>0, <3>4 DEF Conflict, Answer, Idle, RequestType
      <4> QED
        BY <4>1 DEF BeatReady
    <3> QED
      BY <1>3, <2>3, <3>1, <3>2, <3>3, <3>4 DEF Handle
  <2> QED
    BY <2>2, <2>3
<1>4. ASSUME NEW q \in Requests, Lose(q) PROVE registrar'[Robot(r)'] # Key(r)'
  <2>1. q # r
    BY <1>0, <1>4 DEF Lose, BeatReady, Idle
  <2>2. req'[r] = req[r]
    BY <1>0, <1>4, <2>1 DEF Lose
  <2> QED
    BY <1>1, <1>4, <2>2 DEF Lose
<1>5. ASSUME NEW q \in Requests, NEW j \in Jobs, Send(q, j) PROVE registrar'[Robot(r)'] # Key(r)'
  <2>1. q # r
    BY <1>0, <1>5 DEF Send, BeatReady, Idle
  <2>2. req'[r] = req[r]
    BY <1>0, <1>5, <2>1 DEF Send
  <2> QED
    BY <1>1, <1>5, <2>2 DEF Send
<1>6. CASE UNCHANGED vars
  BY <1>1, <1>6 DEF vars
<1> QED
  BY <1>2, <1>3, <1>4, <1>5, <1>6 DEF Next

LEMMA StepTold ==
    IngestInv /\ NewInv /\ KeptInv /\ ToldIsStored /\ [Next]_vars => ToldIsStored'
<1> SUFFICES ASSUME IngestInv, NewInv, KeptInv, ToldIsStored, [Next]_vars PROVE ToldIsStored'
  OBVIOUS
<1>1. Stored \subseteq Stored'
  BY StoredStep
<1>2. ASSUME NEW r \in Requests, Answer(r) PROVE ToldIsStored'
  <2>1. CASE commitFirst
    <3>1. ~req[r].aborted => req[r].kept \subseteq Stored
      BY <1>2, <2>1 DEF Answer, KeptInv
    <3>2. told' = told \/ (~req[r].aborted /\ told' = told \cup req[r].kept)
      BY <1>2 DEF Answer
    <3> QED
      BY <1>1, <1>2, <2>1, <3>1, <3>2 DEF Answer, ToldIsStored
  <2>2. CASE ~commitFirst
    BY <1>2, <2>2 DEF Answer, ToldIsStored
  <2> QED
    BY <2>1, <2>2
<1>3. ASSUME UNCHANGED <<told, commitFirst>> PROVE ToldIsStored'
  BY <1>1, <1>3 DEF ToldIsStored
<1> QED
  BY <1>2, <1>3 DEF Next, vars, Send, Lose, Handle, Authenticate, LookRobot, Reject, Insert, Abort, Conflict, Commit

\* A request that arrived when its robot was registered does not miss it.
KnewInv ==
    \A r \in Requests :
        /\ req[r].knew => req[r].job \in Jobs /\ Robot(r) \in robots
        /\ req[r].link = "unlinked" => ~req[r].knew

LEMMA StepKnew == IngestInv /\ KnewInv /\ [Next]_vars => KnewInv'
<1> SUFFICES ASSUME IngestInv, KnewInv, [Next]_vars PROVE KnewInv'
  OBVIOUS
<1>0. req \in [Requests -> RequestType]
  BY DEF IngestInv, TypeOK, RequestType
<1>1. CASE UNCHANGED vars
  BY <1>1 DEF vars, KnewInv, Robot
<1>2. ASSUME NEW r \in Requests, req' = [req EXCEPT ![r] = req'[r]], robots \subseteq robots',
             ~req'[r].knew \/ (/\ req'[r].knew = req[r].knew /\ req'[r].job = req[r].job
                               /\ req'[r].link = req[r].link)
      PROVE  KnewInv'
  BY <1>0, <1>2 DEF KnewInv, Robot
<1>3. ASSUME NEW r \in Requests, req' = [req EXCEPT ![r] = Idle], robots' = robots PROVE KnewInv'
  <2>1. ~req'[r].knew /\ req' = [req EXCEPT ![r] = req'[r]]
    BY <1>0, <1>3 DEF Idle
  <2> QED
    BY <1>2, <1>3, <2>1
<1>4. ASSUME NEW r \in Requests, NEW j \in Jobs, Send(r, j) PROVE KnewInv'
  <2>1. /\ req'[r].knew = (RobotOf[j] \in robots) /\ req'[r].job = j /\ req'[r].link = "?"
        /\ robots' = robots /\ \A q \in Requests \ {r} : req'[q] = req[q]
    BY <1>0, <1>4 DEF Send, Idle
  <2> QED
    BY <2>1 DEF KnewInv, Robot
<1>5. ASSUME NEW r \in Requests, Handle(r) PROVE KnewInv'
  <2>1. req' = [req EXCEPT ![r] = req'[r]]
    BY <1>5, HandleShaped DEF Shaped
  <2>2. CASE LookRobot(r)
    <3>1. /\ req'[r].knew = req[r].knew /\ req'[r].job = req[r].job /\ req'[r].link = Lookup(r)
          /\ robots' = robots /\ \A q \in Requests \ {r} : req'[q] = req[q]
      BY <1>0, <2>2 DEF LookRobot, RequestType
    <3> QED
      BY <3>1 DEF KnewInv, Lookup, Robot
  <2>3. CASE Authenticate(r) \/ Reject(r)
    <3>1. /\ req'[r].knew = req[r].knew /\ req'[r].job = req[r].job /\ req'[r].link = req[r].link
          /\ robots' = robots
      BY <1>0, <2>3 DEF Authenticate, Reject, RequestType
    <3> QED
      BY <1>2, <2>1, <3>1
  <2>4. CASE Insert(r) \/ Abort(r)
    <3>1. /\ req'[r].knew = req[r].knew /\ req'[r].job = req[r].job /\ req'[r].link = req[r].link
          /\ robots' = robots
      BY <1>0, <2>4 DEF Insert, Abort, RequestType
    <3> QED
      BY <1>2, <2>1, <3>1
  <2>5. CASE Conflict(r)
    BY <1>3, <2>5 DEF Conflict
  <2>6. CASE Commit(r)
    <3>1. robots \subseteq robots'
      BY <2>6 DEF Commit
    <3>2. CASE commitFirst
      <4>1. /\ req'[r].knew = req[r].knew /\ req'[r].job = req[r].job /\ req'[r].link = req[r].link
        BY <1>0, <2>6, <3>2 DEF Commit, RequestType
      <4> QED
        BY <1>2, <2>1, <3>1, <4>1
    <3>3. CASE ~commitFirst
      <4>1. ~req'[r].knew
        BY <1>0, <2>6, <3>3 DEF Commit, Idle
      <4> QED
        BY <1>2, <2>1, <3>1, <4>1
    <3> QED
      BY <3>2, <3>3
  <2>7. CASE Answer(r)
    <3>1. CASE commitFirst
      BY <1>3, <2>7, <3>1 DEF Answer
    <3>2. CASE ~commitFirst
      <4>1. /\ req'[r].knew = req[r].knew /\ req'[r].job = req[r].job /\ req'[r].link = req[r].link
            /\ robots' = robots
        BY <1>0, <2>7, <3>2 DEF Answer, RequestType
      <4> QED
        BY <1>2, <2>1, <4>1
    <3> QED
      BY <3>1, <3>2
  <2> QED
    BY <1>5, <2>2, <2>3, <2>4, <2>5, <2>6, <2>7 DEF Handle
<1>6. ASSUME NEW r \in Requests, Lose(r) PROVE KnewInv'
  BY <1>3, <1>6 DEF Lose
<1> QED
  BY <1>1, <1>4, <1>5, <1>6 DEF Next

(* Only a commit stores rows, and it stores them with the link the request *)
(* looked up.                                                              *)
LEMMA StepUnlinked ==
    ASSUME IngestInv, KnewInv, [Next]_vars, NEW e \in Events,
           stored[e] = "none", stored'[e] = "unlinked"
    PROVE  \E r \in Requests : e \in req[r].new /\ ~req[r].knew
<1>1. PICK r \in Requests : Persist(r)
  BY DEF Next, vars, Send, Lose, Handle, Authenticate, LookRobot, Reject, Insert, Abort, Conflict, Commit, Answer
<1>2. stored'[e] = IF e \in req[r].new THEN req[r].link ELSE stored[e]
  BY <1>1 DEF Persist
<1> QED
  BY <1>2 DEF KnewInv

LEMMA LogInvariance == Spec => [](IngestInv /\ NewInv)
  BY InitIngest, StepIngest, StepNew, PTL DEF Spec

(* Batches and heartbeats keep their types: no row is linked to a robot    *)
(* that was not looked up, and only known requests hold a key.             *)
THEOREM IngestTypes == Spec => []TypeOK
<1>1. IngestInv => TypeOK
  BY DEF IngestInv
<1> QED
  BY <1>1, LogInvariance, PTL

(* No retry, overlap or loss changes a stored event.                       *)
THEOREM LogAppendOnly == Spec => AppendOnly
<1>1. IngestInv /\ NewInv /\ [Next]_vars => [\A e \in Stored : stored'[e] = stored[e]]_vars
  BY StoredStep
<1> QED
  BY <1>1, LogInvariance, PTL DEF Spec, AppendOnly

(* Where the session commits before the answer is sent, an event that the  *)
(* robot is told is stored is stored.                                      *)
THEOREM ToldStored == Spec => []ToldIsStored
<1>1. Init => ToldIsStored
  BY DEF Init, ToldIsStored
<1> QED
  BY <1>1, InitIngest, LogInvariance, StepKept, StepTold, PTL DEF Spec

(* Two first heartbeats of one robot only conflict if they use two keys.   *)
THEOREM ConflictsNeedKeys == Spec => []ConflictNeedsTwoKeys
<1>1. Init => ConflictNeedsTwoKeys
  BY DEF Init, ConflictNeedsTwoKeys
<1> QED
  BY <1>1, InitIngest, LogInvariance, StepLock, StepAuth, StepConflict, PTL DEF Spec

(* A play is stored without its robot only by a request that arrived       *)
(* before the robot was registered.                                        *)
THEOREM UnlinkedUnknown == Spec => UnlinkedOnlyIfUnknown
<1>1. Init => KnewInv
  BY DEF Init, KnewInv, Idle
<1>2. IngestInv /\ KnewInv /\ [Next]_vars =>
        [\A e \in Events :
            stored[e] = "none" /\ stored'[e] = "unlinked"
            => \E r \in Requests : e \in req[r].new /\ ~req[r].knew]_vars
  BY StepUnlinked
<1> QED
  BY <1>1, <1>2, LogInvariance, StepKnew, PTL DEF Spec, UnlinkedOnlyIfUnknown
=============================================================================
