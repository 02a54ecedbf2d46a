---------------------------- MODULE SessionRelay ----------------------------
(***************************************************************************)
(* The live view of one robot (routes/sessions.py): its sessions and       *)
(* audience samples in the database, and the last frame, sensor report and *)
(* utterance in the memory of the process, which no transaction covers.    *)
(* Each request awaits between its steps: it finds a session, and acts on  *)
(* what it found later.  Requests of one fleet key run one after another,  *)
(* because authentication locks the row of the key (auth.py).              *)
(*                                                                         *)
(* A start may name a display.  Only then it counts the items of that      *)
(* display, and refuses a campaign if there is more than one; a start that *)
(* names none takes a campaign whatever the robot is showing.              *)
(*                                                                         *)
(* Which rows two writers of sessions wait for, and which of them fails,   *)
(* is RobotWindows' matter: here a writer waits for the one before it, and *)
(* any request may fail at any time.                                       *)
(***************************************************************************)
EXTENDS Naturals, FiniteSets, AudienceRollup

CONSTANTS
    Keys, Requests,
    Displays,      \* displays the robot can be assigned to
    Moments,       \* audience moments the robot has measured
    MomentOf,      \* their track, kind and tier
    MaxSessions, MaxSends, MaxEdits,     \* bounds
    None

Posts == {"speak", "frame", "moments"}
Kinds == {"start", "stop", "current"} \cup Posts
Sessions == 1..MaxSessions
NoSession == 0

ASSUME RelayAssumption ==
    /\ MaxSessions \in Nat /\ MaxSends \in Nat /\ MaxEdits \in Nat
    /\ None \notin Keys \cup Requests \cup Displays \cup Moments \cup Kinds
    /\ IsFiniteSet(Moments)
    /\ MomentOf \in [Moments -> [track : Nat, kind : {"passerby", "dwell", "close_approach"},
                                 tier : {"none", "engaged", "deep"}]]

VARIABLES
    sessions,      \* committed sessions, in the order they were started
    loops,         \* displays whose playlist has more than one item
    shown,         \* the display of the robot's open assignment
    samples,       \* the session a committed sample was stamped with
    credited,      \* committed samples that carry the session's campaign
    ram,           \* the session under which each entry in memory was posted
    fresh,         \* the utterance in memory is younger than its time to live
    req,           \* a request: its stage and locals
    sends, edits,
    keysUsed       \* history: keys of the requests so far

database == <<sessions, loops, shown, samples, credited>>
memory   == <<ram, fresh>>
counters == <<sends, edits, keysUsed>>
vars == <<database, memory, req, counters>>

\* display: the one the start named; bound: the session has a campaign; grown:
\* history, the display began to loop after the start had counted its items.
Session == [state : {"none", "open", "stopped", "replaced"}, display : Displays \cup {None},
            bound : BOOLEAN, blended : BOOLEAN, grown : BOOLEAN]
Absent == [state |-> "none", display |-> None, bound |-> FALSE, blended |-> FALSE,
           grown |-> FALSE]

\* seen: the session a stop or a post has found; wasOpen: that session was open, or
\* the robot was already assigned to the display of a start; moments: what it has
\* to insert, later what it has inserted; row: the session a start will insert.
Idle == [stage |-> "idle", kind |-> None, key |-> None, seen |-> NoSession,
         wasOpen |-> FALSE, moments |-> {}, row |-> Absent]

Empty == [frame |-> NoSession, sensor |-> NoSession, speech |-> NoSession]

TypeOK ==
    /\ sessions \in [Sessions -> Session]
    /\ Cardinality({s \in Sessions : sessions[s].state = "open"}) <= 1
    /\ \A s \in Sessions : sessions[s].bound => ~sessions[s].blended
    /\ loops \subseteq Displays /\ shown \in Displays \cup {None}
    /\ samples \in [Moments -> Sessions \cup {NoSession}]
    /\ \A m \in Moments : samples[m] # NoSession => sessions[samples[m]].state # "none"
    /\ credited \subseteq {m \in Moments : samples[m] # NoSession}
    /\ ram \in [{"frame", "sensor", "speech"} -> Sessions \cup {NoSession}]
    /\ fresh \in BOOLEAN
    /\ req \in [Requests -> [stage : {"idle", "act", "commit"},
                             kind : Kinds \cup {None}, key : Keys \cup {None},
                             seen : Sessions \cup {NoSession},
                             wasOpen : BOOLEAN, moments : SUBSET Moments, row : Session]]
    /\ sends \in 0..MaxSends /\ edits \in 0..MaxEdits /\ keysUsed \subseteq Keys

Init ==
    /\ sessions = [s \in Sessions |-> Absent]
    /\ loops \in SUBSET Displays /\ shown \in Displays \cup {None}
    /\ samples = [m \in Moments |-> NoSession]
    /\ credited = {}
    /\ ram = Empty /\ fresh = FALSE
    /\ req = [r \in Requests |-> Idle]
    /\ sends = 0 /\ edits = 0 /\ keysUsed = {}

----------------------------------------------------------------------------
(* The callers, and how a request begins and ends.                         *)

Started == {s \in Sessions : sessions[s].state # "none"}
OpenSession == LET open == {s \in Sessions : sessions[s].state = "open"}
               IN IF open = {} THEN NoSession ELSE CHOOSE s \in open : TRUE

\* Mutant of KeyFree: last_used_at is not bumped, so no row lock is taken.
KeyNotLocked(key) == TRUE

KeyFree(key) == \A r \in Requests : req[r].key # key

\* A request gets its key and finds what it needs; one that does not is answered
\* with a 404 or 409 and changes nothing.
Begin(r, found) ==
    /\ req[r].stage = "idle" /\ sends < MaxSends
    /\ sends' = sends + 1
    /\ \E key \in Keys :
          /\ KeyFree(key)
          /\ keysUsed' = keysUsed \cup {key}
          /\ req' = [req EXCEPT ![r] = [found EXCEPT !.stage = "act", !.key = key]]
    /\ UNCHANGED <<database, memory, edits>>

\* A request that fails, or whose caller or process goes: rolled back.
Drop(r) ==
    /\ req[r].stage # "idle"
    /\ req' = [req EXCEPT ![r] = Idle]
    /\ UNCHANGED <<database, memory, counters>>

\* The process restarts: what it kept in memory is gone.
Restart ==
    /\ ram' = Empty /\ fresh' = FALSE
    /\ req' = [r \in Requests |-> Idle]
    /\ UNCHANGED <<database, counters>>

\* The utterance grows older than its time to live.
Age == fresh /\ fresh' = FALSE /\ UNCHANGED <<database, ram, req, counters>>

\* Someone edits the playlist of a display.  Starts that have counted its items and
\* sessions that were started do not learn of it.
EditPlaylist(d) ==
    LET grows == d \notin loops
        After(row) == [row EXCEPT !.grown = @ \/ (grows /\ row.display = d)]
    IN  /\ edits < MaxEdits /\ edits' = edits + 1
        /\ loops' = IF grows THEN loops \cup {d} ELSE loops \ {d}
        /\ sessions' = [s \in Sessions |-> After(sessions[s])]
        /\ req' = [r \in Requests |-> [req[r] EXCEPT !.row = After(@)]]
        /\ UNCHANGED <<shown, samples, credited, memory, sends, keysUsed>>

----------------------------------------------------------------------------
(* What a request reads.                                                   *)

\* Mutant of IsBlended: the items of the display are not counted.
IsBlendedNever(d) == FALSE

\* The display that was named, if any, has more than one item.
IsBlended(d) == d \in loops

\* Mutant of MayBind: a blended session takes a campaign too.
MayBindAlways(ad, d) == TRUE

MayBind(ad, d) == ~(ad /\ IsBlended(d))

\* start, with or without a campaign, with or without a display.
ReadStart(r) ==
    \E ad \in BOOLEAN, d \in Displays \cup {None} :
        /\ MayBind(ad, d)
        /\ Begin(r, [Idle EXCEPT !.kind = "start",
                       !.row = [state |-> "open", display |-> d, bound |-> ad,
                                blended |-> IsBlended(d), grown |-> FALSE]])

\* stop reads the session it names, open or not, or the open one of the robot.
ReadStop(r) ==
    \E s \in Started :
        Begin(r, [Idle EXCEPT !.kind = "stop", !.seen = s, !.wasOpen = s = OpenSession])

\* speak, frame and moments need an open session, and current looks for one.  An
\* upload without moments may carry a sensor report.
ReadOpen(r) ==
    /\ OpenSession # NoSession
    /\ \E kind \in Posts \cup {"current"}, ms \in SUBSET Moments :
          /\ ms # {} => kind = "moments"
          /\ Begin(r, [Idle EXCEPT !.kind = kind, !.seen = OpenSession, !.moments = ms])

----------------------------------------------------------------------------
(* What it does with what it has read, without looking again.              *)

Acting(r, kind) == req[r].stage = "act" /\ req[r].kind = kind

\* A request with a session row it has written and not committed.
Writer(r) == /\ req[r].stage = "commit"
             /\ req[r].kind = "start" \/ (req[r].kind = "stop" /\ req[r].wasOpen)

NoWriter == \A r \in Requests : ~Writer(r)

ToCommit(r) == [req EXCEPT ![r].stage = "commit"]

\* A start with a display writes the assignment, unless it is there, then the session.
Start(r) ==
    /\ Acting(r, "start") /\ NoWriter
    /\ Cardinality(Started) < MaxSessions
    /\ req' = [req EXCEPT ![r].stage = "commit", ![r].wasOpen = req[r].row.display = shown]
    /\ UNCHANGED <<database, memory, counters>>

Assigns(r) == /\ req[r].stage = "commit" /\ req[r].kind = "start"
              /\ req[r].row.display # None /\ ~req[r].wasOpen

\* The portal assigns the robot to another display or to none, after a start that is
\* about to.
Assign(d) ==
    /\ edits < MaxEdits /\ edits' = edits + 1
    /\ d # shown /\ \A r \in Requests : ~Assigns(r)
    /\ shown' = d
    /\ UNCHANGED <<sessions, loops, samples, credited, memory, req, sends, keysUsed>>

\* Mutant of Dropped: the utterance is kept.
DroppedFrame == [ram EXCEPT !.frame = NoSession, !.sensor = NoSession]

\* What a stop leaves in memory.
Dropped == Empty

\* The entries go before the transaction is committed, and even if the session had
\* been stopped before.
Stop(r) ==
    /\ Acting(r, "stop") /\ (req[r].wasOpen => NoWriter)
    /\ req' = ToCommit(r)
    /\ ram' = Dropped
    /\ UNCHANGED <<database, fresh, counters>>

Speak(r) ==
    /\ Acting(r, "speak")
    /\ ram' = [ram EXCEPT !.speech = req[r].seen]
    /\ fresh' = TRUE
    /\ req' = ToCommit(r)
    /\ UNCHANGED <<database, counters>>

\* The body of the upload has arrived.
PostFrame(r) ==
    /\ Acting(r, "frame")
    /\ ram' = [ram EXCEPT !.frame = req[r].seen]
    /\ req' = ToCommit(r)
    /\ UNCHANGED <<database, fresh, counters>>

\* The robot polls: an utterance that is too old is dropped.
Current(r) ==
    /\ Acting(r, "current")
    /\ ram' = IF fresh THEN ram ELSE [ram EXCEPT !.speech = NoSession]
    /\ req' = ToCommit(r)
    /\ UNCHANGED <<database, fresh, counters>>

\* Mutant of Unknown: a moment that is sent again replaces the one stored.
UnknownAlways(ms) == ms

\* ON CONFLICT DO NOTHING: a moment that is stored stays as it is.
Unknown(ms) == {m \in ms : samples[m] = NoSession}

\* The sensor report, if any, then the INSERTs, which wait for whoever has inserted
\* one of the same moments.
PostMoments(r) ==
    /\ Acting(r, "moments")
    /\ \A q \in Requests \ {r} : req[q].stage = "commit" => req[q].moments \cap req[r].moments = {}
    /\ \E reported \in BOOLEAN :
          ram' = IF reported THEN [ram EXCEPT !.sensor = req[r].seen] ELSE ram
    /\ req' = [req EXCEPT ![r].stage = "commit", ![r].moments = Unknown(@)]
    /\ UNCHANGED <<database, fresh, counters>>

----------------------------------------------------------------------------
(* COMMIT.                                                                 *)

Carries(s) == sessions[s].bound /\ ~sessions[s].blended

\* A start replaces the open session and the assignment, a stop ends the session it
\* has read, samples get the session and the campaign that were read.
Commit(r) ==
    /\ req[r].stage = "commit"
    /\ sessions' = CASE req[r].kind = "start" ->
                          [s \in Sessions |->
                              IF s = Cardinality(Started) + 1 THEN req[r].row
                              ELSE IF s = OpenSession THEN [sessions[s] EXCEPT !.state = "replaced"]
                              ELSE sessions[s]]
                     [] Writer(r) /\ req[r].kind = "stop" ->
                          [sessions EXCEPT ![req[r].seen].state = "stopped"]
                     [] OTHER -> sessions
    /\ shown' = IF Assigns(r) THEN req[r].row.display ELSE shown
    /\ samples' = [m \in Moments |-> IF m \in req[r].moments THEN req[r].seen ELSE samples[m]]
    /\ credited' = IF req[r].kind = "moments" /\ Carries(req[r].seen)
                   THEN credited \cup req[r].moments ELSE credited
    /\ req' = [req EXCEPT ![r] = Idle]
    /\ UNCHANGED <<loops, memory, counters>>

----------------------------------------------------------------------------

Handle(r) ==
    \/ ReadStart(r) \/ ReadStop(r) \/ ReadOpen(r)
    \/ Start(r) \/ Stop(r) \/ Speak(r) \/ PostFrame(r) \/ Current(r) \/ PostMoments(r)
    \/ Commit(r)

Next ==
    \/ \E r \in Requests : Handle(r) \/ Drop(r)
    \/ \E d \in Displays : EditPlaylist(d)
    \/ \E d \in Displays \cup {None} : Assign(d)
    \/ Restart \/ Age

Spec == Init /\ [][Next]_vars

----------------------------------------------------------------------------
(* Properties.                                                             *)

\* Frames are dropped on stop, and no stale utterance is spoken (sessions.py 12
\* and 75-80): with one fleet key, memory holds nothing of a session that was
\* stopped, and nothing at all unless some session is open.  A request that found
\* a session and was overtaken by its stop does not bring an entry back.
RamFollowsSession ==
    Cardinality(keysUsed) <= 1 =>
        \A e \in DOMAIN ram :
            ram[e] # NoSession => OpenSession # NoSession /\ sessions[ram[e]].state # "stopped"

\* The dwell of a looping display is credited to a campaign (audience.py 12-14)
\* only where the start could not know: it did not name the display the robot is
\* showing (it named none, or the robot was assigned to another one since), or the
\* playlist of that display began to loop after its items had been counted.
BlendedOnlyIfUncounted ==
    [][\A m \in credited' \ credited :
          LET s == sessions[samples'[m]]
          IN  shown \in loops => s.display # shown \/ s.grown]_credited

\* The rows of audience_samples.
Rows == {[moment |-> m, session |-> samples[m], track |-> MomentOf[m].track,
          kind |-> MomentOf[m].kind, tier |-> MomentOf[m].tier]
         : m \in {x \in Moments : samples[x] # NoSession}}

\* The sessions a report on the campaign adds up.
CampaignSessions == {s \in Sessions : sessions[s].bound}

\* What the panel and the reports have shown is never taken back: uploads that are
\* repeated, late or sent in another session lower no count of any session, and
\* none of its campaign.
CountsNeverShrink ==
    [][\/ UNCHANGED <<sessions, samples>>      \* which TLC then need not add up
       \/ LET before == Rollup(Rows, CampaignSessions)
              after == Rollup(Rows', CampaignSessions')
          IN \A c \in Counts :
                /\ before[c] <= after[c]
                /\ \A s \in Sessions :
                      SessionTiles(Rows, s)[c] <= SessionTiles(Rows', s)[c]]_<<sessions, samples>>
=============================================================================
