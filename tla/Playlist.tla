------------------------------ MODULE Playlist ------------------------------
(***************************************************************************)
(* The items of one custom display, and the requests that edit them: with  *)
(* a fleet key, add, load-preset, delete, reorder and patch                *)
(* (routes/audience.py); in the portal, the replacement of the whole list  *)
(* (routes/oem.py).  Nothing in the schema makes the positions unique.     *)
(*                                                                         *)
(* Each request is one READ COMMITTED transaction: it reads the items,     *)
(* works out positions, and writes rows by primary key, one after another, *)
(* waiting for rows that another transaction has written.  Requests of one *)
(* key run one after another; the portal takes no key.                     *)
(***************************************************************************)
EXTENDS Naturals, FiniteSets, FiniteSetsExt, Functions

CONSTANTS
    Items,         \* item ids: numbers, in the order in which rows are written
    First,         \* positions of the items the display was created with
    Jobs,          \* requests, each made at most once
    Kind,
    Names,         \* the item a delete or a patch names
    Brings,        \* the items a request brings, with their order
    KeyOf,         \* the fleet key of a request; the portal uses none
    MaxRequests,   \* bound on the requests of a behaviour
    None

Kinds == {"add", "preset", "delete", "reorder", "patch", "replace"}

\* Some items, each with a position.
IsPlaylist(p) == DOMAIN p \subseteq Items /\ p \in [DOMAIN p -> Nat]

\* Positions 0, 1, 2, ... without a gap or a repetition.
Dense(p) == Range(p) = {n - 1 : n \in 1..Cardinality(DOMAIN p)}

ASSUME PlaylistAssumption ==
    /\ Items \subseteq Nat /\ MaxRequests \in Nat
    /\ IsPlaylist(First) /\ IsFiniteSet(DOMAIN First) /\ Dense(First)
    /\ Kind \in [Jobs -> Kinds]
    /\ \A j \in Jobs : /\ Kind[j] = "replace" <=> KeyOf[j] = None
                       /\ Kind[j] \in {"delete", "patch"} => Names[j] \in Items
                       /\ IsPlaylist(Brings[j]) /\ IsFiniteSet(DOMAIN Brings[j])
                       /\ DOMAIN Brings[j] \cap DOMAIN First = {}
                       /\ Dense(Brings[j])
    /\ \A j, q \in Jobs : j # q => DOMAIN Brings[j] \cap DOMAIN Brings[q] = {}

VARIABLES
    rows,          \* committed items and their positions
    req,           \* a request: its stage and locals
    overlapped     \* history: an edit committed during another that committed

vars == <<rows, req, overlapped>>

Nothing == [i \in {} |-> 0]

\* left: rows its statement has still to write, many: it had several; want: their
\* new positions; held: rows it has written, of which it has deleted gone; put:
\* positions it has given; alone: history, no other edit has committed meanwhile.
Unsent == [stage |-> "new", left |-> {}, many |-> FALSE, want |-> Nothing,
           held |-> {}, gone |-> {}, put |-> Nothing, alone |-> TRUE]
Over == [Unsent EXCEPT !.stage = "done"]

TypeOK ==
    /\ IsPlaylist(rows)
    /\ overlapped \in BOOLEAN
    /\ \A j \in Jobs :
          /\ req[j].stage \in {"new", "delete", "pack", "update", "commit", "done"}
          /\ IsPlaylist(req[j].want) /\ IsPlaylist(req[j].put)
          /\ req[j].gone \subseteq req[j].held \ DOMAIN req[j].put
          /\ req[j].left \cup req[j].held \subseteq Items
          /\ req[j].many \in BOOLEAN /\ req[j].alone \in BOOLEAN
    /\ \A j, q \in Jobs : j # q => req[j].held \cap req[q].held = {}

Init ==
    /\ rows = First
    /\ req = [j \in Jobs |-> Unsent]
    /\ overlapped = FALSE

----------------------------------------------------------------------------
(* Positions.                                                              *)

Present == DOMAIN rows

\* The list in its order: by position, and in some order among equal positions.
Orders(p) ==
    LET tied == {i \in DOMAIN p : \E k \in DOMAIN p \ {i} : p[i] = p[k]}
        ranks == {t \in [tied -> 1..Cardinality(tied)] : IsInjective(t)}
    IN {[i \in DOMAIN p |-> Cardinality({k \in DOMAIN p :
            p[k] < p[i] \/ (k # i /\ p[k] = p[i] /\ t[k] < t[i])})] : t \in ranks}

\* The lists a reorder may ask for: up and down by id, so that every row moves.
Lists(s) == {[i \in s |-> Cardinality({k \in s : k < i})],
             [i \in s |-> Cardinality({k \in s : k > i})]}

\* Mutant of NextPosition: the largest position itself.
LastPosition(p) == IF DOMAIN p = {} THEN 0 ELSE Max(Range(p))

\* One more than the largest position.
NextPosition(p) == IF DOMAIN p = {} THEN 0 ELSE Max(Range(p)) + 1

\* Rows whose position changes: the others are not written.
Changed(p, want) == {i \in DOMAIN want : want[i] # p[i]}

\* A list after some of its items were placed, and some were deleted.
Placing(put, p) == [i \in DOMAIN put \cup DOMAIN p |->
                       IF i \in DOMAIN put THEN put[i] ELSE p[i]]
Without(p, s) == Restrict(p, DOMAIN p \ s)

----------------------------------------------------------------------------
(* Requests.                                                               *)

Active(j) == req[j].stage \notin {"new", "done"}
Begun == {j \in Jobs : req[j].stage # "new"}

\* Mutant of KeyFree: last_used_at is not bumped, so no row lock is taken.
KeyNotLocked(j) == TRUE

KeyFree(j) == KeyOf[j] = None \/ \A q \in Jobs : KeyOf[q] = KeyOf[j] => ~Active(q)

\* The transactions that have written a row.
Writers(j, i) == {q \in Jobs \ {j} : i \in req[q].held}

Begin(j, local) ==
    /\ req[j].stage = "new"
    /\ Cardinality(Begun) < MaxRequests
    /\ KeyFree(j)
    /\ req' = [req EXCEPT ![j] = local]
    /\ UNCHANGED <<rows, overlapped>>

\* The items a request brings, numbered from a position on.
Placed(j, start) == [i \in DOMAIN Brings[j] |-> start + Brings[j][i]]

\* add and load-preset put their items behind those they read.
Append(j) ==
    Begin(j, [Unsent EXCEPT !.stage = "commit", !.put = Placed(j, NextPosition(rows))])

Add(j) == Kind[j] = "add" /\ Append(j)

LoadPreset(j) == Kind[j] = "preset" /\ Append(j)

\* delete first deletes the item it names, whether or not there is one.
Delete(j) ==
    /\ Kind[j] = "delete"
    /\ Begin(j, [Unsent EXCEPT !.stage = "delete", !.left = {Names[j]} \cap Present])

\* The portal deletes every item there is.
Replace(j) ==
    /\ Kind[j] = "replace"
    /\ Begin(j, [Unsent EXCEPT !.stage = "delete", !.left = Present])

\* The request once it knows which rows to write.
Writing(local, p, want) ==
    LET changed == Changed(p, want)
    IN [local EXCEPT !.stage = IF changed = {} THEN "commit" ELSE "update",
                     !.want = want, !.left = changed, !.many = Cardinality(changed) > 1]

\* reorder is refused unless it lists exactly the items it reads.
Reorder(j) ==
    /\ Kind[j] = "reorder"
    /\ \E want \in Lists(Present) : Begin(j, Writing(Unsent, rows, want))

\* patch changes how long an item is shown, not where it stands.
Patch(j) ==
    /\ Kind[j] = "patch" /\ Names[j] \in Present
    /\ Begin(j, [Unsent EXCEPT !.stage = "update", !.left = {Names[j]}])

\* A row is deleted, unless it is gone by now; then a delete packs what is left and
\* a replace inserts its own items.
DeleteRow(j) ==
    /\ req[j].stage = "delete"
    /\ IF req[j].left = {}
       THEN req' = [req EXCEPT ![j] =
                IF Kind[j] = "delete" THEN [req[j] EXCEPT !.stage = "pack"]
                ELSE [req[j] EXCEPT !.stage = "commit", !.put = Placed(j, 0)]]
       ELSE \E i \in req[j].left :
               /\ Writers(j, i) = {}
               /\ req' = [req EXCEPT ![j] =
                     [req[j] EXCEPT !.left = req[j].left \ {i},
                                    !.held = req[j].held \cup ({i} \cap Present),
                                    !.gone = req[j].gone \cup ({i} \cap Present)]]
    /\ UNCHANGED <<rows, overlapped>>

\* Mutant of Packed: the deleted item still holds its position.
PackedWithGap(j) == {Without(rows, req[j].gone)}

\* Mutant of Packed: the items are read before the delete.
PackedBefore(j) == Orders(rows)

\* The positions that close the gap.
Packed(j) == Orders(Without(rows, req[j].gone))

\* The second statement of a delete reads the items as they are now.
Pack(j) ==
    /\ req[j].stage = "pack"
    /\ \E want \in Packed(j) :
          req' = [req EXCEPT ![j] = Writing(req[j], rows, want)]
    /\ UNCHANGED <<rows, overlapped>>

\* UPDATE by primary key, in the order of the keys.  A row that is gone makes the
\* flush fail, if it was the only one; among several the driver may not report it.
Update(j) ==
    /\ req[j].stage = "update" /\ Writers(j, Min(req[j].left)) = {}
    /\ LET i == Min(req[j].left)
           rest == [req[j] EXCEPT !.left = req[j].left \ {i},
                                  !.stage = IF req[j].left = {i} THEN "commit" ELSE "update"]
           moved == Restrict(req[j].want, {i} \cap DOMAIN req[j].want)
       IN \/ /\ i \in Present
             /\ req' = [req EXCEPT ![j] = [rest EXCEPT !.held = req[j].held \cup {i},
                                                       !.put = Placing(moved, req[j].put)]]
          \/ i \notin Present /\ req' = [req EXCEPT ![j] = Over]
          \/ i \notin Present /\ req[j].many /\ req' = [req EXCEPT ![j] = rest]
    /\ UNCHANGED <<rows, overlapped>>

\* Rolled back: the victim of a deadlock, or lost with its connection.
Fail(j) ==
    /\ Active(j)
    /\ req' = [req EXCEPT ![j] = Over]
    /\ UNCHANGED <<rows, overlapped>>

Commit(j) ==
    /\ req[j].stage = "commit"
    /\ rows' = Placing(req[j].put, Without(rows, req[j].gone))
    /\ overlapped' = (overlapped \/ ~req[j].alone)
    /\ req' = [q \in Jobs |-> IF q = j THEN Over
                              ELSE IF Active(q) THEN [req[q] EXCEPT !.alone = FALSE]
                              ELSE req[q]]

----------------------------------------------------------------------------

Next ==
    \E j \in Jobs :
        \/ Add(j) \/ LoadPreset(j) \/ Delete(j) \/ Replace(j) \/ Reorder(j) \/ Patch(j)
        \/ DeleteRow(j) \/ Pack(j) \/ Update(j) \/ Fail(j) \/ Commit(j)

Spec == Init /\ [][Next]_vars

----------------------------------------------------------------------------
(* Properties.                                                             *)

\* The loop order is dense (audience.py 333): items stand at 0, 1, 2, ... unless two
\* edits that both committed overlapped in time, which takes two keys or the portal.
DenseUnlessOverlapped ==
    LET keys == {KeyOf[j] : j \in Begun}
    IN ~Dense(rows) => overlapped /\ (Cardinality(keys) > 1 \/ None \in keys)

SameOrder(p, f) == \A i, k \in DOMAIN f : p[i] < p[k] => f[i] < f[k]

\* Whatever overlapping edits left behind, an edit that writes the whole order and
\* that no other one overlaps makes it dense again, and a delete keeps the order of
\* the items that stay.
RepackRepairs ==
    [][\A j \in Jobs :
          /\ req[j].stage = "commit" /\ req[j].alone /\ rows' # rows /\ req'[j] = Over
          /\ Kind[j] \in {"delete", "reorder", "replace"}
          => Dense(rows') /\ (Kind[j] = "delete" => SameOrder(rows, rows'))]_vars
=============================================================================
