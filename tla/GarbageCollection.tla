-------------------------- MODULE GarbageCollection --------------------------
(***************************************************************************)
(* Garbage collection: the satellite's snapshot of its segments, the bloom *)
(* filter made of it (satellite/gc/bloomfilter), the sender that reads it  *)
(* from a bucket (satellite/gc/sender), and at the storage node the retain *)
(* service (storagenode/retain), the blobs and the trash                   *)
(* (storagenode/pieces, storage/filestore).  It is seen from one node and  *)
(* one satellite; a segment may have pieces elsewhere.                     *)
(*                                                                         *)
(* Nobody locks anything: while a filter is on its way and the node walks  *)
(* its blobs, pieces are uploaded, committed, exchanged by a repair and    *)
(* deleted.  What protects a live piece the filter does not know is time:  *)
(* the filter is dated with the newest segment of the snapshot, the node   *)
(* subtracts MaxTimeSkew, and a segment is committed soon after its order  *)
(* limits were made.                                                       *)
(***************************************************************************)
EXTENDS Integers, Functions

CONSTANTS
    Pieces,             \* piece ids at the node; each is stored once
    Segments, SegmentOf,
    Old,                \* segments that are there from the beginning, with their pieces
    MaxCommitInterval,  \* from an order limit to the row that has its piece
    MaxTimeSkew,
    Offset,             \* of the clock of the node to that of the satellite
    TrashExpiry,
    FalsePositives,     \* sets of pieces a filter may keep by mistake
    MaxFilters,         \* bound: filters made
    MaxTime             \* bound

None == "none"

ASSUME CollectionAssumption ==
    /\ SegmentOf \in [Pieces -> Segments]
    /\ Old \subseteq Segments
    /\ Offset \in Int
    /\ {MaxCommitInterval, MaxTimeSkew, TrashExpiry, MaxFilters, MaxTime} \subseteq Nat
    /\ FalsePositives \subseteq SUBSET Pieces
    /\ None \notin Pieces

\* 48h, 72h, and a clock that is late by at most a day.
ASSUME SkewAssumption == MaxCommitInterval - Offset <= MaxTimeSkew

VARIABLES
    now,      \* the clock of the satellite
    made,     \* filters made so far
    rows,     \* [segments in the metabase -> created_at]
    gone,     \* segments that were deleted
    status,   \* of a piece: none, limited, stored, live (in a row), dead
    limit,    \* when the order limit of a piece was created
    latest,   \* the filter that LATEST in the bucket points at, or NoFilter
    queued,   \* retain.Service.queued, or NoFilter
    walk,     \* the worker that handles a request
    blobs,    \* [pieces in blobs -> modification time]
    trash,    \* [pieces in the trash -> modification time]
    emptier,  \* the job of TrashChore that empties the trash
    restorer  \* the job that restores it: off, waiting for the other one, or on

satelliteVars == <<now, made, rows, gone, status, limit>>
trashVars == <<emptier, restorer>>
nodeVars == <<queued, walk, blobs, trash, trashVars>>
vars == <<satelliteVars, latest, nodeVars>>

Clock == now + Offset
Live == {p \in Pieces : status[p] = "live"}
With(f, p, t) == [q \in DOMAIN f \cup {p} |-> IF q = p THEN t ELSE f[q]]
Without(f, P) == Restrict(f, DOMAIN f \ P)

\* A filter and the newest segment it knows.
Filters == [keep : SUBSET Pieces, date : Int]
NoFilter == [keep |-> {}, date |-> -1]
NoWalk == [on |-> FALSE, keep |-> {}, before |-> 0, piece |-> None]
NoEmptier == [on |-> FALSE, before |-> 0, piece |-> None]

-----------------------------------------------------------------------------
(* Segments *)

\* An order limit for an upload, a repair or a graceful exit.
CreateLimit(p) ==
    /\ status[p] = "none"
    /\ status' = [status EXCEPT ![p] = "limited"]
    /\ limit' = [limit EXCEPT ![p] = now]
    /\ UNCHANGED <<now, made, rows, gone, latest, nodeVars>>

\* Endpoint.Upload: the blob is committed and its hash signed.
Upload(p) ==
    /\ status[p] = "limited"
    /\ status' = [status EXCEPT ![p] = "stored"]
    /\ blobs' = With(blobs, p, Clock)
    /\ UNCHANGED <<now, made, rows, gone, limit, latest, queued, walk, trash, trashVars>>

\* The piece was stored for an order limit that is not too old.
InTime(p) == now - limit[p] <= MaxCommitInterval

Committable(s) == {p \in Pieces : SegmentOf[p] = s /\ status[p] = "stored" /\ InTime(p)}

\* validateRemoteSegment and CommitSegment.  The row of a position that is uploaded
\* again keeps its created_at: that is UpdatePieces.
Commit(s, P) ==
    /\ s \notin DOMAIN rows \cup gone
    /\ P \subseteq Committable(s)
    /\ rows' = With(rows, s, now)
    /\ status' = [p \in Pieces |-> IF p \in P THEN "live" ELSE status[p]]
    /\ UNCHANGED <<now, made, gone, limit, latest, nodeVars>>

\* UpdateSegmentPieces by a repair or a graceful exit: pieces R go, pieces P come,
\* which were stored for limits as young as those of an upload.
UpdatePieces(s, R, P) ==
    /\ s \in DOMAIN rows
    /\ R \subseteq {p \in Live : SegmentOf[p] = s}
    /\ P \subseteq Committable(s)
    /\ R \cup P # {}
    /\ status' = [p \in Pieces |-> IF p \in R THEN "dead"
                                   ELSE IF p \in P THEN "live" ELSE status[p]]
    /\ UNCHANGED <<now, made, rows, gone, limit, latest, nodeVars>>

DeleteSegment(s) ==
    /\ s \in DOMAIN rows
    /\ rows' = Without(rows, {s})
    /\ gone' = gone \cup {s}
    /\ status' = [p \in Pieces |-> IF p \in Live /\ SegmentOf[p] = s THEN "dead"
                                   ELSE status[p]]
    /\ UNCHANGED <<now, made, limit, latest, nodeVars>>

-----------------------------------------------------------------------------
(* Filters *)

\* LatestCreationTime is that of this segment.
Newest(s) == \A t \in DOMAIN rows : rows[t] <= rows[s]

\* What PieceTracker makes of a snapshot of the segments; F are false positives.
Filter(F, date) == [keep |-> Live \cup F, date |-> date]

\* RunOnce and uploadBloomFilters.  LATEST is written last, or never.  A node without
\* a piece gets no filter.
BuildFilter(F) ==
    /\ made < MaxFilters
    /\ Live # {}
    /\ made' = made + 1
    /\ \E s \in DOMAIN rows : Newest(s) /\ latest' \in {latest, Filter(F, rows[s])}
    /\ UNCHANGED <<now, rows, gone, status, limit, nodeVars>>

\* sendRetainRequest and Endpoint.Retain: a request that waits is replaced.  The call
\* may fail.  The zip file is moved away afterwards, unless that fails.
Send ==
    /\ latest # NoFilter
    /\ queued' \in {latest, queued}
    /\ latest' \in {latest, NoFilter}
    /\ UNCHANGED <<satelliteVars, walk, blobs, trash, trashVars>>

-----------------------------------------------------------------------------
(* The node *)

\* Store.Trash: the file is moved, and its modification time is the time of it.
ToTrash(p) ==
    /\ p \in DOMAIN blobs
    /\ trash' = With(trash, p, Clock)
    /\ blobs' = Without(blobs, {p})

\* Deleter: the satellite asks for the deletion of a piece that is not used any more.
DeletePiece(p) ==
    /\ status[p] = "dead"
    /\ ToTrash(p)
    /\ UNCHANGED <<satelliteVars, latest, queued, walk, trashVars>>

\* Mutant: no room is left for the difference of the clocks.
CreatedBeforeUnskewed(request) == request.date

\* createdBefore of retainPieces
CreatedBefore(request) == request.date - MaxTimeSkew

\* A worker takes the request, when none works for the satellite.
BeginWalk ==
    /\ queued # NoFilter /\ ~walk.on
    /\ queued' = NoFilter
    /\ walk' = [NoWalk EXCEPT !.on = TRUE, !.keep = queued.keep,
                              !.before = CreatedBefore(queued)]
    /\ UNCHANGED <<satelliteVars, latest, blobs, trash, trashVars>>

\* Not in the filter, and older than it.
Garbage(p) == p \notin walk.keep /\ blobs[p] < walk.before

\* The walk comes to a blob that is garbage.  A directory is read in parts: a blob
\* that came after the beginning may be met or not.
VisitBlob(p) ==
    /\ walk.on /\ walk.piece = None
    /\ p \in DOMAIN blobs /\ Garbage(p)
    /\ walk' = [walk EXCEPT !.piece = p]
    /\ UNCHANGED <<satelliteVars, latest, queued, blobs, trash, trashVars>>

\* The blob it has looked at goes to the trash, if it is still there.  An error may
\* leave it where it was, or with a new modification time.
TrashBlob ==
    /\ walk.piece # None
    /\ walk' = [walk EXCEPT !.piece = None]
    /\ \/ ToTrash(walk.piece)
       \/ UNCHANGED <<blobs, trash>>
       \/ walk.piece \in DOMAIN blobs /\ blobs' = With(blobs, walk.piece, Clock) /\ UNCHANGED trash
    /\ UNCHANGED <<satelliteVars, latest, queued, trashVars>>

\* The walk is over, or an error ends it.
EndWalk ==
    /\ walk.on /\ walk.piece = None
    /\ walk' = NoWalk
    /\ UNCHANGED <<satelliteVars, latest, queued, blobs, trash, trashVars>>

TrashedBefore == Clock - TrashExpiry

\* TrashChore.Run: nothing is done for a satellite that has a job.
StartEmpty ==
    /\ ~emptier.on /\ restorer = "off"
    /\ emptier' = [NoEmptier EXCEPT !.on = TRUE, !.before = TrashedBefore]
    /\ UNCHANGED <<satelliteVars, latest, queued, walk, blobs, trash, restorer>>

\* EmptyTrash looks at a file that is old enough ...
VisitTrash(p) ==
    /\ emptier.on /\ emptier.piece = None
    /\ p \in DOMAIN trash /\ trash[p] < emptier.before
    /\ emptier' = [emptier EXCEPT !.piece = p]
    /\ UNCHANGED <<satelliteVars, latest, queued, walk, blobs, trash, restorer>>

\* ... and deletes the file of that name.
EmptyFile ==
    /\ emptier.piece # None
    /\ emptier' = [emptier EXCEPT !.piece = None]
    /\ trash' = Without(trash, {emptier.piece})
    /\ UNCHANGED <<satelliteVars, latest, queued, walk, blobs, restorer>>

\* It is through, or canceled.
EndEmpty ==
    /\ emptier.on /\ emptier.piece = None
    /\ emptier' = NoEmptier
    /\ UNCHANGED <<satelliteVars, latest, queued, walk, blobs, trash, restorer>>

\* TrashChore.StartRestore, unless one is running: a job that empties the trash is
\* canceled.
StartRestore ==
    /\ restorer = "off"
    /\ restorer' = "waiting"
    /\ UNCHANGED <<satelliteVars, latest, queued, walk, blobs, trash, emptier>>

\* Mutant: the job that was canceled is not waited for.
PlaceFreeAlways == TRUE

\* The work place has no other job.
PlaceFree == ~emptier.on

BeginRestore ==
    /\ restorer = "waiting" /\ PlaceFree
    /\ restorer' = "on"
    /\ UNCHANGED <<satelliteVars, latest, queued, walk, blobs, trash, emptier>>

\* RestoreTrash moves one file back, with the modification time it has.
RestoreFile(p) ==
    /\ restorer = "on"
    /\ p \in DOMAIN trash
    /\ blobs' = With(blobs, p, trash[p])
    /\ trash' = Without(trash, {p})
    /\ UNCHANGED <<satelliteVars, latest, queued, walk, trashVars>>

\* It is through, or an error ends it.
EndRestore ==
    /\ restorer = "on"
    /\ restorer' = "off"
    /\ UNCHANGED <<satelliteVars, latest, queued, walk, blobs, trash, emptier>>

\* The node stops and starts: what is in memory is forgotten.
NodeRestart ==
    /\ queued' = NoFilter /\ walk' = NoWalk
    /\ emptier' = NoEmptier /\ restorer' = "off"
    /\ UNCHANGED <<satelliteVars, latest, blobs, trash>>

Tick ==
    /\ now < MaxTime
    /\ now' = now + 1
    /\ UNCHANGED <<made, rows, gone, status, limit, latest, nodeVars>>
-----------------------------------------------------------------------------

Init ==
    /\ now = 0 /\ made = 0
    /\ rows = [s \in Old |-> 0] /\ gone = {}
    /\ status = [p \in Pieces |-> IF SegmentOf[p] \in Old THEN "live" ELSE "none"]
    /\ limit = [p \in Pieces |-> 0]
    /\ latest = NoFilter /\ queued = NoFilter
    /\ walk = NoWalk
    /\ blobs = [p \in Live |-> Clock] /\ trash = [p \in {} |-> 0]
    /\ emptier = NoEmptier /\ restorer = "off"

Segment(s) ==
    \/ \E P \in SUBSET Pieces : Commit(s, P)
    \/ \E R, P \in SUBSET Pieces : UpdatePieces(s, R, P)
    \/ DeleteSegment(s)

Filtering ==
    \/ \E F \in FalsePositives : BuildFilter(F)
    \/ Send

Trashing ==
    \/ StartEmpty \/ EmptyFile \/ EndEmpty
    \/ StartRestore \/ BeginRestore \/ EndRestore
    \/ \E p \in Pieces : VisitTrash(p) \/ RestoreFile(p)

Next ==
    \/ \E p \in Pieces : CreateLimit(p) \/ Upload(p) \/ DeletePiece(p) \/ VisitBlob(p)
    \/ \E s \in Segments : Segment(s)
    \/ Filtering
    \/ BeginWalk \/ TrashBlob \/ EndWalk
    \/ Trashing
    \/ NodeRestart \/ Tick

Spec == Init /\ [][Next]_vars

-----------------------------------------------------------------------------
(* Properties *)

IsFiles(f) == DOMAIN f \subseteq Pieces /\ \A p \in DOMAIN f : f[p] \in Int

\* The state has its types, and no file is visited by a job that is not on; the trash
\* is never emptied and restored at once.
TypeOK ==
    /\ now \in Nat /\ made \in Nat
    /\ DOMAIN rows \subseteq Segments /\ \A s \in DOMAIN rows : rows[s] \in Nat
    /\ gone \subseteq Segments
    /\ status \in [Pieces -> {"none", "limited", "stored", "live", "dead"}]
    /\ limit \in [Pieces -> Nat]
    /\ latest \in Filters /\ queued \in Filters
    /\ walk \in [on : BOOLEAN, keep : SUBSET Pieces, before : Int, piece : Pieces \cup {None}]
    /\ IsFiles(blobs) /\ IsFiles(trash)
    /\ emptier \in [on : BOOLEAN, before : Int, piece : Pieces \cup {None}]
    /\ restorer \in {"off", "waiting", "on"}
    /\ walk.piece # None => walk.on
    /\ emptier.piece # None => emptier.on
    /\ ~(emptier.on /\ restorer = "on")

\* A piece that a segment has is among the blobs of the node, whatever filters were
\* made before it was committed, however long they were on their way or waited, and
\* although a walk decides on a blob and trashes it in two steps.
LivePiecesKept == Live \subseteq DOMAIN blobs

\* A piece stays in the trash for TrashExpiry, where it can be restored from, also
\* when the trash is emptied and restored at the same time.
TrashKept ==
    [][\A p \in DOMAIN trash \ (DOMAIN trash' \cup DOMAIN blobs') :
          trash[p] < Clock - TrashExpiry]_vars
=============================================================================
