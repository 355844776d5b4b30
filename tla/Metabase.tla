------------------------------ MODULE Metabase ------------------------------
(***************************************************************************)
(* The metabase of a satellite (satellite/metabase): the three tables that *)
(* say which objects exist, where their segments are, and which objects    *)
(* are server-side copies that read their pieces through another object.   *)
(*                                                                         *)
(* A table is a partial function keyed by what identifies a row:           *)
(*   objects   stream_id             -> location, version, status, ...     *)
(*   segments  stream_id, position   -> root piece, pieces, inline, ...    *)
(*   copies    stream_id             -> ancestor_stream_id                 *)
(* stream_id is a random UUID made by the satellite for every upload and   *)
(* every copy: it is drawn here from a counter and so never reused.  The   *)
(* declared key of objects, (location, version), is a checked property.    *)
(*                                                                         *)
(* One action is one transaction (CockroachDB runs them serializably).     *)
(* What the code does in several transactions is several actions with the  *)
(* state it carries from one to the next: begin and finish of a copy or a  *)
(* move, the read and the compare-and-swap of a repair, the SELECT and the *)
(* DELETE of the zombie and expiration chores, and the aborted attempts of *)
(* a commit that the transaction helper runs again.  A request that the    *)
(* code refuses changes nothing and is not a step.                         *)
(*                                                                         *)
(* Configuration: the server-side copy and multiple versions flags are at  *)
(* their production default, true.                                         *)
(***************************************************************************)
EXTENDS Integers, FiniteSets, Functions

CONSTANTS
    Locations,    \* object locations (project, bucket, key)
    BucketOf,     \* [Locations -> bucket]
    KeyOf,        \* [Locations -> Nat], the order of (project, bucket, key)
    Positions,    \* segment positions
    MaxStream,    \* bound: stream ids that may be drawn
    MaxVersion,   \* bound: object versions
    MaxTime,      \* bound: clock ticks
    MaxPieces,    \* bound: piece lists a segment may have (upload + repairs)
    Attempts,     \* uploads of one position a client may race, each its own root piece
    Kinds,        \* kinds of segment clients upload, a subset of {"remote", "inline"}
    Handshakes,   \* two-step requests clients use, a subset of {"copy", "move"}
    Expirations,  \* expires_at values clients ask for, a subset of 1..MaxTime
    ZombieAfter,  \* defaultZombieDeletionPeriod, in ticks
    InactiveFor,  \* zombiedeletion.Config.InactiveFor, in ticks
    BatchSize,    \* DeleteBucketObjects.BatchSize
    ListLimit,    \* ListLimit of the zombie and expiration chores
    \* What clients and the database are allowed to do:
    MixedKinds,   \* a position is uploaded again with the other kind
    CommitRace,   \* an upload is committed between the SELECT and the DELETE of
                  \* the zombie chore
    MoveCopyRace, \* a copy is finished at the place its source was moved to
    TxRetries     \* the database aborts a transaction, which is run again

ASSUME BoundsAssumption ==
    /\ MaxStream \in Nat /\ MaxVersion \in Nat /\ MaxTime \in Nat
    /\ MaxPieces \in Nat \ {0} /\ ZombieAfter \in Nat /\ InactiveFor \in Nat
    /\ BatchSize \in Nat \ {0} /\ ListLimit \in Nat \ {0}
    /\ Expirations \subseteq 1..MaxTime
    /\ Kinds \subseteq {"remote", "inline"}
    /\ Handshakes \subseteq {"copy", "move"}
    /\ IsFiniteSet(Positions)
    /\ KeyOf \in [Locations -> Nat]
    /\ \A l, m \in Locations : KeyOf[l] = KeyOf[m] => l = m
ASSUME SwitchesAssumption ==
    {MixedKinds, CommitRace, MoveCopyRace, TxRetries} \subseteq BOOLEAN

VARIABLES
    objects,       \* table objects
    segments,      \* table segments
    copies,        \* table segment_copies
    nextStream,    \* the next stream id uuid.New returns
    now,           \* the clock
    deletedPieces, \* root piece ids handed to the storage nodes for deletion
    begun,         \* what BeginCopyObject/BeginMoveObject last told a client
    repair,        \* segments read by a repair that is in progress
    zombies,       \* the pass of the zombie deletion chore
    expired,       \* the pass of the expiration chore
    aborted        \* deletedSegments collected by aborted attempts of CommitObject

tables == <<objects, segments, copies>>
requests == <<begun, repair, aborted>>
chores == <<zombies, expired>>
vars == <<tables, nextStream, now, deletedPieces, requests, chores>>

-----------------------------------------------------------------------------
(* Rows *)

Streams == 1..MaxStream
Versions == 1..MaxVersion
Never == MaxTime + 1                   \* expires_at IS NULL
NoRoot == <<0, 0, 0>>                  \* storx.PieceID{}
Roots == {<<s, p, a>> : s \in Streams, p \in Positions, a \in Attempts}
NoPieces == 0                          \* remote_alias_pieces is empty

ObjectRow == [loc : Locations, version : Versions,
              status : {"pending", "committed"},
              expires : 1..Never,      \* expires_at
              deadline : Nat,          \* zombie_deletion_deadline, 0 when NULL
              count : Nat]             \* segment_count

SegmentRow == [root : Roots \cup {NoRoot},      \* root_piece_id
               pieces : NoPieces..MaxPieces,    \* remote_alias_pieces
               inline : BOOLEAN,                \* inline_data is not empty
               redundancy : BOOLEAN,            \* redundancy is not zero
               created : 0..MaxTime]            \* created_at

Handle == [stream : Streams, loc : Locations, version : Versions]
ChorePass == [batch : SUBSET Handle,   \* selected, not yet deleted
              last : SUBSET Handle,    \* the batch before, the cursor of the pass
              at : 0..MaxTime]         \* when the pass started
BeginResult == [stream : Streams, loc : Locations, version : Versions,
                keys : SUBSET Positions]
RepairRead == [stream : Streams, pos : Positions, pieces : 1..(MaxPieces - 1)]

At(l) == {s \in DOMAIN objects : objects[s].loc = l}
Pending(s) == s \in DOMAIN objects /\ objects[s].status = "pending"
Committed(s) == s \in DOMAIN objects /\ objects[s].status = "committed"
CommittedAt(l) == {s \in At(l) : Committed(s)}
Unexpired(s) == objects[s].expires > now
SegmentsOf(s) == {p \in Positions : <<s, p>> \in DOMAIN segments}

\* coalesce(max(version) + 1, 1) over the rows of a location.
IsNextVersion(l, v) ==
    /\ v \in Versions
    /\ \A s \in At(l) : objects[s].version < v
    /\ v = 1 \/ \E s \in At(l) : objects[s].version = v - 1

\* The highest committed version of a location (max(version) GROUP BY status).
LastCommittedAt(l) ==
    {s \in CommittedAt(l) : \A t \in CommittedAt(l) : objects[t].version <= objects[s].version}

-----------------------------------------------------------------------------
(* Reading a segment *)

\* Segment.Inline
Inline(row) == ~row.redundancy /\ row.pieces = NoPieces

\* Segment.PiecesInAncestorSegment (a segment that is not inline has encrypted_size > 0)
PiecesInAncestorSegment(row) == ~row.inline /\ row.pieces = NoPieces

\* updateWithAncestorSegment finds the segment of the ancestor.
FromAncestor(s, p) ==
    /\ PiecesInAncestorSegment(segments[<<s, p>>])
    /\ s \in DOMAIN copies
    /\ <<copies[s], p>> \in DOMAIN segments

\* GetSegmentByPosition: the row that a reader's root piece and pieces come from.
\* A copy whose ancestor has no such segment has no pieces of its own either.
RowRead(s, p) == segments[IF FromAncestor(s, p) THEN <<copies[s], p>> ELSE <<s, p>>]
PiecesOf(s, p) == RowRead(s, p).pieces
RootOf(s, p) == RowRead(s, p).root

-----------------------------------------------------------------------------
(* Deleting the objects D, shared by every delete that knows about copies  *)
(* (deleteBucketObjectsWithCopyFeatureSQL and promoteNewAncestors).        *)

\* Copies about to lose their ancestor that are not deleted themselves.
Orphans(D) == {c \in DOMAIN copies \ D : copies[c] \in D}

\* promoted_ancestors: one child for each deleted ancestor.  DISTINCT ON without
\* ORDER BY picks any of them.
Promotions(D) ==
    {P \in SUBSET Orphans(D) :
        \A c \in Orphans(D) : \E p \in P :
            /\ copies[p] = copies[c]
            /\ \A q \in P : copies[q] = copies[c] => q = p}

\* promoteNewAncestors writes as many segments as the deleted ancestor had
\* remote ones, or else "not all new ancestor segments were update".
AllSegmentsPromoted(P) ==
    \A c \in P : \A p \in SegmentsOf(copies[c]) :
        segments[<<copies[c], p>>].pieces # NoPieces => <<c, p>> \in DOMAIN segments

ObjectsWithout(D) == Restrict(objects, DOMAIN objects \ D)

\* Mutant: the promoted child keeps the empty piece lists it had as a copy.
SegmentsWithoutPromotion(D, P) ==
    Restrict(segments, {k \in DOMAIN segments : k[1] \notin D})

\* The promoted child takes over the piece lists of the ancestor.
SegmentsWithout(D, P) ==
    [k \in {k \in DOMAIN segments : k[1] \notin D} |->
        IF /\ k[1] \in P
           /\ <<copies[k[1]], k[2]>> \in DOMAIN segments
           /\ segments[<<copies[k[1]], k[2]>>].pieces # NoPieces
        THEN [segments[k] EXCEPT !.pieces = segments[<<copies[k[1]], k[2]>>].pieces]
        ELSE segments[k]]

\* Mutant: only the rows of the promoted children are removed.
CopiesWithoutDeleted(D, P) ==
    [c \in DOMAIN copies \ P |->
        IF copies[c] \in D /\ c \notin D
        THEN CHOOSE p \in P : copies[p] = copies[c] ELSE copies[c]]

\* Mutant: the siblings of the promoted child keep the deleted ancestor.
CopiesWithoutRepointing(D, P) == Restrict(copies, DOMAIN copies \ (D \cup P))

\* The promoted child stops being a copy, its siblings become its copies.
CopiesWithout(D, P) ==
    [c \in DOMAIN copies \ (D \cup P) |->
        IF copies[c] \in D THEN CHOOSE p \in P : copies[p] = copies[c] ELSE copies[c]]

\* Mutant: pieces passed on to a promoted copy are reported as well.
PiecesToDeleteAll(D) ==
    {segments[k].root : k \in {k \in DOMAIN segments :
        k[1] \in D /\ segments[k].pieces # NoPieces}}

\* DeleteObjectResult.Segments: pieces of deleted objects that were not passed on.
PiecesToDelete(D) ==
    {segments[k].root : k \in {k \in DOMAIN segments :
        /\ k[1] \in D
        /\ segments[k].pieces # NoPieces
        /\ \A c \in Orphans(D) : copies[c] # k[1]}}

DeleteObjects(D) ==
    \E P \in Promotions(D) :
        /\ AllSegmentsPromoted(P)
        /\ objects' = ObjectsWithout(D)
        /\ segments' = SegmentsWithout(D, P)
        /\ copies' = CopiesWithout(D, P)
        /\ deletedPieces' = deletedPieces \cup PiecesToDelete(D)

-----------------------------------------------------------------------------
(* Upload *)

\* BeginObjectNextVersion, called by Endpoint.BeginObject with a new stream id
\* and an expiration in the future.
BeginObjectNextVersion(l) ==
    /\ nextStream \in Streams
    /\ \E v \in Versions, e \in {x \in Expirations : x > now} \cup {Never} :
        /\ IsNextVersion(l, v)
        /\ objects' = [s \in DOMAIN objects \cup {nextStream} |->
              IF s = nextStream
              THEN [loc |-> l, version |-> v, status |-> "pending", expires |-> e,
                    deadline |-> now + ZombieAfter, count |-> 0]
              ELSE objects[s]]
    /\ nextStream' = nextStream + 1
    /\ UNCHANGED <<segments, copies, now, deletedPieces, requests, chores>>

\* The row an INSERT INTO segments ... ON CONFLICT DO UPDATE starts from: the one
\* that is there, which keeps its created_at, or the column defaults.
SegmentRowOf(s, p) ==
    IF <<s, p>> \in DOMAIN segments THEN segments[<<s, p>>]
    ELSE [root |-> NoRoot, pieces |-> NoPieces, inline |-> FALSE,
          redundancy |-> FALSE, created |-> now]

\* Mutant: the status of the object is not checked.
UpsertSegmentAnyStatus(s, p, row) ==
    /\ segments' = [k \in DOMAIN segments \cup {<<s, p>>} |->
                       IF k = <<s, p>> THEN row ELSE segments[k]]
    /\ UNCHANGED <<objects, copies, nextStream, now, deletedPieces, requests, chores>>

UpsertSegment(s, p, row) ==
    /\ Pending(s)
    /\ segments' = [k \in DOMAIN segments \cup {<<s, p>>} |->
                       IF k = <<s, p>> THEN row ELSE segments[k]]
    /\ UNCHANGED <<objects, copies, nextStream, now, deletedPieces, requests, chores>>

\* The client does not turn a segment that is there into the other kind.
KeepsKind(s, p, inline) ==
    <<s, p>> \in DOMAIN segments => segments[<<s, p>>].inline = inline

\* CommitSegment: a conflicting row keeps its inline_data.
CommitSegment(s, p) ==
    /\ "remote" \in Kinds
    /\ MixedKinds \/ KeepsKind(s, p, FALSE)
    /\ \E a \in Attempts :
        UpsertSegment(s, p, [SegmentRowOf(s, p) EXCEPT
            !.root = <<s, p, a>>, !.pieces = 1, !.redundancy = TRUE])

\* CommitInlineSegment: a conflicting row keeps its pieces and its redundancy.
CommitInlineSegment(s, p) ==
    /\ "inline" \in Kinds
    /\ MixedKinds \/ KeepsKind(s, p, TRUE)
    /\ UpsertSegment(s, p, [SegmentRowOf(s, p) EXCEPT !.root = NoRoot, !.inline = TRUE])

\* CommitObject: the pending object becomes the committed one and every object
\* committed at its location is deleted.  The committed versions are deleted one
\* after the other, which promotes and reports what deleting them at once does.
\* Segments collected by earlier, aborted attempts are reported as well: the
\* slice outlives the transaction function.
CommitObject(s) ==
    /\ Pending(s)
    /\ LET D == CommittedAt(objects[s].loc) IN
       \E P \in Promotions(D) :
        /\ AllSegmentsPromoted(P)
        /\ objects' = [ObjectsWithout(D) EXCEPT
                         ![s].status = "committed", ![s].deadline = 0,
                         ![s].count = Cardinality(SegmentsOf(s))]
        /\ segments' = SegmentsWithout(D, P)
        /\ copies' = CopiesWithout(D, P)
        /\ deletedPieces' = deletedPieces \cup PiecesToDelete(D)
                              \cup (IF s \in DOMAIN aborted THEN aborted[s] ELSE {})
    /\ aborted' = Restrict(aborted, DOMAIN aborted \ {s})
    /\ UNCHANGED <<nextStream, now, begun, repair, chores>>

\* An attempt of the transaction of CommitObject that ran to its end and was
\* aborted by the database.  Nothing is written, deletedSegments is kept.
AbortCommitObject(s) ==
    /\ TxRetries
    /\ Pending(s)
    /\ LET D == CommittedAt(objects[s].loc) IN
        /\ \E P \in Promotions(D) : AllSegmentsPromoted(P)
        /\ aborted' = [t \in DOMAIN aborted \cup {s} |->
              (IF t \in DOMAIN aborted THEN aborted[t] ELSE {})
                \cup (IF t = s THEN PiecesToDelete(D) ELSE {})]
    /\ UNCHANGED <<tables, nextStream, now, deletedPieces, begun, repair, chores>>

-----------------------------------------------------------------------------
(* Deletes asked for by clients *)

\* DeletePendingObject (BeginDeleteObject of an upload in progress).
DeletePendingObject(s) ==
    /\ Pending(s)
    /\ objects' = ObjectsWithout({s})
    /\ segments' = Restrict(segments, {k \in DOMAIN segments : k[1] # s})
    /\ deletedPieces' = deletedPieces \cup
          {segments[k].root : k \in {k \in DOMAIN segments :
              k[1] = s /\ segments[k].pieces # NoPieces}}
    /\ UNCHANGED <<copies, nextStream, now, requests, chores>>

\* DeleteObjectLastCommitted: every unexpired committed version of the location.
DeleteObjectLastCommitted(l) ==
    /\ {s \in CommittedAt(l) : Unexpired(s)} # {}
    /\ DeleteObjects({s \in CommittedAt(l) : Unexpired(s)})
    /\ UNCHANGED <<nextStream, now, requests, chores>>

\* DeleteObjectExactVersion, whatever the status and the expiration.  The
\* endpoint calls it with the default version, 1 (DeleteObjectAnyStatus).
DeleteObjectExactVersion(l) ==
    /\ \E s \in At(l) : objects[s].version = 1 /\ DeleteObjects({s})
    /\ UNCHANGED <<nextStream, now, requests, chores>>

\* One batch of DeleteBucketObjects.  DELETE ... LIMIT picks any rows of the
\* bucket; the PostgreSQL form deletes all of them whatever the limit.
DeleteBucketBatch(b) ==
    LET Bucket == {s \in DOMAIN objects : BucketOf[objects[s].loc] = b} IN
    /\ \E D \in SUBSET Bucket \ {{}} :
        /\ Cardinality(D) <= BatchSize \/ D = Bucket
        /\ DeleteObjects(D)
    /\ UNCHANGED <<nextStream, now, requests, chores>>

-----------------------------------------------------------------------------
(* Server-side copy and move *)

\* beginMoveCopyObject: the last committed, unexpired version and its keys.
BeginMoveCopyObject(op, l) ==
    /\ \E s \in CommittedAt(l) :
        /\ Unexpired(s)
        /\ \A t \in CommittedAt(l) : Unexpired(t) => objects[t].version <= objects[s].version
        /\ begun' = [o \in DOMAIN begun \cup {op} |->
              IF o = op THEN [stream |-> s, loc |-> l, version |-> objects[s].version,
                              keys |-> SegmentsOf(s)]
              ELSE begun[o]]
    /\ UNCHANGED <<tables, nextStream, now, deletedPieces, repair, aborted, chores>>

\* The row at the exact source location, if it is committed.
SourceRow(r) ==
    {s \in CommittedAt(r.loc) : objects[s].version = r.version}

\* getObjectAtCopySourceAndDestination reads the source and the destination row
\* from one UNION.  With no source row the destination row is taken for it, with
\* ancestor_stream_id NULL and no destination.
SourceMissing(r) == SourceRow(r) = {}
ReadSource(r, dst) == IF SourceMissing(r) THEN LastCommittedAt(dst) ELSE SourceRow(r)
ReadDestination(r, dst) == IF SourceMissing(r) THEN {} ELSE LastCommittedAt(dst)
\* Mutant: the copy of a copy takes its source for ancestor.
ReadAncestorDirect(r) == r.stream

ReadAncestor(r) ==
    IF ~SourceMissing(r) /\ r.stream \in DOMAIN copies THEN copies[r.stream] ELSE r.stream

\* The inserted row: expires_at, segment_count and the rest are the source's.
\* Mutant: the copy never expires.
CopiedObjectUnexpiring(s, dst, v) ==
    [objects[s] EXCEPT !.loc = dst, !.version = v, !.expires = Never]

CopiedObject(s, dst, v) == [objects[s] EXCEPT !.loc = dst, !.version = v]

\* FinishCopyObject: deletes the object at the destination, whose pieces are not
\* reported, and inserts a copy that has no pieces of its own.
FinishCopyObject(dst) ==
    /\ "copy" \in DOMAIN begun
    /\ nextStream \in Streams
    /\ LET r == begun["copy"]
           D == ReadDestination(r, dst)
           onlyInline == \A p \in SegmentsOf(r.stream) : segments[<<r.stream, p>>].inline
       IN
       /\ MoveCopyRace \/ ~SourceMissing(r)
       /\ ReadSource(r, dst) = {r.stream}
       /\ r.stream \notin D                       \* onto itself: nothing to do
       /\ objects[r.stream].count = Cardinality(r.keys)
       /\ SegmentsOf(r.stream) = r.keys
       /\ \E P \in Promotions(D), v \in Versions :
            /\ AllSegmentsPromoted(P)
            /\ IsNextVersion(dst, v)
            /\ objects' = [s \in (DOMAIN objects \ D) \cup {nextStream} |->
                  IF s = nextStream
                  THEN CopiedObject(r.stream, dst, v)
                  ELSE objects[s]]
            /\ segments' = [k \in {k \in DOMAIN segments : k[1] \notin D}
                                    \cup {<<nextStream, p>> : p \in r.keys} |->
                  IF k[1] = nextStream
                  THEN [segments[<<r.stream, k[2]>>] EXCEPT !.pieces = NoPieces, !.created = now]
                  ELSE SegmentsWithout(D, P)[k]]
            /\ LET ancestor == IF ReadAncestor(r) \in D
                               THEN CHOOSE p \in P : copies[p] = ReadAncestor(r)
                               ELSE ReadAncestor(r)
               IN copies' = IF onlyInline THEN CopiesWithout(D, P)
                            ELSE [c \in (DOMAIN copies \ (D \cup P)) \cup {nextStream} |->
                                    IF c = nextStream THEN ancestor
                                    ELSE CopiesWithout(D, P)[c]]
    /\ nextStream' = nextStream + 1
    /\ UNCHANGED <<now, deletedPieces, requests, chores>>

\* The version of the moved row.
MovedVersion(r, dst, v) ==
    IF \E s \in At(dst) : objects[s].version = r.version
    THEN IsNextVersion(dst, v) ELSE v = r.version

\* Refused if something is committed at the destination.
\* Mutant: only a pending object makes the move fail.
MoveRefusedByPending(dst) == \E s \in At(dst) : Pending(s)

MoveRefused(dst) == CommittedAt(dst) # {}

\* FinishMoveObject: a pending object with the same version at the destination
\* makes the moved one the newest there.
FinishMoveObject(dst) ==
    /\ "move" \in DOMAIN begun
    /\ ~MoveRefused(dst)
    /\ LET r == begun["move"] IN
       /\ r.stream \in DOMAIN objects
       /\ objects[r.stream].loc = r.loc /\ objects[r.stream].version = r.version
       /\ objects[r.stream].count = Cardinality(r.keys)
       /\ r.keys \subseteq SegmentsOf(r.stream)
       /\ \E v \in Versions :
            /\ MovedVersion(r, dst, v)
            /\ objects' = [objects EXCEPT ![r.stream].loc = dst, ![r.stream].version = v]
    /\ UNCHANGED <<segments, copies, nextStream, now, deletedPieces, requests, chores>>

-----------------------------------------------------------------------------
(* Repair (and graceful exit): read a segment, then compare and swap its pieces *)

\* GetSegmentByPosition in SegmentRepairer.Repair.
ReadForRepair(s, p) ==
    /\ <<s, p>> \in DOMAIN segments
    /\ PiecesOf(s, p) \in 1..(MaxPieces - 1)      \* bound: a new list is left
    /\ repair' = {[stream |-> s, pos |-> p, pieces |-> PiecesOf(s, p)]}
    /\ UNCHANGED <<tables, nextStream, now, deletedPieces, begun, aborted, chores>>

\* UpdateSegmentPieces: ErrSegmentNotFound and ErrValueChanged write nothing.
UpdateSegmentPieces(r) ==
    /\ LET k == <<r.stream, r.pos>> IN
       segments' = IF k \in DOMAIN segments /\ segments[k].pieces = r.pieces
                   THEN [segments EXCEPT ![k].pieces = r.pieces + 1,
                                         ![k].redundancy = TRUE]
                   ELSE segments
    /\ repair' = repair \ {r}
    /\ UNCHANGED <<objects, copies, nextStream, now, deletedPieces, begun, aborted, chores>>

-----------------------------------------------------------------------------
(* Chores: a pass is a loop of batches, each a SELECT (AS OF SYSTEM TIME) of    *)
(* rows after the last batch followed by a DELETE by the selected keys, until   *)
(* nothing is selected (deleteObjectsAndSegmentsBatch).  Both chores forget the *)
(* copies table; neither reports pieces.                                        *)

HandleOf(s) == [stream |-> s, loc |-> objects[s].loc, version |-> objects[s].version]
Selected(h) == /\ h.stream \in DOMAIN objects
               /\ objects[h.stream].loc = h.loc
               /\ objects[h.stream].version = h.version

Idle == [batch |-> {}, last |-> {}, at |-> 0]

\* The order of (project_id, bucket_name, object_key, version).
Before(g, h) ==
    \/ KeyOf[g.loc] < KeyOf[h.loc]
    \/ g.loc = h.loc /\ g.version < h.version

\* The rows S that come after the cursor; what gets in before it is left to the
\* next pass.
RowsAfter(S, last) == {h \in {HandleOf(s) : s \in S} : \A g \in last : Before(g, h)}

\* ORDER BY key, version LIMIT: the first ListLimit of them.
NextBatches(S, last) ==
    LET rows == RowsAfter(S, last) IN
    {B \in SUBSET rows :
        /\ Cardinality(B) <= ListLimit
        /\ B # rows => Cardinality(B) = ListLimit
        /\ \A h \in B, g \in rows \ B : Before(h, g)}

\* now() of the chore, read when a pass starts.
PassTime(chore) == IF chore.last = {} THEN now ELSE chore.at

\* The pass after the SELECT of a batch of the rows S.
NextPasses(chore, S) ==
    {IF B = {} THEN Idle ELSE [chore EXCEPT !.batch = B, !.at = PassTime(chore)] :
        B \in NextBatches(S, chore.last)}

EndBatch(chore) == [chore EXCEPT !.batch = {}, !.last = chore.batch]

\* DeleteZombieObjects, the WHERE of the SELECT.
\* Mutants: the status is not checked; a deadline passes one tick late.
ZombieRowsAnyStatus(at) == {s \in DOMAIN objects : objects[s].deadline < at}
ZombieRowsLate(at) == {s \in DOMAIN objects : Pending(s) /\ objects[s].deadline + 1 < at}

ZombieRows(at) == {s \in DOMAIN objects : Pending(s) /\ objects[s].deadline < at}

SelectZombieObjects ==
    /\ zombies.batch = {}
    /\ zombies' \in NextPasses(zombies, ZombieRows(PassTime(zombies)))
    /\ UNCHANGED <<tables, nextStream, now, deletedPieces, requests, expired>>

\* No segment was created after InactiveDeadline.
InactiveAt(s, at) == \A p \in SegmentsOf(s) : segments[<<s, p>>].created + InactiveFor <= at

\* deleteInactiveObjectsAndSegments: the row is matched by location, version and
\* stream, whatever its status has become; segments go by stream id alone.
DeleteInactiveObjectsAndSegments ==
    /\ zombies.batch # {}
    /\ LET H == {h \in zombies.batch : InactiveAt(h.stream, zombies.at)} IN
       /\ objects' = ObjectsWithout({h.stream : h \in {g \in H : Selected(g)}})
       /\ segments' = Restrict(segments,
             {k \in DOMAIN segments : \A h \in H : h.stream # k[1]})
    /\ zombies' = EndBatch(zombies)
    /\ UNCHANGED <<copies, nextStream, now, deletedPieces, requests, expired>>

\* DeleteExpiredObjects, the WHERE of the SELECT: any status.
ExpiredRows(at) == {s \in DOMAIN objects : objects[s].expires < at}

SelectExpiredObjects ==
    /\ expired.batch = {}
    /\ expired' \in NextPasses(expired, ExpiredRows(PassTime(expired)))
    /\ UNCHANGED <<tables, nextStream, now, deletedPieces, requests, zombies>>

\* deleteObjectsAndSegments
DeleteObjectsAndSegments ==
    /\ expired.batch # {}
    /\ objects' = ObjectsWithout({h.stream : h \in {g \in expired.batch : Selected(g)}})
    /\ segments' = Restrict(segments,
          {k \in DOMAIN segments : \A h \in expired.batch : h.stream # k[1]})
    /\ expired' = EndBatch(expired)
    /\ UNCHANGED <<copies, nextStream, now, deletedPieces, requests, zombies>>

Tick ==
    /\ now < MaxTime
    /\ now' = now + 1
    /\ UNCHANGED <<tables, nextStream, deletedPieces, requests, chores>>

-----------------------------------------------------------------------------

Init ==
    /\ objects = [s \in {} |-> 0] /\ segments = [k \in {} |-> 0] /\ copies = [c \in {} |-> 0]
    /\ nextStream = 1 /\ now = 0 /\ deletedPieces = {}
    /\ begun = [o \in {} |-> 0] /\ repair = {} /\ aborted = [s \in {} |-> {}]
    /\ zombies = Idle /\ expired = Idle

\* Uploads that the zombie chore has selected and not yet deleted.
Overtaken == {h.stream : h \in zombies.batch}

\* Nothing in the code keeps a client from committing one of them: without
\* CommitRace clients are taken not to.
Upload ==
    \/ \E l \in Locations : BeginObjectNextVersion(l)
    \/ \E s \in DOMAIN objects, p \in Positions :
          CommitSegment(s, p) \/ CommitInlineSegment(s, p)
    \/ \E s \in DOMAIN objects :
          \/ CommitObject(s) /\ (CommitRace \/ s \notin Overtaken)
          \/ AbortCommitObject(s)

Delete ==
    \/ \E s \in DOMAIN objects : DeletePendingObject(s)
    \/ \E l \in Locations : DeleteObjectLastCommitted(l) \/ DeleteObjectExactVersion(l)
    \/ \E b \in Range(BucketOf) : DeleteBucketBatch(b)

CopyMove ==
    \/ \E op \in Handshakes, l \in Locations : BeginMoveCopyObject(op, l)
    \/ \E l \in Locations : FinishCopyObject(l) \/ FinishMoveObject(l)

Repair ==
    \/ \E s \in DOMAIN objects, p \in Positions : ReadForRepair(s, p)
    \/ \E r \in repair : UpdateSegmentPieces(r)

Chores ==
    \/ SelectZombieObjects \/ DeleteInactiveObjectsAndSegments
    \/ SelectExpiredObjects \/ DeleteObjectsAndSegments

Next == Upload \/ Delete \/ CopyMove \/ Repair \/ Chores \/ Tick

Spec == Init /\ [][Next]_vars

(* Fairness: both chores run in a sync2.Cycle for as long as the satellite lives. *)
ChoreFairness ==
    /\ WF_vars(SelectZombieObjects) /\ WF_vars(DeleteInactiveObjectsAndSegments)
    /\ WF_vars(SelectExpiredObjects) /\ WF_vars(DeleteObjectsAndSegments)

FairSpec == Spec /\ ChoreFairness

-----------------------------------------------------------------------------
(* Properties *)

\* Every table, request and batch has the shape the code gives it.
TypeOK ==
    /\ DOMAIN objects \subseteq Streams
    /\ \A s \in DOMAIN objects : objects[s] \in ObjectRow
    /\ DOMAIN segments \subseteq Streams \X Positions
    /\ \A k \in DOMAIN segments : segments[k] \in SegmentRow
    /\ DOMAIN copies \subseteq Streams
    /\ \A c \in DOMAIN copies : copies[c] \in Streams
    /\ nextStream \in 1..(MaxStream + 1)
    /\ now \in 0..MaxTime
    /\ deletedPieces \subseteq Roots \cup {NoRoot}
    /\ DOMAIN begun \subseteq {"copy", "move"}
    /\ \A o \in DOMAIN begun : begun[o] \in BeginResult
    /\ repair \subseteq RepairRead
    /\ zombies \in ChorePass /\ expired \in ChorePass
    /\ DOMAIN aborted \subseteq Streams
    /\ \A s \in DOMAIN aborted : aborted[s] \subseteq Roots \cup {NoRoot}

\* Live: committed and not yet due for the expiration chore (expires_at >= now).
Live(s) == Committed(s) /\ objects[s].expires >= now

\* The versions picked by begin, copy and move never collide with a row that is
\* there: the primary key of objects is never violated.
PrimaryKey ==
    \A s, t \in DOMAIN objects :
        objects[s].loc = objects[t].loc /\ objects[s].version = objects[t].version => s = t

\* However uploads, copies and moves to one location interleave, at most one
\* object is committed there ("object with multiple committed versions were
\* found!" is never logged).
OneCommittedPerLocation ==
    \A s, t \in DOMAIN objects :
        Committed(s) /\ Committed(t) /\ objects[s].loc = objects[t].loc => s = t

\* So a location and a version name one row, and a location one object.
KeysUnique == PrimaryKey /\ OneCommittedPerLocation

\* segment_count of a live object is the number of its segments: no delete, chore
\* or copy ever takes or adds some of the segments of an object that stays.
SegmentCountMatches ==
    \A s \in DOMAIN objects : Live(s) => objects[s].count = Cardinality(SegmentsOf(s))

\* No segment row is left behind without its object.
NoOrphanSegments == \A k \in DOMAIN segments : k[1] \in DOMAIN objects

\* Rows of segments and objects come and go together.
SegmentsComplete == SegmentCountMatches /\ NoOrphanSegments

\* A download of a live object finds every segment: inline data for an inline
\* one, for any other a root piece and a piece list, its own or its ancestor's.
Readable ==
    \A s \in DOMAIN objects : Live(s) =>
        \A p \in SegmentsOf(s) :
            LET row == segments[<<s, p>>] IN
            IF Inline(row) THEN row.inline
            ELSE PiecesOf(s, p) # NoPieces /\ RootOf(s, p) # NoRoot

\* ancestor_stream_id of a live copy refers to an object that is there and is not
\* a copy itself, through any sequence of copies, overwrites and promotions.
AncestorIsOriginal ==
    \A c \in DOMAIN copies : c \in DOMAIN objects /\ Live(c) =>
        /\ copies[c] \in DOMAIN objects
        /\ copies[c] \notin DOMAIN copies

\* Pieces that the storage nodes were told to delete belong to no segment that is
\* still there, original or copy.
DeletedPiecesUnreferenced ==
    \A k \in DOMAIN segments :
        segments[k].root # NoRoot => segments[k].root \notin deletedPieces

\* No object is impossible to delete or to overwrite: promoting one of its copies
\* always succeeds, so the transaction is not refused.
EveryObjectDeletable ==
    \A s \in DOMAIN objects : \A P \in Promotions({s}) : AllSegmentsPromoted(P)

RepairStep == repair # {} /\ repair' = {}

\* Nothing done to other objects (deleting or overwriting the ancestor, promoting
\* a sibling, copying, moving) changes what a download of a live object gets: its
\* root pieces never change and its piece lists change by a repair only.
ContentPreserved ==
    [][\A s \in DOMAIN objects \cap DOMAIN objects' : Live(s) /\ Live(s)' =>
        /\ SegmentsOf(s)' = SegmentsOf(s)
        /\ \A p \in SegmentsOf(s) :
            /\ RootOf(s, p)' = RootOf(s, p)
            /\ PiecesOf(s, p)' = PiecesOf(s, p) \/ RepairStep]_vars

\* An upload past its zombie deadline and without recent segments does not stay:
\* it is collected, or its client is active again.
ZombiesCollected ==
    \A s \in Streams :
        [](Pending(s) /\ objects[s].deadline < now /\ InactiveAt(s, now)
            => <>(~Pending(s) \/ ~InactiveAt(s, now)))

\* Whatever has expired is collected.
ExpiredCollected ==
    \A s \in Streams :
        []((s \in DOMAIN objects /\ objects[s].expires < now) => <>(s \notin DOMAIN objects))

\* The two chores meet every row in the end, whatever their batches skipped.
Collected == ZombiesCollected /\ ExpiredCollected

ZombieDeleteStep == zombies.batch # {} /\ zombies'.batch = {}
ExpiredDeleteStep == expired.batch # {} /\ expired'.batch = {}

\* Not true of the code ("all committed objects should NOT be deleted",
\* delete_objects_test.go:448), which CommitRace shows: a chore deletes neither a
\* live object nor one of its segments.
ChoresSpareLiveObjects ==
    [][ZombieDeleteStep \/ ExpiredDeleteStep =>
        \A s \in DOMAIN objects : Live(s) =>
            s \in DOMAIN objects' /\ SegmentsOf(s)' = SegmentsOf(s)]_vars

-----------------------------------------------------------------------------
(* What clients see: the object store that the metabase implements.        *)

Visible == {s \in DOMAIN objects : Committed(s) /\ Unexpired(s)}

InlineData == [root |-> NoRoot, pieces |-> NoPieces]

\* What a download gets of the stream s: data of its own or of its ancestor.
ContentOf(s) ==
    [p \in SegmentsOf(s) |->
        LET row == RowRead(s, p) IN
        IF segments[<<s, p>>].inline THEN InlineData
        ELSE [root |-> row.root, pieces |-> row.pieces]]

\* A location shows the one visible object that it has.
Shown ==
    LET V == Visible IN
    [l \in {objects[s].loc : s \in V} |-> ContentOf(CHOOSE s \in V : objects[s].loc = l)]

ObjectStore == INSTANCE ObjectStore WITH
    Data <- [root : Roots, pieces : 1..MaxPieces] \cup {InlineData},
    store <- Shown

\* Clients cannot tell the three tables from an object store: every request and every
\* chore changes what its locations show and nothing else.  A copy gets the data of
\* its source, and keeps it when the source or its ancestor is overwritten, deleted
\* or moved, when a sibling is promoted, or a repair writes to one of them.
ImplementsObjectStore == ObjectStore!Spec
=============================================================================
