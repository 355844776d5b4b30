----------------------- MODULE GarbageCollectionProofs -----------------------
(* Theorems about GarbageCollection, for any pieces and segments, any number *)
(* of filters, any time, and any intervals that leave room for the clocks.   *)
EXTENDS GarbageCollection, TLAPS

-----------------------------------------------------------------------------
(* Files *)

\* A file more, or one less, and the times are still times.
LEMMA FilesAre ==
    ASSUME NEW f, IsFiles(f), NEW p \in Pieces, NEW t \in Int, NEW P
    PROVE  IsFiles(With(f, p, t)) /\ IsFiles(Without(f, P))
<1>1. IsFiles(With(f, p, t))
  BY DEF With, IsFiles
<1>2. IsFiles(Without(f, P))
  BY DEF Without, Restrict, IsFiles
<1> QED
  BY <1>1, <1>2

-----------------------------------------------------------------------------
(* Types *)

LEMMA InitType == Init => TypeOK
BY CollectionAssumption DEF Init, TypeOK, Filters, NoFilter, NoWalk, NoEmptier, IsFiles,
   Live, Clock, None

LEMMA NextType ==
    ASSUME TypeOK, [Next]_vars
    PROVE  TypeOK'
<1> USE CollectionAssumption DEF TypeOK
<1> DEFINE Times == now \in Int /\ Clock \in Int
<1>0. Times
  BY DEF Clock
<1>1. ASSUME NEW p \in Pieces, CreateLimit(p) PROVE TypeOK'
  BY <1>1 DEF CreateLimit, nodeVars, trashVars, IsFiles
<1>2. ASSUME NEW p \in Pieces, Upload(p) PROVE TypeOK'
  <2>1. IsFiles(blobs')
    BY <1>0, <1>2, FilesAre DEF Upload
  <2> QED
    BY <1>2, <2>1 DEF Upload, trashVars, IsFiles
<1>3. ASSUME NEW p \in Pieces, ToTrash(p) PROVE IsFiles(blobs') /\ IsFiles(trash')
  BY <1>0, <1>3, FilesAre DEF ToTrash
<1>4. ASSUME NEW p \in Pieces, DeletePiece(p) PROVE TypeOK'
  <2>1. IsFiles(blobs') /\ IsFiles(trash')
    BY <1>3, <1>4 DEF DeletePiece
  <2> QED
    BY <1>4, <2>1 DEF DeletePiece, satelliteVars, trashVars, IsFiles
<1>5. ASSUME NEW p \in Pieces, VisitBlob(p) PROVE TypeOK'
  BY <1>5 DEF VisitBlob, satelliteVars, trashVars, IsFiles
<1>6. ASSUME NEW s \in Segments, NEW P \in SUBSET Pieces, Commit(s, P) PROVE TypeOK'
  <2>1. DOMAIN rows' \subseteq Segments /\ \A t \in DOMAIN rows' : rows'[t] \in Nat
    BY <1>6 DEF Commit, With
  <2> QED
    BY <1>6, <2>1 DEF Commit, nodeVars, trashVars, IsFiles
<1>7. ASSUME NEW s \in Segments, NEW R \in SUBSET Pieces, NEW P \in SUBSET Pieces,
             UpdatePieces(s, R, P)
      PROVE  TypeOK'
  BY <1>7 DEF UpdatePieces, nodeVars, trashVars, IsFiles
<1>8. ASSUME NEW s \in Segments, DeleteSegment(s) PROVE TypeOK'
  <2>1. DOMAIN rows' \subseteq Segments /\ \A t \in DOMAIN rows' : rows'[t] \in Nat
    BY <1>8 DEF DeleteSegment, Without, Restrict
  <2> QED
    BY <1>8, <2>1 DEF DeleteSegment, nodeVars, trashVars, IsFiles
<1>9. ASSUME NEW F \in FalsePositives, BuildFilter(F) PROVE TypeOK'
  <2>1. latest' \in Filters
    BY <1>9 DEF BuildFilter, Filter, Filters, Live
  <2> QED
    BY <1>9, <2>1 DEF BuildFilter, nodeVars, trashVars, IsFiles
<1>10. CASE Send
  <2>1. latest' \in Filters /\ queued' \in Filters
    BY <1>10 DEF Send, Filters, NoFilter
  <2> QED
    BY <1>10, <2>1 DEF Send, satelliteVars, trashVars, IsFiles
<1>11. CASE BeginWalk
  <2>1. queued' \in Filters
    BY <1>11 DEF BeginWalk, Filters, NoFilter
  <2>2. walk' \in [on : BOOLEAN, keep : SUBSET Pieces, before : Int, piece : Pieces \cup {None}]
    <3>1. queued.keep \in SUBSET Pieces /\ CreatedBefore(queued) \in Int
      BY DEF Filters, CreatedBefore
    <3> QED
      BY <1>11, <3>1 DEF BeginWalk, NoWalk
  <2>3. walk'.piece = None
    BY <1>11 DEF BeginWalk, NoWalk
  <2> QED
    BY <1>11, <2>1, <2>2, <2>3 DEF BeginWalk, satelliteVars, trashVars, IsFiles
<1>12. CASE TrashBlob
  <2>1. IsFiles(blobs') /\ IsFiles(trash')
    BY <1>0, <1>3, <1>12, FilesAre DEF TrashBlob
  <2> QED
    BY <1>12, <2>1 DEF TrashBlob, satelliteVars, trashVars, IsFiles
<1>13. CASE EndWalk
  BY <1>13 DEF EndWalk, satelliteVars, trashVars, IsFiles, NoWalk
<1>14. CASE StartEmpty
  <2>1. TrashedBefore \in Int
    BY <1>0 DEF TrashedBefore
  <2> QED
    BY <1>14, <2>1 DEF StartEmpty, satelliteVars, IsFiles, NoEmptier
<1>15. CASE EmptyFile
  <2>1. IsFiles(trash')
    BY <1>0, <1>15, FilesAre DEF EmptyFile
  <2> QED
    BY <1>15, <2>1 DEF EmptyFile, satelliteVars, IsFiles
<1>16. CASE EndEmpty
  BY <1>16 DEF EndEmpty, satelliteVars, IsFiles, NoEmptier
<1>17. CASE StartRestore \/ BeginRestore \/ EndRestore
  BY <1>17 DEF StartRestore, BeginRestore, EndRestore, satelliteVars, IsFiles, PlaceFree
<1>18. ASSUME NEW p \in Pieces, VisitTrash(p) PROVE TypeOK'
  BY <1>18 DEF VisitTrash, satelliteVars, IsFiles
<1>19. ASSUME NEW p \in Pieces, RestoreFile(p) PROVE TypeOK'
  <2>1. IsFiles(blobs') /\ IsFiles(trash')
    <3>1. trash[p] \in Int
      BY <1>19 DEF RestoreFile, IsFiles
    <3> QED
      BY <1>19, <3>1, FilesAre DEF RestoreFile
  <2> QED
    BY <1>19, <2>1 DEF RestoreFile, satelliteVars, trashVars, IsFiles
<1>20. CASE NodeRestart
  BY <1>20 DEF NodeRestart, satelliteVars, IsFiles, NoWalk, NoEmptier, NoFilter, Filters
<1>21. CASE Tick
  BY <1>21 DEF Tick, nodeVars, trashVars, IsFiles
<1>22. CASE UNCHANGED vars
  BY <1>22 DEF vars, satelliteVars, nodeVars, trashVars, IsFiles
<1> QED
  BY <1>1, <1>2, <1>4, <1>5, <1>6, <1>7, <1>8, <1>9, <1>10, <1>11, <1>12, <1>13, <1>14,
     <1>15, <1>16, <1>17, <1>18, <1>19, <1>20, <1>21, <1>22
     DEF Next, Segment, Filtering, Trashing

\* The state always has its types (TypeOK): all actions of the satellite and the node.
THEOREM TypeCorrect == Spec => []TypeOK
<1>1. TypeOK /\ [Next]_vars => TypeOK'
  BY NextType
<1> QED
  BY <1>1, InitType, PTL DEF Spec

-----------------------------------------------------------------------------
(* Live pieces.  That a walk never trashes one is not inductive: it needs to *)
(* know what every filter, wherever it waits, says of the pieces that are    *)
(* live now and of those that may still become live.                         *)

\* A filter of that date lists the live pieces, but for those with a young limit.
Covers(keep, date) ==
    /\ date <= now
    /\ \A p \in Live : p \in keep \/ date <= limit[p] + MaxCommitInterval

\* Nothing can make a live piece of it any more.
Lapsed(p) == status[p] = "dead" \/ (status[p] = "stored" /\ ~InTime(p))

FilterInv ==
    /\ Covers(latest.keep, latest.date)
    /\ Covers(queued.keep, queued.date)
    /\ walk.on => Covers(walk.keep, walk.before + MaxTimeSkew)
    /\ walk.piece # None => Lapsed(walk.piece)

\* Clocks and files: a blob is not older than its order limit, as the node sees it.
FileInv ==
    /\ \A s \in DOMAIN rows : rows[s] <= now
    /\ \A p \in Pieces : limit[p] <= now
    /\ \A p \in DOMAIN blobs : blobs[p] >= limit[p] + Offset
    /\ \A p \in DOMAIN trash : trash[p] >= limit[p] + Offset
    /\ \A p \in DOMAIN blobs \cup DOMAIN trash : status[p] \notin {"none", "limited"}
    /\ DOMAIN blobs \cap DOMAIN trash = {}
    /\ \A p \in Pieces : status[p] \in {"live", "stored"} /\ ~Lapsed(p) => p \in DOMAIN blobs

Kept == FilterInv /\ FileInv

LEMMA InitKept == Init => Kept
<1> SUFFICES ASSUME Init PROVE Kept
  OBVIOUS
<1> USE CollectionAssumption
<1>1. Covers({}, -1)
  BY DEF Covers, Init, Live
<1>2. FilterInv
  BY <1>1 DEF FilterInv, Init, NoFilter, NoWalk
<1>3. Clock \in Int /\ Clock = Offset
  BY DEF Clock, Init
<1>4. FileInv
  BY <1>3 DEF FileInv, Init, Live, Lapsed
<1> QED
  BY <1>2, <1>4 DEF Kept

\* The clock of the satellite does not go back.
LEMMA NowGrows ==
    ASSUME TypeOK, [Next]_vars
    PROVE  now' \in Nat /\ now' >= now
<1> USE DEF TypeOK
<1>1. CASE Tick
  BY <1>1 DEF Tick
<1>2. ASSUME NEW s \in Segments, Segment(s) PROVE now' = now
  BY <1>2 DEF Segment, Commit, UpdatePieces, DeleteSegment
<1>3. CASE Filtering
  BY <1>3 DEF Filtering, BuildFilter, Send, satelliteVars
<1>4. ASSUME Trashing PROVE now' = now
  <2>1. ASSUME NEW p \in Pieces, VisitTrash(p) \/ RestoreFile(p) PROVE now' = now
    BY <2>1 DEF VisitTrash, RestoreFile, satelliteVars
  <2>2. ASSUME StartEmpty \/ EmptyFile \/ EndEmpty \/ StartRestore \/ BeginRestore \/ EndRestore
        PROVE  now' = now
    BY <2>2 DEF StartEmpty, EmptyFile, EndEmpty, StartRestore, BeginRestore, EndRestore,
       satelliteVars
  <2> QED
    BY <1>4, <2>1, <2>2 DEF Trashing
<1>5. ASSUME NEW p \in Pieces, CreateLimit(p) \/ Upload(p) \/ DeletePiece(p) \/ VisitBlob(p)
      PROVE  now' = now
  BY <1>5 DEF CreateLimit, Upload, DeletePiece, VisitBlob, satelliteVars
<1>6. CASE BeginWalk \/ TrashBlob \/ EndWalk \/ NodeRestart \/ UNCHANGED vars
  BY <1>6 DEF BeginWalk, TrashBlob, EndWalk, NodeRestart, satelliteVars, vars
<1> QED
  BY <1>1, <1>2, <1>3, <1>4, <1>5, <1>6 DEF Next

\* A filter goes on covering the live pieces, whatever becomes of them.
LEMMA CoversStep ==
    ASSUME TypeOK, FileInv, [Next]_vars, NEW keep, NEW date \in Int, Covers(keep, date)
    PROVE  Covers(keep, date)'
<1> USE CollectionAssumption DEF TypeOK
<1>1. now' \in Nat /\ now' >= now
  BY NowGrows
<1>2. ASSUME NEW p \in Pieces, status'[p] = "live"
      PROVE  /\ limit'[p] = limit[p]
             /\ \/ status[p] = "live"
                \/ status[p] = "stored" /\ InTime(p)
  <2>1. ASSUME NEW q \in Pieces, CreateLimit(q) PROVE status[p] = "live" /\ limit'[p] = limit[p]
    BY <1>2, <2>1 DEF CreateLimit
  <2>2. ASSUME NEW q \in Pieces, Upload(q) PROVE status[p] = "live" /\ limit'[p] = limit[p]
    BY <1>2, <2>2 DEF Upload
  <2>3. ASSUME NEW s \in Segments, Segment(s)
        PROVE  /\ limit'[p] = limit[p]
               /\ \/ status[p] = "live"
                  \/ status[p] = "stored" /\ InTime(p)
    BY <1>2, <2>3 DEF Segment, Commit, UpdatePieces, DeleteSegment, Committable
  <2> QED
    BY <1>2, <2>1, <2>2, <2>3 DEF Next, vars, satelliteVars, DeletePiece, VisitBlob, Filtering,
       BuildFilter, Send, BeginWalk, TrashBlob, EndWalk, Trashing, StartEmpty, VisitTrash,
       EmptyFile, EndEmpty, StartRestore, BeginRestore, RestoreFile, EndRestore, NodeRestart, Tick
<1>3. ASSUME NEW p \in Pieces, status'[p] = "live"
      PROVE  p \in keep \/ date <= limit'[p] + MaxCommitInterval
  <2>1. CASE status[p] = "live"
    BY <1>2, <1>3, <2>1 DEF Covers, Live
  <2>2. CASE status[p] = "stored" /\ InTime(p)
    BY <1>2, <1>3, <2>2 DEF Covers, InTime
  <2> QED
    BY <1>2, <1>3, <2>1, <2>2
<1> QED
  BY <1>1, <1>3 DEF Covers, Live

\* A piece that has lapsed does not come back.
LEMMA LapsedStep ==
    ASSUME TypeOK, FileInv, [Next]_vars, NEW p \in Pieces, Lapsed(p)
    PROVE  Lapsed(p)' /\ limit'[p] = limit[p]
<1> USE CollectionAssumption DEF TypeOK, Lapsed
<1>1. ASSUME NEW q \in Pieces, CreateLimit(q) PROVE Lapsed(p)' /\ limit'[p] = limit[p]
  BY <1>1 DEF CreateLimit, InTime
<1>2. ASSUME NEW q \in Pieces, Upload(q) PROVE Lapsed(p)' /\ limit'[p] = limit[p]
  BY <1>2 DEF Upload, InTime
<1>3. ASSUME NEW s \in Segments, Segment(s) PROVE Lapsed(p)' /\ limit'[p] = limit[p]
  BY <1>3 DEF Segment, Commit, UpdatePieces, DeleteSegment, Committable, InTime, Live
<1>4. CASE Tick
  BY <1>4 DEF Tick, InTime
<1> QED
  BY <1>1, <1>2, <1>3, <1>4 DEF Next, vars, satelliteVars, DeletePiece, VisitBlob, Filtering,
     BuildFilter, Send, BeginWalk, TrashBlob, EndWalk, Trashing, StartEmpty, VisitTrash,
     EmptyFile, EndEmpty, StartRestore, BeginRestore, RestoreFile, EndRestore, NodeRestart, InTime

\* A piece a walk has found to be garbage has lapsed.
LEMMA GarbageLapsed ==
    ASSUME TypeOK, FileInv, NEW p \in DOMAIN blobs, walk.on, Garbage(p),
           Covers(walk.keep, walk.before + MaxTimeSkew)
    PROVE  Lapsed(p)
<1> USE CollectionAssumption DEF TypeOK
<1>1. p \in Pieces /\ limit[p] \in Nat /\ blobs[p] \in Int /\ walk.before \in Int /\ now \in Nat
  BY DEF IsFiles
<1>2. p \notin walk.keep /\ blobs[p] < walk.before
  BY DEF Garbage
<1>3. blobs[p] >= limit[p] + Offset
  BY DEF FileInv
<1>4. limit[p] + MaxCommitInterval < walk.before + MaxTimeSkew
  BY <1>1, <1>2, <1>3, SkewAssumption
<1>5. status[p] # "live"
  BY <1>1, <1>2, <1>4 DEF Covers, Live
<1>6. now - limit[p] > MaxCommitInterval
  BY <1>1, <1>4 DEF Covers
<1>7. ~InTime(p)
  BY <1>1, <1>6 DEF InTime
<1>8. status[p] \notin {"none", "limited"}
  BY DEF FileInv
<1> QED
  BY <1>1, <1>5, <1>7, <1>8 DEF Lapsed

LEMMA FilterStep ==
    ASSUME TypeOK, TypeOK', Kept, [Next]_vars
    PROVE  FilterInv'
<1> USE CollectionAssumption DEF Kept
<1>1. ASSUME NEW keep, NEW date \in Int, Covers(keep, date)
      PROVE  date <= now' /\ \A p \in Live' : p \in keep \/ date <= limit'[p] + MaxCommitInterval
  BY <1>1, CoversStep DEF Covers
<1>2. /\ latest.date \in Int /\ queued.date \in Int /\ walk.before + MaxTimeSkew \in Int
      /\ now' \in Nat
  BY DEF TypeOK, Filters
<1>3. \A p \in Live' : limit'[p] \in Nat
  BY DEF TypeOK, Live
<1>4. ASSUME NEW F \in {latest', queued'}, F = latest \/ F = queued \/ F = NoFilter
      PROVE  F.date <= now' /\ \A p \in Live' : p \in F.keep \/ F.date <= limit'[p] + MaxCommitInterval
  <2>1. CASE F = NoFilter
    BY <1>2, <1>3, <2>1 DEF NoFilter
  <2>2. CASE F = latest
    BY <1>1, <1>2, <2>2 DEF FilterInv
  <2>3. CASE F = queued
    BY <1>1, <1>2, <2>3 DEF FilterInv
  <2> QED
    BY <1>4, <2>1, <2>2, <2>3
<1>5. Covers(latest.keep, latest.date)'
  <2>1. ASSUME NEW F \in FalsePositives, BuildFilter(F), latest' # latest
        PROVE  Covers(latest.keep, latest.date)'
    <3>1. PICK s \in DOMAIN rows : latest' = Filter(F, rows[s])
      BY <2>1 DEF BuildFilter
    <3>2. latest'.date = rows[s] /\ Live \subseteq latest'.keep
      BY <3>1 DEF Filter
    <3>3. now' = now /\ status' = status
      BY <2>1 DEF BuildFilter
    <3> QED
      BY <3>2, <3>3 DEF Covers, Live, FileInv
  <2>2. ASSUME latest' \in {latest, NoFilter} PROVE Covers(latest.keep, latest.date)'
    BY <1>4, <2>2 DEF Covers
  <2>3. ASSUME NEW p \in Pieces, CreateLimit(p) \/ Upload(p) \/ DeletePiece(p) \/ VisitBlob(p)
        PROVE  latest' = latest
    BY <2>3 DEF CreateLimit, Upload, DeletePiece, VisitBlob
  <2>4. ASSUME NEW s \in Segments, Segment(s) PROVE latest' = latest
    BY <2>4 DEF Segment, Commit, UpdatePieces, DeleteSegment
  <2>5. CASE Trashing
    BY <2>2, <2>5 DEF Trashing, StartEmpty, VisitTrash, EmptyFile, EndEmpty, StartRestore,
       BeginRestore, RestoreFile, EndRestore
  <2>6. CASE Send
    BY <2>2, <2>6 DEF Send
  <2>7. CASE BeginWalk \/ TrashBlob \/ EndWalk \/ NodeRestart \/ Tick \/ UNCHANGED vars
    BY <2>2, <2>7 DEF BeginWalk, TrashBlob, EndWalk, NodeRestart, Tick, vars
  <2> QED
    BY <2>1, <2>2, <2>3, <2>4, <2>5, <2>6, <2>7 DEF Next, Filtering
<1>6. Covers(queued.keep, queued.date)'
  <2>1. queued' \in {latest, queued, NoFilter}
    <3>1. ASSUME NEW p \in Pieces, CreateLimit(p) \/ Upload(p) \/ DeletePiece(p) \/ VisitBlob(p)
          PROVE  queued' = queued
      BY <3>1 DEF CreateLimit, Upload, DeletePiece, VisitBlob, nodeVars
    <3>2. ASSUME NEW s \in Segments, Segment(s) PROVE queued' = queued
      BY <3>2 DEF Segment, Commit, UpdatePieces, DeleteSegment, nodeVars
    <3>3. CASE Filtering
      BY <3>3 DEF Filtering, BuildFilter, Send, nodeVars
    <3>4. CASE Trashing
      BY <3>4 DEF Trashing, StartEmpty, VisitTrash, EmptyFile, EndEmpty, StartRestore,
         BeginRestore, RestoreFile, EndRestore
    <3>5. CASE BeginWalk \/ TrashBlob \/ EndWalk \/ NodeRestart \/ Tick \/ UNCHANGED vars
      BY <3>5 DEF BeginWalk, TrashBlob, EndWalk, NodeRestart, Tick, vars, nodeVars
    <3> QED
      BY <3>1, <3>2, <3>3, <3>4, <3>5 DEF Next
  <2> QED
    BY <1>4, <2>1 DEF Covers
<1>7. /\ walk'.on => Covers(walk.keep, walk.before + MaxTimeSkew)'
      /\ walk'.piece # None => Lapsed(walk.piece)'
  <2>1. CASE BeginWalk
    <3>1. /\ walk'.keep = queued.keep /\ walk'.before = queued.date - MaxTimeSkew
          /\ walk'.piece = None
      BY <2>1 DEF BeginWalk, NoWalk, CreatedBefore
    <3>2. walk'.before + MaxTimeSkew = queued.date
      BY <1>2, <3>1
    <3>3. Covers(queued.keep, queued.date)
      BY DEF FilterInv
    <3>4. queued.date <= now' /\ \A p \in Live' : p \in queued.keep \/ queued.date <= limit'[p] + MaxCommitInterval
      BY <1>1, <1>2, <3>3
    <3>5. Covers(walk.keep, walk.before + MaxTimeSkew)'
      BY <3>1, <3>2, <3>4 DEF Covers
    <3> QED
      BY <3>1, <3>5
  <2>2. ASSUME walk'.keep = walk.keep, walk'.before = walk.before, walk'.on = walk.on
        PROVE  walk'.on => Covers(walk.keep, walk.before + MaxTimeSkew)'
    BY <1>1, <1>2, <2>2 DEF Covers, FilterInv
  <2>3. ASSUME walk'.piece = walk.piece PROVE walk'.piece # None => Lapsed(walk.piece)'
    <3>1. ASSUME walk.piece # None PROVE walk.piece \in Pieces /\ Lapsed(walk.piece)
      BY <3>1 DEF FilterInv, TypeOK
    <3> QED
      BY <2>3, <3>1, LapsedStep DEF Lapsed, InTime
  <2>4. ASSUME NEW p \in Pieces, VisitBlob(p)
        PROVE  /\ walk'.on => Covers(walk.keep, walk.before + MaxTimeSkew)'
               /\ walk'.piece # None => Lapsed(walk.piece)'
    <3>1. /\ walk'.keep = walk.keep /\ walk'.before = walk.before /\ walk'.on = walk.on
          /\ walk'.piece = p
      BY <2>4 DEF VisitBlob, TypeOK
    <3>2. Lapsed(p)
      BY <2>4, GarbageLapsed DEF VisitBlob, FilterInv
    <3> QED
      BY <2>2, <3>1, <3>2, LapsedStep DEF Lapsed, InTime
  <2>5. CASE TrashBlob
    BY <2>2, <2>5 DEF TrashBlob, TypeOK
  <2>6. CASE EndWalk \/ NodeRestart
    BY <2>6 DEF EndWalk, NodeRestart, NoWalk
  <2>7. CASE UNCHANGED walk
    BY <2>2, <2>3, <2>7
  <2>8. ASSUME NEW p \in Pieces, CreateLimit(p) \/ Upload(p) \/ DeletePiece(p)
        PROVE  UNCHANGED walk
    BY <2>8 DEF CreateLimit, Upload, DeletePiece, nodeVars
  <2>9. ASSUME NEW s \in Segments, Segment(s) PROVE UNCHANGED walk
    BY <2>9 DEF Segment, Commit, UpdatePieces, DeleteSegment, nodeVars
  <2>10. CASE Filtering
    BY <2>7, <2>10 DEF Filtering, BuildFilter, Send, nodeVars
  <2>11. CASE Trashing
    BY <2>7, <2>11 DEF Trashing, StartEmpty, VisitTrash, EmptyFile, EndEmpty, StartRestore,
       BeginRestore, RestoreFile, EndRestore
  <2>12. CASE Tick \/ UNCHANGED vars
    BY <2>7, <2>12 DEF Tick, vars, nodeVars
  <2> QED
    BY <2>1, <2>4, <2>5, <2>6, <2>7, <2>8, <2>9, <2>10, <2>11, <2>12 DEF Next
<1> QED
  BY <1>5, <1>6, <1>7 DEF FilterInv

\* What a step of the satellite does not do to the files, and what one of the node
\* does not do to the rows.
LEMMA FileStep ==
    ASSUME TypeOK, Kept, [Next]_vars
    PROVE  FileInv'
<1> USE CollectionAssumption DEF Kept, FileInv
<1>0. /\ now \in Nat /\ Clock = now + Offset /\ Clock \in Int
      /\ \A p \in Pieces : limit[p] \in Nat
      /\ \A p \in DOMAIN blobs : p \in Pieces /\ blobs[p] \in Int
      /\ \A p \in DOMAIN trash : p \in Pieces /\ trash[p] \in Int
      /\ \A s \in DOMAIN rows : s \in Segments /\ rows[s] \in Nat
      /\ status \in [Pieces -> {"none", "limited", "stored", "live", "dead"}]
      /\ limit \in [Pieces -> Nat]
  BY DEF TypeOK, IsFiles, Clock
<1>1. ASSUME NEW q \in Pieces, CreateLimit(q) PROVE FileInv'
  <2>1. now' = now /\ rows' = rows /\ blobs' = blobs /\ trash' = trash
    BY <1>1 DEF CreateLimit, nodeVars
  <2>2. /\ limit' = [limit EXCEPT ![q] = now]
        /\ status' = [status EXCEPT ![q] = "limited"]
        /\ status[q] = "none"
    BY <1>1 DEF CreateLimit
  <2>3. \A p \in Pieces \ {q} : limit'[p] = limit[p] /\ status'[p] = status[p]
    BY <1>0, <2>2
  <2>4. limit'[q] = now /\ status'[q] = "limited"
    BY <1>0, <2>2
  <2>5. q \notin DOMAIN blobs \cup DOMAIN trash
    BY <2>2
  <2>6. \A p \in Pieces : limit'[p] <= now
    BY <1>0, <2>3, <2>4
  <2>7. \A p \in Pieces : status'[p] \in {"live", "stored"} /\ ~Lapsed(p)' => p \in DOMAIN blobs
    BY <2>1, <2>3, <2>4 DEF Lapsed, InTime
  <2> QED
    BY <1>0, <2>1, <2>3, <2>5, <2>6, <2>7
<1>2. ASSUME NEW q \in Pieces, Upload(q) PROVE FileInv'
  <2>1. /\ now' = now /\ rows' = rows /\ trash' = trash /\ limit' = limit
        /\ status[q] = "limited"
        /\ status' = [status EXCEPT ![q] = "stored"]
        /\ blobs' = With(blobs, q, Clock)
    BY <1>2 DEF Upload
  <2>2. \A p \in Pieces \ {q} : status'[p] = status[p]
    BY <1>0, <2>1
  <2>3. status'[q] = "stored"
    BY <1>0, <2>1
  <2>4. /\ DOMAIN blobs' = DOMAIN blobs \cup {q} /\ blobs'[q] = Clock
        /\ \A p \in DOMAIN blobs : p # q => blobs'[p] = blobs[p]
    BY <2>1 DEF With
  <2>5. q \notin DOMAIN blobs \cup DOMAIN trash
    BY <2>1
  <2>6. blobs'[q] >= limit[q] + Offset
    BY <1>0, <2>4
  <2>7. \A p \in Pieces : status'[p] \in {"live", "stored"} /\ ~Lapsed(p)' => p \in DOMAIN blobs'
    BY <2>1, <2>2, <2>4 DEF Lapsed, InTime
  <2> QED
    BY <1>0, <2>1, <2>2, <2>3, <2>4, <2>5, <2>6, <2>7
<1>3. ASSUME NEW q \in Pieces, Lapsed(q), ToTrash(q), UNCHANGED satelliteVars PROVE FileInv'
  <2>1. now' = now /\ rows' = rows /\ limit' = limit /\ status' = status
    BY <1>3 DEF satelliteVars
  <2>2. q \in DOMAIN blobs /\ trash' = With(trash, q, Clock) /\ blobs' = Without(blobs, {q})
    BY <1>3 DEF ToTrash
  <2>3. /\ DOMAIN trash' = DOMAIN trash \cup {q} /\ trash'[q] = Clock
        /\ \A p \in DOMAIN trash : p # q => trash'[p] = trash[p]
    BY <2>2 DEF With
  <2>4. /\ DOMAIN blobs' = DOMAIN blobs \ {q}
        /\ \A p \in DOMAIN blobs \ {q} : blobs'[p] = blobs[p]
    BY <2>2 DEF Without, Restrict
  <2>5. Clock >= limit[q] + Offset
    BY <1>0
  <2>6. \A p \in Pieces : status'[p] \in {"live", "stored"} /\ ~Lapsed(p)' => p \in DOMAIN blobs'
    BY <1>3, <2>1, <2>4 DEF Lapsed, InTime
  <2> QED
    BY <1>0, <2>1, <2>2, <2>3, <2>4, <2>5, <2>6
<1>4. ASSUME NEW q \in Pieces, DeletePiece(q) PROVE FileInv'
  BY <1>3, <1>4 DEF DeletePiece, Lapsed
<1>5. ASSUME UNCHANGED satelliteVars, UNCHANGED <<blobs, trash>> PROVE FileInv'
  BY <1>5 DEF satelliteVars, Lapsed, InTime
<1>6. ASSUME NEW q \in Pieces, VisitBlob(q) PROVE FileInv'
  BY <1>5, <1>6 DEF VisitBlob
<1>7. ASSUME NEW s \in Segments, Segment(s) PROVE FileInv'
  <2>1. now' = now /\ blobs' = blobs /\ trash' = trash /\ limit' = limit
    BY <1>7 DEF Segment, Commit, UpdatePieces, DeleteSegment, nodeVars
  <2>2. \A t \in DOMAIN rows' : rows'[t] <= now
    <3>1. ASSUME NEW P \in SUBSET Pieces, Commit(s, P) PROVE \A t \in DOMAIN rows' : rows'[t] <= now
      <4>1. rows' = With(rows, s, now)
        BY <3>1 DEF Commit
      <4>2. /\ DOMAIN rows' = DOMAIN rows \cup {s} /\ rows'[s] = now
            /\ \A t \in DOMAIN rows : t # s => rows'[t] = rows[t]
        BY <4>1 DEF With
      <4> QED
        BY <1>0, <4>2
    <3>2. ASSUME DeleteSegment(s) PROVE \A t \in DOMAIN rows' : rows'[t] <= now
      BY <3>2 DEF DeleteSegment, Without, Restrict
    <3> QED
      BY <1>7, <3>1, <3>2 DEF Segment, UpdatePieces
  <2>3. ASSUME NEW p \in Pieces
        PROVE  \/ status'[p] = status[p]
               \/ status[p] = "stored" /\ InTime(p) /\ status'[p] = "live"
               \/ status[p] = "live" /\ status'[p] = "dead"
    BY <1>7, <2>3 DEF Segment, Commit, UpdatePieces, DeleteSegment, Committable, Live
  <2>4. \A p \in Pieces : status'[p] \in {"live", "stored"} /\ ~Lapsed(p)' => p \in DOMAIN blobs
    BY <2>1, <2>3 DEF Lapsed, InTime
  <2>5. \A p \in DOMAIN blobs \cup DOMAIN trash : status'[p] \notin {"none", "limited"}
    BY <1>0, <2>3
  <2> QED
    BY <2>1, <2>2, <2>4, <2>5
<1>8. CASE Filtering
  <2>1. /\ now' = now /\ rows' = rows /\ limit' = limit /\ status' = status
        /\ blobs' = blobs /\ trash' = trash
    BY <1>8 DEF Filtering, BuildFilter, Send, nodeVars, satelliteVars
  <2> QED
    BY <2>1 DEF Lapsed, InTime
<1>9. CASE TrashBlob
  <2>1. walk.piece \in Pieces /\ Lapsed(walk.piece) /\ UNCHANGED satelliteVars
    BY <1>9 DEF TrashBlob, TypeOK, FilterInv
  <2>2. ASSUME walk.piece \in DOMAIN blobs, blobs' = With(blobs, walk.piece, Clock), UNCHANGED trash
        PROVE  FileInv'
    <3>1. now' = now /\ rows' = rows /\ limit' = limit /\ status' = status
      BY <2>1 DEF satelliteVars
    <3>2. /\ DOMAIN blobs' = DOMAIN blobs /\ blobs'[walk.piece] = Clock
          /\ \A p \in DOMAIN blobs : p # walk.piece => blobs'[p] = blobs[p]
      <4>1. DOMAIN blobs' = DOMAIN blobs \cup {walk.piece}
        BY <2>2 DEF With
      <4>2. \A p \in DOMAIN blobs : blobs'[p] = IF p = walk.piece THEN Clock ELSE blobs[p]
        BY <2>2 DEF With
      <4>3. DOMAIN blobs' = DOMAIN blobs
        BY <2>2, <4>1, ZenonT(30)
      <4>4. blobs'[walk.piece] = Clock
        BY <2>2, <4>2
      <4>5. \A p \in DOMAIN blobs : p # walk.piece => blobs'[p] = blobs[p]
        BY <4>2
      <4> QED
        BY <4>3, <4>4, <4>5
    <3>3. blobs'[walk.piece] >= limit[walk.piece] + Offset
      BY <1>0, <2>1, <3>2
    <3>4. \A p \in DOMAIN blobs' : blobs'[p] >= limit[p] + Offset
      BY <3>2, <3>3
    <3> QED
      BY <2>2, <3>1, <3>2, <3>4 DEF Lapsed, InTime
  <2> QED
    BY <1>3, <1>5, <1>9, <2>1, <2>2 DEF TrashBlob
<1>10. CASE BeginWalk \/ EndWalk \/ NodeRestart
  BY <1>5, <1>10 DEF BeginWalk, EndWalk, NodeRestart
<1>11. CASE EmptyFile
  <2>1. UNCHANGED satelliteVars /\ blobs' = blobs /\ trash' = Without(trash, {emptier.piece})
    BY <1>11 DEF EmptyFile
  <2>2. /\ DOMAIN trash' \subseteq DOMAIN trash
        /\ \A p \in DOMAIN trash' : trash'[p] = trash[p]
    BY <2>1 DEF Without, Restrict
  <2> QED
    BY <2>1, <2>2 DEF satelliteVars, Lapsed, InTime
<1>12. ASSUME NEW q \in Pieces, RestoreFile(q) PROVE FileInv'
  <2>1. /\ now' = now /\ rows' = rows /\ limit' = limit /\ status' = status
        /\ q \in DOMAIN trash
        /\ blobs' = With(blobs, q, trash[q]) /\ trash' = Without(trash, {q})
    BY <1>12 DEF RestoreFile, satelliteVars
  <2>2. /\ DOMAIN blobs' = DOMAIN blobs \cup {q} /\ blobs'[q] = trash[q]
        /\ \A p \in DOMAIN blobs : p # q => blobs'[p] = blobs[p]
    BY <2>1 DEF With
  <2>3. /\ DOMAIN trash' = DOMAIN trash \ {q}
        /\ \A p \in DOMAIN trash \ {q} : trash'[p] = trash[p]
    BY <2>1 DEF Without, Restrict
  <2> QED
    BY <1>0, <2>1, <2>2, <2>3 DEF Lapsed, InTime
<1>13. CASE Trashing
  <2>1. CASE StartEmpty \/ EndEmpty \/ StartRestore \/ BeginRestore \/ EndRestore
    BY <1>5, <2>1 DEF StartEmpty, EndEmpty, StartRestore, BeginRestore, EndRestore
  <2>2. ASSUME NEW q \in Pieces, VisitTrash(q) PROVE FileInv'
    BY <1>5, <2>2 DEF VisitTrash
  <2> QED
    BY <1>11, <1>12, <1>13, <2>1, <2>2 DEF Trashing
<1>14. CASE Tick
  <2>1. /\ now' = now + 1 /\ rows' = rows /\ limit' = limit /\ status' = status
        /\ blobs' = blobs /\ trash' = trash
    BY <1>14 DEF Tick, nodeVars
  <2>2. \A p \in Pieces : ~Lapsed(p)' => ~Lapsed(p)
    BY <1>0, <2>1 DEF Lapsed, InTime
  <2> QED
    BY <1>0, <2>1, <2>2
<1>15. CASE UNCHANGED vars
  BY <1>5, <1>15 DEF vars, nodeVars
<1> QED
  BY <1>1, <1>2, <1>4, <1>6, <1>7, <1>8, <1>9, <1>10, <1>13, <1>14, <1>15 DEF Next

\* A piece that a segment has is among the blobs of the node (LivePiecesKept): no
\* walk trashes one that is used, or that an upload under way may still commit.
THEOREM LivePiecesCorrect == Spec => []LivePiecesKept
<1>1. TypeOK /\ Kept /\ [Next]_vars => Kept'
  BY NextType, FilterStep, FileStep DEF Kept
<1>2. Kept => LivePiecesKept
  BY DEF Kept, FileInv, LivePiecesKept, Live, Lapsed
<1> QED
  BY <1>1, <1>2, InitKept, TypeCorrect, PTL DEF Spec

-----------------------------------------------------------------------------
(* The trash.  What the job looked at when it chose a file is still true when *)
(* it deletes the one of that name: nothing else takes a file out of the      *)
(* trash meanwhile, and one comes in only if there was none.                  *)

EmptierInv ==
    /\ DOMAIN blobs \cap DOMAIN trash = {}
    /\ emptier.on => emptier.before <= TrashedBefore
    /\ emptier.piece # None =>
          emptier.piece \in DOMAIN trash /\ trash[emptier.piece] < emptier.before

LEMMA InitEmptier == Init => EmptierInv
BY DEF Init, EmptierInv, NoEmptier

\* A file that comes into the trash was not there, and leaves the others alone.
LEMMA TrashGrows ==
    ASSUME TypeOK, EmptierInv, NEW p \in Pieces, ToTrash(p)
    PROVE  /\ \A q \in DOMAIN trash : q \in DOMAIN trash' /\ trash'[q] = trash[q]
           /\ DOMAIN blobs' \cap DOMAIN trash' = {}
<1>1. p \in DOMAIN blobs /\ trash' = With(trash, p, Clock) /\ blobs' = Without(blobs, {p})
  BY DEF ToTrash
<1>2. /\ DOMAIN trash' = DOMAIN trash \cup {p}
      /\ \A q \in DOMAIN trash : q # p => trash'[q] = trash[q]
  BY <1>1 DEF With
<1>3. DOMAIN blobs' = DOMAIN blobs \ {p}
  BY <1>1 DEF Without, Restrict
<1> QED
  BY <1>1, <1>2, <1>3 DEF EmptierInv

LEMMA EmptierStep ==
    ASSUME TypeOK, TypeOK', Kept, EmptierInv, [Next]_vars
    PROVE  /\ EmptierInv'
           /\ \A p \in DOMAIN trash \ (DOMAIN trash' \cup DOMAIN blobs') :
                 trash[p] < Clock - TrashExpiry
<1> USE CollectionAssumption
<1> DEFINE Expired == \A p \in DOMAIN trash \ (DOMAIN trash' \cup DOMAIN blobs') :
                         trash[p] < Clock - TrashExpiry
           Stays == \A q \in DOMAIN trash : q \in DOMAIN trash' /\ trash'[q] = trash[q]
           Apart == DOMAIN blobs' \cap DOMAIN trash' = {}
<1>0. /\ now \in Nat /\ Clock \in Int /\ TrashedBefore = Clock - TrashExpiry
      /\ \A p \in DOMAIN trash : p \in Pieces /\ trash[p] \in Int
      /\ emptier.before \in Int
  BY DEF TypeOK, IsFiles, Clock, TrashedBefore
<1>1. now' \in Nat /\ now' >= now
  BY NowGrows
<1>2. TrashedBefore <= TrashedBefore'
  BY <1>0, <1>1 DEF TrashedBefore, Clock
<1>3. ASSUME emptier' = emptier, Stays, Apart PROVE EmptierInv' /\ Expired
  <2>1. emptier.on => emptier.before <= TrashedBefore'
    BY <1>0, <1>1, <1>2 DEF EmptierInv, TrashedBefore, Clock
  <2> QED
    BY <1>3, <2>1 DEF EmptierInv
<1>4. ASSUME emptier' = emptier, UNCHANGED <<blobs, trash>> PROVE EmptierInv' /\ Expired
  BY <1>3, <1>4 DEF EmptierInv
<1>5. ASSUME NEW p \in Pieces, CreateLimit(p) PROVE EmptierInv' /\ Expired
  BY <1>4, <1>5 DEF CreateLimit, nodeVars, trashVars
<1>6. ASSUME NEW p \in Pieces, Upload(p) PROVE EmptierInv' /\ Expired
  <2>1. p \notin DOMAIN trash
    BY <1>6 DEF Upload, Kept, FileInv
  <2>2. DOMAIN blobs' = DOMAIN blobs \cup {p} /\ trash' = trash /\ emptier' = emptier
    BY <1>6 DEF Upload, With, trashVars
  <2> QED
    BY <1>3, <2>1, <2>2 DEF EmptierInv
<1>7. ASSUME NEW p \in Pieces, DeletePiece(p) PROVE EmptierInv' /\ Expired
  BY <1>3, <1>7, TrashGrows DEF DeletePiece, trashVars
<1>8. ASSUME NEW p \in Pieces, VisitBlob(p) PROVE EmptierInv' /\ Expired
  BY <1>4, <1>8 DEF VisitBlob, trashVars
<1>9. ASSUME NEW s \in Segments, Segment(s) PROVE EmptierInv' /\ Expired
  BY <1>4, <1>9 DEF Segment, Commit, UpdatePieces, DeleteSegment, nodeVars, trashVars
<1>10. CASE Filtering
  BY <1>4, <1>10 DEF Filtering, BuildFilter, Send, nodeVars, trashVars
<1>11. CASE TrashBlob
  <2>1. walk.piece \in Pieces /\ emptier' = emptier
    BY <1>11 DEF TrashBlob, TypeOK, trashVars
  <2>2. CASE ToTrash(walk.piece)
    BY <1>3, <2>1, <2>2, TrashGrows
  <2>3. ASSUME walk.piece \in DOMAIN blobs, blobs' = With(blobs, walk.piece, Clock), UNCHANGED trash
        PROVE  EmptierInv' /\ Expired
    <3>1. DOMAIN blobs' = DOMAIN blobs
      BY <2>3, ZenonT(30) DEF With
    <3> QED
      BY <1>3, <2>1, <2>3, <3>1 DEF EmptierInv
  <2> QED
    BY <1>4, <1>11, <2>1, <2>2, <2>3 DEF TrashBlob
<1>12. CASE BeginWalk \/ EndWalk \/ Tick
  BY <1>4, <1>12 DEF BeginWalk, EndWalk, Tick, nodeVars, trashVars
<1>13. ASSUME UNCHANGED <<blobs, trash>>, emptier' = NoEmptier PROVE EmptierInv' /\ Expired
  BY <1>13 DEF EmptierInv, NoEmptier
<1>14. CASE StartEmpty
  <2>1. /\ emptier'.on /\ emptier'.before = TrashedBefore /\ emptier'.piece = None
        /\ UNCHANGED <<blobs, trash, now>>
    BY <1>14 DEF StartEmpty, NoEmptier, satelliteVars
  <2>2. TrashedBefore' = TrashedBefore
    BY <2>1 DEF TrashedBefore, Clock
  <2> QED
    BY <1>0, <2>1, <2>2 DEF EmptierInv
<1>15. ASSUME NEW p \in Pieces, VisitTrash(p) PROVE EmptierInv' /\ Expired
  <2>1. /\ emptier'.on = emptier.on /\ emptier'.before = emptier.before /\ emptier'.piece = p
        /\ UNCHANGED <<blobs, trash, now>> /\ p \in DOMAIN trash /\ trash[p] < emptier.before
    BY <1>15 DEF VisitTrash, TypeOK, satelliteVars
  <2>2. TrashedBefore' = TrashedBefore
    BY <2>1 DEF TrashedBefore, Clock
  <2> QED
    BY <2>1, <2>2 DEF EmptierInv
<1>16. CASE EmptyFile
  <2>1. /\ emptier'.on = emptier.on /\ emptier'.before = emptier.before /\ emptier'.piece = None
        /\ UNCHANGED <<blobs, now>> /\ DOMAIN trash' = DOMAIN trash \ {emptier.piece}
        /\ emptier.on /\ emptier.piece # None
    BY <1>16 DEF EmptyFile, TypeOK, satelliteVars, Without, Restrict
  <2>2. TrashedBefore' = TrashedBefore
    BY <2>1 DEF TrashedBefore, Clock
  <2>3. EmptierInv'
    BY <2>1, <2>2 DEF EmptierInv
  <2>4. trash[emptier.piece] < emptier.before /\ emptier.before <= Clock - TrashExpiry
    BY <1>0, <2>1 DEF EmptierInv
  <2>5. emptier.piece \in DOMAIN trash
    BY <2>1 DEF EmptierInv
  <2>6. trash[emptier.piece] < Clock - TrashExpiry
    BY <1>0, <2>4, <2>5
  <2> QED
    BY <2>1, <2>3, <2>6
<1>17. CASE EndEmpty \/ NodeRestart
  BY <1>13, <1>17 DEF EndEmpty, NodeRestart
<1>18. CASE StartRestore \/ BeginRestore \/ EndRestore
  BY <1>4, <1>18 DEF StartRestore, BeginRestore, EndRestore
<1>19. ASSUME NEW p \in Pieces, RestoreFile(p) PROVE EmptierInv' /\ Expired
  <2>1. ~emptier.on /\ emptier.piece = None /\ emptier' = emptier
    BY <1>19 DEF RestoreFile, TypeOK, trashVars
  <2>2. /\ DOMAIN blobs' = DOMAIN blobs \cup {p} /\ DOMAIN trash' = DOMAIN trash \ {p}
    BY <1>19 DEF RestoreFile, With, Without, Restrict
  <2> QED
    BY <2>1, <2>2 DEF EmptierInv
<1>20. CASE UNCHANGED vars
  BY <1>4, <1>20 DEF vars, nodeVars, trashVars
<1> QED
  BY <1>5, <1>6, <1>7, <1>8, <1>9, <1>10, <1>11, <1>12, <1>14, <1>15, <1>16, <1>17, <1>18,
     <1>19, <1>20 DEF Next, Trashing

\* A piece stays in the trash for TrashExpiry (TrashKept), also when the trash is
\* emptied and restored at the same time.
THEOREM TrashCorrect == Spec => TrashKept
<1>1. TypeOK /\ Kept /\ EmptierInv /\ [Next]_vars => Kept' /\ EmptierInv'
  BY NextType, FilterStep, FileStep, EmptierStep DEF Kept
<1>2. TypeOK /\ TypeOK' /\ Kept /\ EmptierInv /\ [Next]_vars =>
         [\A p \in DOMAIN trash \ (DOMAIN trash' \cup DOMAIN blobs') :
             trash[p] < Clock - TrashExpiry]_vars
  BY EmptierStep
<1> QED
  BY <1>1, <1>2, InitKept, InitEmptier, TypeCorrect, PTL DEF Spec, TrashKept
==============================================================================
