--------------------------- MODULE MetabaseProofs ---------------------------
(* Theorems about Metabase, for any number of locations, streams, versions, *)
(* positions, pieces, ticks and batches.                                    *)
EXTENDS Metabase, FiniteSetTheorems, TLAPS

-----------------------------------------------------------------------------
(* The operators shared by every delete *)

\* Promoted streams are copies that lose their ancestor and stay.
LEMMA PromotedAreOrphans ==
    ASSUME NEW D, NEW P \in Promotions(D), NEW p \in P
    PROVE  p \in DOMAIN copies /\ p \notin D /\ copies[p] \in D
BY DEF Promotions, Orphans

\* Every copy that loses its ancestor and stays has a promoted sibling, or is it.
LEMMA OrphanHasPromoted ==
    ASSUME NEW D, NEW P \in Promotions(D),
           NEW c \in DOMAIN copies, c \notin D, copies[c] \in D
    PROVE  /\ (CHOOSE p \in P : copies[p] = copies[c]) \in P
           /\ copies[CHOOSE p \in P : copies[p] = copies[c]] = copies[c]
<1>1. c \in Orphans(D)
  BY DEF Orphans
<1>2. \E p \in P : copies[p] = copies[c]
  BY <1>1 DEF Promotions
<1> QED
  BY <1>2

\* The copies that are left: a copy keeps its ancestor or follows the promoted
\* sibling, which is no copy any more.
LEMMA CopiesLeft ==
    ASSUME NEW D, NEW P \in Promotions(D), NEW c \in DOMAIN CopiesWithout(D, P)
    PROVE  /\ c \in DOMAIN copies /\ c \notin D /\ c \notin P
           /\ \/ copies[c] \notin D /\ CopiesWithout(D, P)[c] = copies[c]
              \/ /\ copies[c] \in D
                 /\ CopiesWithout(D, P)[c] \in P
                 /\ copies[CopiesWithout(D, P)[c]] = copies[c]
<1>1. c \in DOMAIN copies /\ c \notin D /\ c \notin P
  BY DEF CopiesWithout
<1>2. CASE copies[c] \notin D
  BY <1>1, <1>2 DEF CopiesWithout
<1>3. CASE copies[c] \in D
  <2>1. CopiesWithout(D, P)[c] = CHOOSE p \in P : copies[p] = copies[c]
    BY <1>1, <1>3 DEF CopiesWithout
  <2> QED
    BY <1>1, <1>3, <2>1, OrphanHasPromoted
<1> QED
  BY <1>1, <1>2, <1>3

\* The ancestor that FinishCopyObject registers for a copy, ancestorStreamID.
NewAncestor(r, D, P) ==
    IF ReadAncestor(r) \in D THEN CHOOSE p \in P : copies[p] = ReadAncestor(r)
    ELSE ReadAncestor(r)

\* It is the source, the source's ancestor, or the promoted sibling of the source
\* when the destination was that ancestor.
LEMMA NewAncestorIs ==
    ASSUME NEW r, NEW D, NEW P \in Promotions(D), r.stream \notin D
    PROVE  \/ r.stream \notin DOMAIN copies /\ NewAncestor(r, D, P) = r.stream
           \/ SourceMissing(r) /\ NewAncestor(r, D, P) = r.stream
           \/ /\ r.stream \in DOMAIN copies /\ copies[r.stream] \notin D
              /\ NewAncestor(r, D, P) = copies[r.stream]
           \/ /\ r.stream \in DOMAIN copies /\ copies[r.stream] \in D
              /\ NewAncestor(r, D, P) \in P
              /\ copies[NewAncestor(r, D, P)] = copies[r.stream]
<1>1. CASE ReadAncestor(r) = r.stream /\ (SourceMissing(r) \/ r.stream \notin DOMAIN copies)
  BY <1>1 DEF NewAncestor
<1>2. CASE r.stream \in DOMAIN copies /\ ReadAncestor(r) = copies[r.stream]
  BY <1>2, OrphanHasPromoted DEF NewAncestor
<1> QED
  BY <1>1, <1>2 DEF ReadAncestor

-----------------------------------------------------------------------------
(* Types.  That a copy has well-formed segments rests on its stream id being *)
(* new to every table, so the inductive invariant is TypeOK /\ Fresh.        *)

\* No table has heard of a stream id that is still to be drawn.
Fresh ==
    /\ \A s \in DOMAIN objects : s < nextStream
    /\ \A k \in DOMAIN segments : k[1] < nextStream
    /\ \A c \in DOMAIN copies : c < nextStream /\ copies[c] < nextStream

TypeInv == TypeOK /\ Fresh

\* The rows that are left when some objects are deleted.
LEMMA RowsLeft ==
    ASSUME TypeOK, NEW D, NEW P \in Promotions(D)
    PROVE  /\ DOMAIN ObjectsWithout(D) = DOMAIN objects \ D
           /\ \A s \in DOMAIN ObjectsWithout(D) :
                 ObjectsWithout(D)[s] = objects[s] /\ ObjectsWithout(D)[s] \in ObjectRow
           /\ DOMAIN SegmentsWithout(D, P) = {k \in DOMAIN segments : k[1] \notin D}
           /\ \A k \in DOMAIN SegmentsWithout(D, P) : SegmentsWithout(D, P)[k] \in SegmentRow
           /\ DOMAIN CopiesWithout(D, P) = DOMAIN copies \ (D \cup P)
           /\ PiecesToDelete(D) \subseteq Roots \cup {NoRoot}
<1>1. /\ DOMAIN ObjectsWithout(D) = DOMAIN objects \ D
      /\ \A s \in DOMAIN ObjectsWithout(D) :
            ObjectsWithout(D)[s] = objects[s] /\ ObjectsWithout(D)[s] \in ObjectRow
  BY DEF TypeOK, ObjectsWithout, Restrict
<1>2. \A k \in DOMAIN SegmentsWithout(D, P) : SegmentsWithout(D, P)[k] \in SegmentRow
  BY DEF TypeOK, SegmentsWithout, SegmentRow
<1>3. DOMAIN SegmentsWithout(D, P) = {k \in DOMAIN segments : k[1] \notin D}
  BY DEF SegmentsWithout
<1>4. DOMAIN CopiesWithout(D, P) = DOMAIN copies \ (D \cup P)
  BY DEF CopiesWithout
<1>5. PiecesToDelete(D) \subseteq Roots \cup {NoRoot}
  BY DEF PiecesToDelete, TypeOK, SegmentRow
<1> QED
  BY <1>1, <1>2, <1>3, <1>4, <1>5

\* The copies that are left are streams that were drawn before.
LEMMA CopiesLeftType ==
    ASSUME TypeInv, NEW D, NEW P \in Promotions(D), NEW c \in DOMAIN CopiesWithout(D, P)
    PROVE  /\ c \in Streams /\ c < nextStream
           /\ CopiesWithout(D, P)[c] \in Streams /\ CopiesWithout(D, P)[c] < nextStream
<1>1. c \in DOMAIN copies
  BY CopiesLeft
<1>2. \/ CopiesWithout(D, P)[c] = copies[c]
      \/ CopiesWithout(D, P)[c] \in P
  BY CopiesLeft
<1>3. \A p \in P : p \in DOMAIN copies
  BY PromotedAreOrphans
<1> QED
  BY <1>1, <1>2, <1>3 DEF TypeInv, TypeOK, Fresh

\* The number of the segments of a stream is a number.
LEMMA SegmentCountType ==
    ASSUME NEW s
    PROVE  Cardinality(SegmentsOf(s)) \in Nat
<1>1. IsFiniteSet(SegmentsOf(s))
  BY BoundsAssumption, FS_Subset DEF SegmentsOf
<1> QED
  BY <1>1, FS_CardinalityType

\* The tables after the objects D were deleted.
LEMMA TablesLeftType ==
    ASSUME TypeInv, NEW D, NEW P \in Promotions(D), nextStream' >= nextStream,
           segments' = SegmentsWithout(D, P), copies' = CopiesWithout(D, P),
           nextStream' \in Nat
    PROVE  /\ DOMAIN segments' \subseteq Streams \X Positions
           /\ \A k \in DOMAIN segments' : segments'[k] \in SegmentRow /\ k[1] < nextStream'
           /\ DOMAIN copies' \subseteq Streams
           /\ \A c \in DOMAIN copies' : copies'[c] \in Streams
           /\ \A c \in DOMAIN copies' : c < nextStream' /\ copies'[c] < nextStream'
<1> USE DEF TypeInv
<1>1. DOMAIN segments' \subseteq DOMAIN segments
  BY DEF SegmentsWithout
<1>2. DOMAIN segments' \subseteq Streams \X Positions
  BY <1>1 DEF TypeOK
<1>3. \A k \in DOMAIN segments' : k[1] \in Nat /\ k[1] < nextStream
  BY <1>1 DEF Fresh, TypeOK, Streams
<1>4. nextStream \in Nat
  BY BoundsAssumption DEF TypeOK
<1>5. \A k \in DOMAIN segments' : segments'[k] \in SegmentRow
  BY RowsLeft
<1>6. \A c \in DOMAIN copies' : /\ c \in Streams /\ c < nextStream
                                /\ copies'[c] \in Streams /\ copies'[c] < nextStream
  BY CopiesLeftType
<1> QED
  BY <1>2, <1>3, <1>4, <1>5, <1>6 DEF Streams

LEMMA DeleteObjectsType ==
    ASSUME TypeInv, NEW D, DeleteObjects(D), UNCHANGED <<nextStream, now, requests, chores>>
    PROVE  TypeInv'
<1> USE DEF TypeInv
<1>1. PICK P \in Promotions(D) :
        /\ objects' = ObjectsWithout(D)
        /\ segments' = SegmentsWithout(D, P)
        /\ copies' = CopiesWithout(D, P)
        /\ deletedPieces' = deletedPieces \cup PiecesToDelete(D)
  BY DEF DeleteObjects
<1>2. nextStream' = nextStream /\ nextStream \in Nat
  BY BoundsAssumption DEF TypeOK
<1>3. /\ DOMAIN objects' \subseteq Streams
      /\ \A s \in DOMAIN objects' : objects'[s] \in ObjectRow
      /\ \A s \in DOMAIN objects' : s < nextStream'
  <2>1. ASSUME NEW s \in DOMAIN objects'
        PROVE  s \in DOMAIN objects /\ objects'[s] \in ObjectRow
    BY <1>1, RowsLeft
  <2>2. \A s \in DOMAIN objects : s \in Streams /\ s < nextStream
    BY DEF TypeOK, Fresh
  <2> QED
    BY <1>2, <2>1, <2>2
<1>4. deletedPieces' \subseteq Roots \cup {NoRoot}
  BY <1>1, RowsLeft DEF TypeOK
<1>5. /\ DOMAIN segments' \subseteq Streams \X Positions
      /\ \A k \in DOMAIN segments' : segments'[k] \in SegmentRow /\ k[1] < nextStream'
      /\ DOMAIN copies' \subseteq Streams
      /\ \A c \in DOMAIN copies' : copies'[c] \in Streams
      /\ \A c \in DOMAIN copies' : c < nextStream' /\ copies'[c] < nextStream'
  BY <1>1, <1>2, TablesLeftType
<1>6. TypeOK'
  BY <1>2, <1>3, <1>4, <1>5 DEF TypeOK, requests, chores
<1>7. Fresh'
  BY <1>3, <1>5 DEF Fresh
<1> QED
  BY <1>6, <1>7

LEMMA FinishCopyObjectType ==
    ASSUME TypeInv, NEW dst \in Locations, FinishCopyObject(dst)
    PROVE  TypeInv'
<1> USE DEF TypeInv
<1> DEFINE r == begun["copy"]
           D == ReadDestination(r, dst)
<1>1. r \in BeginResult
  BY DEF TypeOK, FinishCopyObject
<1>2. /\ nextStream \in Streams /\ nextStream' = nextStream + 1
      /\ r.stream \in ReadSource(r, dst) /\ r.stream \notin D
      /\ SegmentsOf(r.stream) = r.keys
      /\ UNCHANGED <<now, deletedPieces, requests, chores>>
  BY DEF FinishCopyObject
<1>3. PICK P \in Promotions(D), v \in Versions :
        /\ objects' = [s \in (DOMAIN objects \ D) \cup {nextStream} |->
                          IF s = nextStream THEN CopiedObject(r.stream, dst, v) ELSE objects[s]]
        /\ segments' = [k \in {k \in DOMAIN segments : k[1] \notin D}
                                 \cup {<<nextStream, p>> : p \in r.keys} |->
              IF k[1] = nextStream
              THEN [segments[<<r.stream, k[2]>>] EXCEPT !.pieces = NoPieces, !.created = now]
              ELSE SegmentsWithout(D, P)[k]]
        /\ \/ copies' = CopiesWithout(D, P)
           \/ copies' = [c \in (DOMAIN copies \ (D \cup P)) \cup {nextStream} |->
                            IF c = nextStream THEN NewAncestor(r, D, P)
                            ELSE CopiesWithout(D, P)[c]]
  BY DEF FinishCopyObject, NewAncestor
<1>4. r.stream \in DOMAIN objects
  BY <1>2 DEF ReadSource, SourceRow, LastCommittedAt, CommittedAt, At
<1>5. nextStream \in Nat /\ nextStream' \in 1..(MaxStream + 1)
  BY <1>2, BoundsAssumption DEF Streams
<1>6. /\ DOMAIN objects' \subseteq Streams
      /\ \A s \in DOMAIN objects' : objects'[s] \in ObjectRow
      /\ \A s \in DOMAIN objects' : s < nextStream'
  <2>1. CopiedObject(r.stream, dst, v) \in ObjectRow
    BY <1>4 DEF TypeOK, CopiedObject, ObjectRow
  <2>2. DOMAIN objects' = (DOMAIN objects \ D) \cup {nextStream}
    BY <1>3
  <2>3. \A s \in DOMAIN objects : s \in Nat /\ s < nextStream
    BY DEF TypeOK, Fresh, Streams
  <2>4. ASSUME NEW s \in DOMAIN objects'
        PROVE  s \in Streams /\ s < nextStream' /\ objects'[s] \in ObjectRow
    <3>1. CASE s = nextStream
      <4>1. objects'[s] = CopiedObject(r.stream, dst, v)
        BY <1>3, <2>2, <3>1
      <4> QED
        BY <1>2, <1>5, <2>1, <3>1, <4>1
    <3>2. CASE s # nextStream
      <4>1. s \in DOMAIN objects /\ objects'[s] = objects[s]
        BY <1>3, <2>2, <3>2
      <4>2. s \in Streams /\ objects[s] \in ObjectRow
        BY <4>1 DEF TypeOK
      <4> QED
        BY <1>2, <1>5, <2>3, <4>1, <4>2
    <3> QED
      BY <3>1, <3>2
  <2> QED
    BY <2>4
<1>7. DOMAIN segments' = {k \in DOMAIN segments : k[1] \notin D}
                            \cup {<<nextStream, p>> : p \in r.keys}
  BY <1>3
<1>8. /\ DOMAIN segments' \subseteq Streams \X Positions
      /\ \A k \in DOMAIN segments' : k[1] < nextStream'
  <2>1. \A k \in DOMAIN segments : k \in Streams \X Positions /\ k[1] \in Nat /\ k[1] < nextStream
    BY DEF TypeOK, Fresh, Streams
  <2>2. r.keys \subseteq Positions
    BY <1>1 DEF BeginResult
  <2> QED
    BY <1>2, <1>5, <1>7, <2>1, <2>2
<1>9. ASSUME NEW k \in DOMAIN segments'
      PROVE  segments'[k] \in SegmentRow
  <2>1. CASE k \in {<<nextStream, p>> : p \in r.keys}
    <3>1. PICK p \in r.keys : k = <<nextStream, p>>
      BY <2>1
    <3>2. segments[<<r.stream, p>>] \in SegmentRow
      BY <1>2, <3>1 DEF SegmentsOf, TypeOK
    <3>3. k[1] = nextStream /\ k[2] = p
      BY <3>1
    <3>4. segments'[k] = [segments[<<r.stream, p>>] EXCEPT !.pieces = NoPieces, !.created = now]
      BY <1>3, <3>3
    <3>5. now \in 0..MaxTime /\ NoPieces \in NoPieces..MaxPieces
      BY BoundsAssumption DEF TypeOK, NoPieces
    <3>6. ASSUME NEW row \in SegmentRow
          PROVE  [row EXCEPT !.pieces = NoPieces, !.created = now] \in SegmentRow
      BY <3>5 DEF SegmentRow
    <3> QED
      BY <3>2, <3>4, <3>6
  <2>2. CASE k \in {j \in DOMAIN segments : j[1] \notin D}
    <3>1. k[1] # nextStream
      BY <2>2 DEF Fresh, TypeOK
    <3>2. segments'[k] = SegmentsWithout(D, P)[k]
      BY <1>3, <3>1
    <3> QED
      BY <2>2, <3>2, RowsLeft
  <2> QED
    BY <1>7, <2>1, <2>2
<1>10. /\ NewAncestor(r, D, P) \in Streams
       /\ NewAncestor(r, D, P) < nextStream
  <2>1. \A p \in P : p \in DOMAIN copies
    BY PromotedAreOrphans
  <2>2. NewAncestor(r, D, P) \in {r.stream} \cup {copies[c] : c \in DOMAIN copies} \cup P
    BY <1>2, NewAncestorIs
  <2> QED
    BY <1>4, <2>1, <2>2 DEF TypeOK, Fresh
<1>11. ASSUME NEW c \in DOMAIN copies'
       PROVE  /\ c \in Streams /\ c < nextStream'
              /\ copies'[c] \in Streams /\ copies'[c] < nextStream'
  <2>1. ASSUME c \in DOMAIN CopiesWithout(D, P)
        PROVE  /\ c \in Streams /\ c < nextStream'
               /\ CopiesWithout(D, P)[c] \in Streams /\ CopiesWithout(D, P)[c] < nextStream'
    BY <1>2, <1>5, <2>1, CopiesLeftType DEF Streams
  <2>2. CASE copies' = CopiesWithout(D, P)
    BY <2>1, <2>2
  <2>3. CASE copies' = [e \in (DOMAIN copies \ (D \cup P)) \cup {nextStream} |->
                          IF e = nextStream THEN NewAncestor(r, D, P)
                          ELSE CopiesWithout(D, P)[e]]
    <3>1. CASE c = nextStream
      BY <1>2, <1>5, <1>10, <2>3, <3>1 DEF Streams
    <3>2. CASE c # nextStream
      <4>1. c \in DOMAIN CopiesWithout(D, P)
        BY <2>3, <3>2 DEF CopiesWithout
      <4> QED
        BY <2>1, <2>3, <3>2, <4>1
    <3> QED
      BY <3>1, <3>2
  <2> QED
    BY <1>3, <2>2, <2>3
<1>12. TypeOK'
  BY <1>2, <1>5, <1>6, <1>8, <1>9, <1>11 DEF TypeOK, requests, chores
<1> QED
  BY <1>6, <1>8, <1>11, <1>12 DEF Fresh

LEMMA UploadType ==
    ASSUME TypeInv, Upload
    PROVE  TypeInv'
<1> USE DEF TypeInv
<1>1. ASSUME NEW l \in Locations, BeginObjectNextVersion(l)
      PROVE  TypeInv'
  <2>1. PICK v \in Versions, e \in {x \in Expirations : x > now} \cup {Never} :
          objects' = [s \in DOMAIN objects \cup {nextStream} |->
              IF s = nextStream
              THEN [loc |-> l, version |-> v, status |-> "pending", expires |-> e,
                    deadline |-> now + ZombieAfter, count |-> 0]
              ELSE objects[s]]
    BY <1>1 DEF BeginObjectNextVersion
  <2>2. /\ nextStream \in Streams /\ nextStream' = nextStream + 1
        /\ UNCHANGED <<segments, copies, now, deletedPieces, requests, chores>>
    BY <1>1 DEF BeginObjectNextVersion
  <2>3. nextStream \in Nat /\ nextStream' \in 1..(MaxStream + 1)
    BY <2>2, BoundsAssumption DEF Streams
  <2>4. [loc |-> l, version |-> v, status |-> "pending", expires |-> e,
         deadline |-> now + ZombieAfter, count |-> 0] \in ObjectRow
    <3>1. now + ZombieAfter \in Nat
      BY BoundsAssumption DEF TypeOK
    <3>2. e \in 1..Never
      BY BoundsAssumption DEF Never
    <3> QED
      BY <3>1, <3>2 DEF ObjectRow
  <2>5. ASSUME NEW s \in DOMAIN objects'
        PROVE  s \in Streams /\ s < nextStream' /\ objects'[s] \in ObjectRow
    <3>1. CASE s = nextStream
      BY <2>1, <2>2, <2>3, <2>4, <3>1
    <3>2. CASE s # nextStream
      <4>1. s \in DOMAIN objects /\ objects'[s] = objects[s]
        BY <2>1, <3>2
      <4> QED
        BY <2>2, <2>3, <4>1 DEF TypeOK, Fresh, Streams
    <3> QED
      BY <3>1, <3>2
  <2>6. TypeOK'
    BY <2>2, <2>3, <2>5 DEF TypeOK, requests, chores
  <2>7. Fresh'
    <3>1. \A k \in DOMAIN segments : k[1] \in Nat
      BY DEF TypeOK, Streams
    <3>2. \A c \in DOMAIN copies : c \in Nat /\ copies[c] \in Nat
      BY DEF TypeOK, Streams
    <3> QED
      BY <2>2, <2>3, <2>5, <3>1, <3>2 DEF Fresh
  <2> QED
    BY <2>6, <2>7
<1>2. ASSUME NEW s \in DOMAIN objects, NEW p \in Positions, NEW row \in SegmentRow,
             UpsertSegment(s, p, row)
      PROVE  TypeInv'
  <2>1. /\ segments' = [k \in DOMAIN segments \cup {<<s, p>>} |->
                          IF k = <<s, p>> THEN row ELSE segments[k]]
        /\ UNCHANGED <<objects, copies, nextStream, now, deletedPieces, requests, chores>>
    BY <1>2 DEF UpsertSegment
  <2>2. DOMAIN segments' = DOMAIN segments \cup {<<s, p>>}
    BY <2>1
  <2>3. \A k \in DOMAIN segments' : segments'[k] \in SegmentRow
    <3>1. \A k \in DOMAIN segments : segments[k] \in SegmentRow
      BY DEF TypeOK
    <3> QED
      BY <2>1, <2>2, <3>1
  <2>4. DOMAIN segments' \subseteq Streams \X Positions
    BY <2>2 DEF TypeOK
  <2>5. \A k \in DOMAIN segments' : k[1] < nextStream
    BY <2>2 DEF Fresh
  <2>6. TypeOK'
    BY <2>1, <2>3, <2>4 DEF TypeOK, requests, chores
  <2>7. Fresh'
    BY <2>1, <2>5 DEF Fresh
  <2> QED
    BY <2>6, <2>7
<1>3. ASSUME NEW s \in DOMAIN objects, NEW p \in Positions
      PROVE  SegmentRowOf(s, p) \in SegmentRow
  BY BoundsAssumption DEF SegmentRowOf, SegmentRow, TypeOK, NoPieces
<1>4. ASSUME NEW s \in DOMAIN objects, NEW p \in Positions, CommitSegment(s, p)
      PROVE  TypeInv'
  <2>1. PICK a \in Attempts :
          UpsertSegment(s, p, [SegmentRowOf(s, p) EXCEPT
              !.root = <<s, p, a>>, !.pieces = 1, !.redundancy = TRUE])
    BY <1>4 DEF CommitSegment
  <2>2. <<s, p, a>> \in Roots /\ 1 \in NoPieces..MaxPieces
    BY BoundsAssumption DEF TypeOK, Roots, NoPieces
  <2>3. ASSUME NEW row \in SegmentRow
        PROVE  [row EXCEPT !.root = <<s, p, a>>, !.pieces = 1, !.redundancy = TRUE] \in SegmentRow
    BY <2>2 DEF SegmentRow
  <2> QED
    BY <1>2, <1>3, <2>1, <2>3
<1>5. ASSUME NEW s \in DOMAIN objects, NEW p \in Positions, CommitInlineSegment(s, p)
      PROVE  TypeInv'
  <2>1. ASSUME NEW row \in SegmentRow
        PROVE  [row EXCEPT !.root = NoRoot, !.inline = TRUE] \in SegmentRow
    BY DEF SegmentRow
  <2> QED
    BY <1>2, <1>3, <1>5, <2>1 DEF CommitInlineSegment
<1>6. ASSUME NEW s \in DOMAIN objects, CommitObject(s)
      PROVE  TypeInv'
  <2> DEFINE D == CommittedAt(objects[s].loc)
  <2>1. PICK P \in Promotions(D) :
          /\ objects' = [ObjectsWithout(D) EXCEPT
                           ![s].status = "committed", ![s].deadline = 0,
                           ![s].count = Cardinality(SegmentsOf(s))]
          /\ segments' = SegmentsWithout(D, P)
          /\ copies' = CopiesWithout(D, P)
          /\ deletedPieces' = deletedPieces \cup PiecesToDelete(D)
                                \cup (IF s \in DOMAIN aborted THEN aborted[s] ELSE {})
    BY <1>6 DEF CommitObject
  <2>2. /\ aborted' = Restrict(aborted, DOMAIN aborted \ {s})
        /\ UNCHANGED <<nextStream, now, begun, repair, chores>>
    BY <1>6 DEF CommitObject
  <2>3. nextStream' = nextStream /\ nextStream \in Nat
    BY <2>2, BoundsAssumption DEF TypeOK
  <2>4. \A t \in DOMAIN objects' : t \in DOMAIN objects /\ objects'[t] \in ObjectRow
    <3>1. \A t \in DOMAIN ObjectsWithout(D) :
            t \in DOMAIN objects /\ ObjectsWithout(D)[t] \in ObjectRow
      BY <2>1, RowsLeft
    <3>2. DOMAIN objects' = DOMAIN ObjectsWithout(D)
      BY <2>1
    <3>3. ASSUME NEW row \in ObjectRow
          PROVE  [row EXCEPT !.status = "committed", !.deadline = 0,
                             !.count = Cardinality(SegmentsOf(s))] \in ObjectRow
      BY SegmentCountType DEF ObjectRow
    <3>4. ASSUME NEW t \in DOMAIN ObjectsWithout(D)
          PROVE  objects'[t] = IF t = s
                   THEN [ObjectsWithout(D)[t] EXCEPT !.status = "committed", !.deadline = 0,
                                                     !.count = Cardinality(SegmentsOf(s))]
                   ELSE ObjectsWithout(D)[t]
      BY <2>1
    <3> QED
      BY <3>1, <3>2, <3>3, <3>4
  <2>5. \A t \in DOMAIN objects : t \in Streams /\ t < nextStream
    BY DEF TypeOK, Fresh
  <2>6. deletedPieces' \subseteq Roots \cup {NoRoot}
    BY <2>1, RowsLeft DEF TypeOK
  <2>7. DOMAIN aborted' \subseteq DOMAIN aborted /\ \A t \in DOMAIN aborted' : aborted'[t] = aborted[t]
    BY <2>2 DEF Restrict
  <2>8. /\ DOMAIN segments' \subseteq Streams \X Positions
        /\ \A k \in DOMAIN segments' : segments'[k] \in SegmentRow /\ k[1] < nextStream'
        /\ DOMAIN copies' \subseteq Streams
        /\ \A c \in DOMAIN copies' : copies'[c] \in Streams
        /\ \A c \in DOMAIN copies' : c < nextStream' /\ copies'[c] < nextStream'
    BY <2>1, <2>3, TablesLeftType
  <2>9. TypeOK'
    BY <2>2, <2>4, <2>5, <2>6, <2>7, <2>8 DEF TypeOK, chores
  <2>10. Fresh'
    BY <2>3, <2>4, <2>5, <2>8 DEF Fresh
  <2> QED
    BY <2>9, <2>10
<1>7. ASSUME NEW s \in DOMAIN objects, AbortCommitObject(s)
      PROVE  TypeInv'
  <2> DEFINE D == CommittedAt(objects[s].loc)
  <2>1. /\ aborted' = [t \in DOMAIN aborted \cup {s} |->
              (IF t \in DOMAIN aborted THEN aborted[t] ELSE {})
                \cup (IF t = s THEN PiecesToDelete(D) ELSE {})]
        /\ UNCHANGED <<tables, nextStream, now, deletedPieces, begun, repair, chores>>
    BY <1>7 DEF AbortCommitObject
  <2>2. PiecesToDelete(D) \subseteq Roots \cup {NoRoot}
    BY DEF PiecesToDelete, TypeOK, SegmentRow
  <2>3. \A t \in DOMAIN aborted' : t \in Streams /\ aborted'[t] \subseteq Roots \cup {NoRoot}
    BY <2>1, <2>2 DEF TypeOK
  <2> QED
    BY <2>1, <2>3 DEF TypeOK, Fresh, tables, chores
<1> QED
  BY <1>1, <1>4, <1>5, <1>6, <1>7 DEF Upload

LEMMA DeleteType ==
    ASSUME TypeInv, Delete
    PROVE  TypeInv'
<1> USE DEF TypeInv
<1>1. ASSUME NEW s \in DOMAIN objects, DeletePendingObject(s)
      PROVE  TypeInv'
  <2>1. /\ objects' = ObjectsWithout({s})
        /\ segments' = Restrict(segments, {k \in DOMAIN segments : k[1] # s})
        /\ deletedPieces' = deletedPieces \cup
              {segments[k].root : k \in {k \in DOMAIN segments :
                  k[1] = s /\ segments[k].pieces # NoPieces}}
        /\ UNCHANGED <<copies, nextStream, now, requests, chores>>
    BY <1>1 DEF DeletePendingObject
  <2>2. \A t \in DOMAIN objects' : t \in DOMAIN objects /\ objects'[t] = objects[t]
    BY <2>1 DEF ObjectsWithout, Restrict
  <2>3. \A k \in DOMAIN segments' : k \in DOMAIN segments /\ segments'[k] = segments[k]
    BY <2>1 DEF Restrict
  <2>4. deletedPieces' \subseteq Roots \cup {NoRoot}
    BY <2>1 DEF TypeOK, SegmentRow
  <2>5. TypeOK'
    BY <2>1, <2>2, <2>3, <2>4 DEF TypeOK, requests, chores
  <2>6. Fresh'
    BY <2>1, <2>2, <2>3 DEF Fresh
  <2> QED
    BY <2>5, <2>6
<1>2. ASSUME NEW l \in Locations, DeleteObjectLastCommitted(l)
      PROVE  TypeInv'
  BY <1>2, DeleteObjectsType DEF DeleteObjectLastCommitted
<1>3. ASSUME NEW l \in Locations, DeleteObjectExactVersion(l)
      PROVE  TypeInv'
  BY <1>3, DeleteObjectsType DEF DeleteObjectExactVersion
<1>4. ASSUME NEW b, DeleteBucketBatch(b)
      PROVE  TypeInv'
  BY <1>4, DeleteObjectsType DEF DeleteBucketBatch
<1> QED
  BY <1>1, <1>2, <1>3, <1>4 DEF Delete

LEMMA CopyMoveType ==
    ASSUME TypeInv, CopyMove
    PROVE  TypeInv'
<1> USE DEF TypeInv
<1>1. ASSUME NEW op \in Handshakes, NEW l \in Locations, BeginMoveCopyObject(op, l)
      PROVE  TypeInv'
  <2>1. PICK s \in CommittedAt(l) :
          begun' = [o \in DOMAIN begun \cup {op} |->
              IF o = op THEN [stream |-> s, loc |-> l, version |-> objects[s].version,
                              keys |-> SegmentsOf(s)]
              ELSE begun[o]]
    BY <1>1 DEF BeginMoveCopyObject
  <2>2. UNCHANGED <<tables, nextStream, now, deletedPieces, repair, aborted, chores>>
    BY <1>1 DEF BeginMoveCopyObject
  <2>3. [stream |-> s, loc |-> l, version |-> objects[s].version, keys |-> SegmentsOf(s)]
          \in BeginResult
    BY <2>1 DEF CommittedAt, At, TypeOK, ObjectRow, BeginResult, SegmentsOf
  <2>4. DOMAIN begun' \subseteq {"copy", "move"}
    BY <2>1, BoundsAssumption DEF TypeOK
  <2>5. \A o \in DOMAIN begun' : begun'[o] \in BeginResult
    BY <2>1, <2>3 DEF TypeOK
  <2>6. TypeOK'
    BY <2>2, <2>4, <2>5 DEF TypeOK, tables, chores
  <2> QED
    BY <2>2, <2>6 DEF Fresh, tables
<1>2. ASSUME NEW l \in Locations, FinishMoveObject(l)
      PROVE  TypeInv'
  <2> DEFINE r == begun["move"]
  <2>1. PICK v \in Versions :
          objects' = [objects EXCEPT ![r.stream].loc = l, ![r.stream].version = v]
    BY <1>2 DEF FinishMoveObject
  <2>2. /\ UNCHANGED <<segments, copies, nextStream, now, deletedPieces, requests, chores>>
        /\ r.stream \in DOMAIN objects
    BY <1>2 DEF FinishMoveObject
  <2>3. ASSUME NEW row \in ObjectRow
        PROVE  [row EXCEPT !.loc = l, !.version = v] \in ObjectRow
    BY DEF ObjectRow
  <2>4. DOMAIN objects' = DOMAIN objects
    BY <2>1
  <2>5. \A s \in DOMAIN objects : objects[s] \in ObjectRow
    BY DEF TypeOK
  <2>6. ASSUME NEW s \in DOMAIN objects
        PROVE  objects'[s] = IF s = r.stream THEN [objects[s] EXCEPT !.loc = l, !.version = v]
                             ELSE objects[s]
    BY <2>1, <2>2
  <2>7. \A s \in DOMAIN objects' : objects'[s] \in ObjectRow
    BY <2>3, <2>4, <2>5, <2>6
  <2>8. TypeOK'
    BY <2>2, <2>4, <2>7 DEF TypeOK, requests, chores
  <2> QED
    BY <2>2, <2>4, <2>8 DEF Fresh
<1> QED
  BY <1>1, <1>2, FinishCopyObjectType DEF CopyMove

LEMMA RepairType ==
    ASSUME TypeInv, Repair
    PROVE  TypeInv'
<1> USE DEF TypeInv
<1>1. ASSUME NEW s \in DOMAIN objects, NEW p \in Positions, ReadForRepair(s, p)
      PROVE  TypeInv'
  <2>1. repair' \subseteq RepairRead
    BY <1>1 DEF ReadForRepair, RepairRead, TypeOK
  <2> QED
    BY <1>1, <2>1 DEF ReadForRepair, TypeOK, Fresh, tables, chores
<1>2. ASSUME NEW r \in repair, UpdateSegmentPieces(r)
      PROVE  TypeInv'
  <2> DEFINE k == <<r.stream, r.pos>>
  <2>1. /\ segments' = IF k \in DOMAIN segments /\ segments[k].pieces = r.pieces
                       THEN [segments EXCEPT ![k].pieces = r.pieces + 1, ![k].redundancy = TRUE]
                       ELSE segments
        /\ repair' = repair \ {r}
        /\ UNCHANGED <<objects, copies, nextStream, now, deletedPieces, begun, aborted, chores>>
    BY <1>2 DEF UpdateSegmentPieces
  <2>2. r.pieces + 1 \in NoPieces..MaxPieces
    BY BoundsAssumption DEF TypeOK, RepairRead, NoPieces
  <2>3. ASSUME NEW row \in SegmentRow
        PROVE  [row EXCEPT !.pieces = r.pieces + 1, !.redundancy = TRUE] \in SegmentRow
    BY <2>2 DEF SegmentRow
  <2>4. DOMAIN segments' = DOMAIN segments
    BY <2>1
  <2>5. \A j \in DOMAIN segments : segments[j] \in SegmentRow
    BY DEF TypeOK
  <2>6. ASSUME NEW j \in DOMAIN segments
        PROVE  \/ segments'[j] = segments[j]
               \/ segments'[j] = [segments[j] EXCEPT !.pieces = r.pieces + 1, !.redundancy = TRUE]
    BY <2>1
  <2>7. \A j \in DOMAIN segments' : segments'[j] \in SegmentRow
    BY <2>3, <2>4, <2>5, <2>6
  <2>8. TypeOK'
    BY <2>1, <2>4, <2>7 DEF TypeOK, chores
  <2> QED
    BY <2>1, <2>4, <2>8 DEF Fresh
<1> QED
  BY <1>1, <1>2 DEF Repair

\* A pass of a chore that has selected a batch of objects that are there.
LEMMA NextPassType ==
    ASSUME TypeOK, NEW chore \in ChorePass, NEW S \in SUBSET DOMAIN objects,
           NEW pass \in NextPasses(chore, S)
    PROVE  pass \in ChorePass
<1>1. PassTime(chore) \in 0..MaxTime
  BY DEF TypeOK, PassTime, ChorePass
<1>2. \A s \in S : HandleOf(s) \in Handle
  BY DEF TypeOK, HandleOf, Handle, ObjectRow
<1>3. PICK B \in NextBatches(S, chore.last) :
        pass = IF B = {} THEN Idle ELSE [chore EXCEPT !.batch = B, !.at = PassTime(chore)]
  BY DEF NextPasses
<1>4. B \subseteq Handle
  BY <1>2, <1>3 DEF NextBatches, RowsAfter
<1>5. Idle \in ChorePass
  BY BoundsAssumption DEF Idle, ChorePass
<1> QED
  BY <1>1, <1>3, <1>4, <1>5 DEF ChorePass

LEMMA EndBatchType ==
    ASSUME NEW chore \in ChorePass
    PROVE  EndBatch(chore) \in ChorePass
BY DEF EndBatch, ChorePass

\* A chore's delete leaves rows as they are or removes them.
LEMMA RowsRemovedType ==
    ASSUME TypeInv, NEW D, NEW K,
           objects' = ObjectsWithout(D), segments' = Restrict(segments, DOMAIN segments \cap K),
           UNCHANGED <<copies, nextStream, now, deletedPieces, requests>>,
           zombies' \in ChorePass, expired' \in ChorePass
    PROVE  TypeInv'
<1> USE DEF TypeInv
<1>1. \A t \in DOMAIN objects' : t \in DOMAIN objects /\ objects'[t] = objects[t]
  BY DEF ObjectsWithout, Restrict
<1>2. \A k \in DOMAIN segments' : k \in DOMAIN segments /\ segments'[k] = segments[k]
  BY DEF Restrict
<1>3. TypeOK'
  BY <1>1, <1>2 DEF TypeOK, requests
<1> QED
  BY <1>1, <1>2, <1>3 DEF Fresh

LEMMA ChoresType ==
    ASSUME TypeInv, Chores
    PROVE  TypeInv'
<1> USE DEF TypeInv
<1>1. ASSUME SelectZombieObjects
      PROVE  TypeInv'
  <2>1. ZombieRows(PassTime(zombies)) \subseteq DOMAIN objects
    BY DEF ZombieRows
  <2>2. zombies' \in ChorePass
    BY <1>1, <2>1, NextPassType DEF SelectZombieObjects, TypeOK
  <2> QED
    BY <1>1, <2>2 DEF SelectZombieObjects, TypeOK, Fresh, tables, requests
<1>2. ASSUME SelectExpiredObjects
      PROVE  TypeInv'
  <2>1. ExpiredRows(PassTime(expired)) \subseteq DOMAIN objects
    BY DEF ExpiredRows
  <2>2. expired' \in ChorePass
    BY <1>2, <2>1, NextPassType DEF SelectExpiredObjects, TypeOK
  <2> QED
    BY <1>2, <2>2 DEF SelectExpiredObjects, TypeOK, Fresh, tables, requests
<1>3. ASSUME DeleteInactiveObjectsAndSegments
      PROVE  TypeInv'
  <2> DEFINE H == {h \in zombies.batch : InactiveAt(h.stream, zombies.at)}
             K == {k \in DOMAIN segments : \A h \in H : h.stream # k[1]}
  <2>1. objects' = ObjectsWithout({h.stream : h \in {g \in H : Selected(g)}})
    BY <1>3 DEF DeleteInactiveObjectsAndSegments
  <2>2. segments' = Restrict(segments, DOMAIN segments \cap K)
    <3>1. K = DOMAIN segments \cap K
      OBVIOUS
    <3> QED
      BY <1>3, <3>1 DEF DeleteInactiveObjectsAndSegments
  <2>3. /\ zombies' = EndBatch(zombies)
        /\ UNCHANGED <<copies, nextStream, now, deletedPieces, requests, expired>>
    BY <1>3 DEF DeleteInactiveObjectsAndSegments
  <2>4. zombies' \in ChorePass /\ expired' \in ChorePass
    BY <2>3, EndBatchType DEF TypeOK
  <2> HIDE DEF H, K
  <2> QED
    BY <2>1, <2>2, <2>3, <2>4, RowsRemovedType
<1>4. ASSUME DeleteObjectsAndSegments
      PROVE  TypeInv'
  <2> DEFINE K == {k \in DOMAIN segments : \A h \in expired.batch : h.stream # k[1]}
  <2>1. objects' = ObjectsWithout({h.stream : h \in {g \in expired.batch : Selected(g)}})
    BY <1>4 DEF DeleteObjectsAndSegments
  <2>2. segments' = Restrict(segments, DOMAIN segments \cap K)
    <3>1. K = DOMAIN segments \cap K
      OBVIOUS
    <3> QED
      BY <1>4, <3>1 DEF DeleteObjectsAndSegments
  <2>3. /\ expired' = EndBatch(expired)
        /\ UNCHANGED <<copies, nextStream, now, deletedPieces, requests, zombies>>
    BY <1>4 DEF DeleteObjectsAndSegments
  <2>4. zombies' \in ChorePass /\ expired' \in ChorePass
    BY <2>3, EndBatchType DEF TypeOK
  <2> HIDE DEF K
  <2> QED
    BY <2>1, <2>2, <2>3, <2>4, RowsRemovedType
<1> QED
  BY <1>1, <1>2, <1>3, <1>4 DEF Chores

LEMMA TypeInit == Init => TypeInv
<1> SUFFICES ASSUME Init PROVE TypeInv
  OBVIOUS
<1>1. DOMAIN objects = {} /\ DOMAIN segments = {} /\ DOMAIN copies = {}
      /\ DOMAIN begun = {} /\ DOMAIN aborted = {}
  BY DEF Init
<1>2. Idle \in ChorePass
  BY BoundsAssumption DEF Idle, ChorePass
<1>3. nextStream \in 1..(MaxStream + 1) /\ now \in 0..MaxTime
  BY BoundsAssumption DEF Init
<1> QED
  BY <1>1, <1>2, <1>3 DEF Init, TypeInv, TypeOK, Fresh

LEMMA TypeNext == TypeInv /\ [Next]_vars => TypeInv'
<1> SUFFICES ASSUME TypeInv, [Next]_vars PROVE TypeInv'
  OBVIOUS
<1>1. CASE Tick
  <2>1. now' \in 0..MaxTime
    BY <1>1, BoundsAssumption DEF Tick, TypeInv, TypeOK
  <2> QED
    BY <1>1, <2>1 DEF Tick, TypeInv, TypeOK, Fresh, tables, requests, chores
<1>2. CASE UNCHANGED vars
  BY <1>2 DEF vars, TypeInv, TypeOK, Fresh, tables, requests, chores
<1> QED
  BY <1>1, <1>2, UploadType, DeleteType, CopyMoveType, RepairType, ChoresType DEF Next

\* Every reachable state is well formed and stream ids are used once, whatever the
\* clients, the chores and the repairs do (TypeOK).
THEOREM TypeCorrect == Spec => [](TypeOK /\ Fresh)
<1>1. Spec => []TypeInv
  BY TypeInit, TypeNext, PTL DEF Spec
<1> QED
  BY <1>1, PTL DEF TypeInv

-----------------------------------------------------------------------------
(* Versions and locations *)

\* The rows of these objects are as they were.
RowsKept(S) == \A s \in S : s \in DOMAIN objects /\ objects'[s] = objects[s]

\* Deletes, chores and repairs write no object row, they only remove some.
LEMMA OnlyRemoved ==
    ASSUME Delete \/ Chores \/ Repair \/ Tick \/ UNCHANGED vars
    PROVE  RowsKept(DOMAIN objects')
<1>1. ASSUME NEW D, objects' = ObjectsWithout(D)
      PROVE  RowsKept(DOMAIN objects')
  BY <1>1 DEF RowsKept, ObjectsWithout, Restrict
<1>2. CASE Delete
  <2>1. ASSUME NEW D, DeleteObjects(D)
        PROVE  RowsKept(DOMAIN objects')
    BY <1>1, <2>1 DEF DeleteObjects
  <2>2. CASE \E s \in DOMAIN objects : DeletePendingObject(s)
    BY <1>1, <2>2 DEF DeletePendingObject
  <2>3. CASE \E l \in Locations : DeleteObjectLastCommitted(l) \/ DeleteObjectExactVersion(l)
    BY <2>1, <2>3 DEF DeleteObjectLastCommitted, DeleteObjectExactVersion
  <2>4. CASE \E b \in Range(BucketOf) : DeleteBucketBatch(b)
    BY <2>1, <2>4 DEF DeleteBucketBatch
  <2> QED
    BY <1>2, <2>2, <2>3, <2>4 DEF Delete
<1>3. CASE Chores
  <2>1. CASE SelectZombieObjects \/ SelectExpiredObjects
    BY <2>1 DEF SelectZombieObjects, SelectExpiredObjects, tables, RowsKept
  <2>2. CASE DeleteInactiveObjectsAndSegments
    BY <1>1, <2>2 DEF DeleteInactiveObjectsAndSegments
  <2>3. CASE DeleteObjectsAndSegments
    BY <1>1, <2>3 DEF DeleteObjectsAndSegments
  <2> QED
    BY <1>3, <2>1, <2>2, <2>3 DEF Chores
<1>4. CASE Repair
  BY <1>4 DEF Repair, ReadForRepair, UpdateSegmentPieces, tables, RowsKept
<1>5. CASE Tick \/ UNCHANGED vars
  BY <1>5 DEF Tick, vars, tables, RowsKept
<1> QED
  BY <1>2, <1>3, <1>4, <1>5

\* Uploading a segment and starting a copy or a move write no object row either.
LEMMA RowsStep ==
    ASSUME [Next]_vars
    PROVE  \/ RowsKept(DOMAIN objects')
           \/ \E l \in Locations : BeginObjectNextVersion(l)
           \/ \E s \in DOMAIN objects : CommitObject(s)
           \/ \E l \in Locations : FinishCopyObject(l)
           \/ \E l \in Locations : FinishMoveObject(l)
<1>1. CASE Upload
  <2>1. ASSUME NEW s, NEW p, CommitSegment(s, p) \/ CommitInlineSegment(s, p)
        PROVE  RowsKept(DOMAIN objects')
    BY <2>1 DEF CommitSegment, CommitInlineSegment, UpsertSegment, RowsKept
  <2>2. ASSUME NEW s, AbortCommitObject(s)
        PROVE  RowsKept(DOMAIN objects')
    BY <2>2 DEF AbortCommitObject, tables, RowsKept
  <2> QED
    BY <1>1, <2>1, <2>2 DEF Upload
<1>2. CASE CopyMove
  <2>1. ASSUME NEW op, NEW l, BeginMoveCopyObject(op, l)
        PROVE  RowsKept(DOMAIN objects')
    BY <2>1 DEF BeginMoveCopyObject, tables, RowsKept
  <2> QED
    BY <1>2, <2>1 DEF CopyMove
<1> QED
  BY <1>1, <1>2, OnlyRemoved DEF Next

\* What BeginObjectNextVersion adds.
LEMMA BegunRow ==
    ASSUME TypeInv, NEW l \in Locations, BeginObjectNextVersion(l)
    PROVE  /\ DOMAIN objects' = DOMAIN objects \cup {nextStream}
           /\ RowsKept(DOMAIN objects' \ {nextStream})
           /\ objects'[nextStream].status = "pending"
           /\ objects'[nextStream].loc = l
           /\ IsNextVersion(l, objects'[nextStream].version)
BY DEF BeginObjectNextVersion, RowsKept

\* What FinishCopyObject adds, if its source is still where it was.
LEMMA CopiedRow ==
    ASSUME TypeInv, NEW l \in Locations, FinishCopyObject(l)
    PROVE  /\ DOMAIN objects' = (DOMAIN objects \ ReadDestination(begun["copy"], l)) \cup {nextStream}
           /\ RowsKept(DOMAIN objects' \ {nextStream})
           /\ begun["copy"].stream \in DOMAIN objects /\ Committed(begun["copy"].stream)
           /\ SourceMissing(begun["copy"]) => MoveCopyRace
           /\ objects'[nextStream].loc = l
           /\ IsNextVersion(l, objects'[nextStream].version)
           /\ objects'[nextStream].expires = objects[begun["copy"].stream].expires
           /\ objects'[nextStream].status = objects[begun["copy"].stream].status
<1> DEFINE r == begun["copy"]
<1>1. PICK v \in Versions :
        /\ IsNextVersion(l, v)
        /\ objects' = [s \in (DOMAIN objects \ ReadDestination(r, l)) \cup {nextStream} |->
                          IF s = nextStream THEN CopiedObject(r.stream, l, v) ELSE objects[s]]
  BY DEF FinishCopyObject
<1>2. r.stream \in ReadSource(r, l) /\ (MoveCopyRace \/ ~SourceMissing(r))
  BY DEF FinishCopyObject
<1>3. r.stream \in DOMAIN objects /\ Committed(r.stream)
  BY <1>2 DEF ReadSource, SourceRow, LastCommittedAt, CommittedAt, At
<1>5. objects'[nextStream] = [objects[r.stream] EXCEPT !.loc = l, !.version = v]
  BY <1>1 DEF CopiedObject
<1>6. objects[r.stream] \in ObjectRow
  BY <1>3 DEF TypeInv, TypeOK
<1>7. /\ objects'[nextStream].loc = l /\ objects'[nextStream].version = v
      /\ objects'[nextStream].expires = objects[r.stream].expires
      /\ objects'[nextStream].status = objects[r.stream].status
  BY <1>5, <1>6 DEF ObjectRow
<1> QED
  BY <1>1, <1>2, <1>3, <1>7 DEF RowsKept

\* What CommitObject changes.
LEMMA CommittedRow ==
    ASSUME TypeInv, NEW s \in DOMAIN objects, CommitObject(s)
    PROVE  /\ DOMAIN objects' = DOMAIN objects \ CommittedAt(objects[s].loc)
           /\ RowsKept(DOMAIN objects' \ {s})
           /\ s \in DOMAIN objects'
           /\ objects'[s].loc = objects[s].loc
           /\ objects'[s].version = objects[s].version
           /\ objects'[s].expires = objects[s].expires
           /\ objects'[s].status = "committed"
<1> DEFINE D == CommittedAt(objects[s].loc)
<1>1. objects' = [ObjectsWithout(D) EXCEPT
                    ![s].status = "committed", ![s].deadline = 0,
                    ![s].count = Cardinality(SegmentsOf(s))]
  BY DEF CommitObject
<1>2. s \notin D
  BY DEF CommitObject, Pending, CommittedAt, Committed
<1>3. DOMAIN ObjectsWithout(D) = DOMAIN objects \ D
      /\ \A t \in DOMAIN ObjectsWithout(D) : ObjectsWithout(D)[t] = objects[t]
  BY DEF ObjectsWithout, Restrict
<1>4. objects'[s] = [objects[s] EXCEPT !.status = "committed", !.deadline = 0,
                                       !.count = Cardinality(SegmentsOf(s))]
  BY <1>1, <1>2, <1>3
<1>5. objects[s] \in ObjectRow
  BY DEF TypeInv, TypeOK
<1>6. /\ objects'[s].loc = objects[s].loc /\ objects'[s].version = objects[s].version
      /\ objects'[s].expires = objects[s].expires /\ objects'[s].status = "committed"
  BY <1>4, <1>5 DEF ObjectRow
<1>7. \A t \in DOMAIN objects' \ {s} : t \in DOMAIN objects /\ objects'[t] = objects[t]
  BY <1>1, <1>3
<1>8. DOMAIN objects' = DOMAIN objects \ D
  BY <1>1, <1>3
<1> QED
  BY <1>2, <1>6, <1>7, <1>8 DEF RowsKept

\* What FinishMoveObject changes.
LEMMA MovedRow ==
    ASSUME TypeInv, NEW l \in Locations, FinishMoveObject(l)
    PROVE  /\ DOMAIN objects' = DOMAIN objects
           /\ begun["move"].stream \in DOMAIN objects
           /\ RowsKept(DOMAIN objects' \ {begun["move"].stream})
           /\ CommittedAt(l) = {}
           /\ objects'[begun["move"].stream].loc = l
           /\ MovedVersion(begun["move"], l, objects'[begun["move"].stream].version)
           /\ objects'[begun["move"].stream].expires = objects[begun["move"].stream].expires
           /\ objects'[begun["move"].stream].status = objects[begun["move"].stream].status
<1> DEFINE r == begun["move"]
<1>1. r.stream \in DOMAIN objects /\ CommittedAt(l) = {}
  BY DEF FinishMoveObject, MoveRefused
<1>2. PICK v \in Versions :
        /\ MovedVersion(r, l, v)
        /\ objects' = [objects EXCEPT ![r.stream].loc = l, ![r.stream].version = v]
  BY DEF FinishMoveObject
<1>3. objects'[r.stream] = [objects[r.stream] EXCEPT !.loc = l, !.version = v]
  BY <1>1, <1>2
<1>4. objects[r.stream] \in ObjectRow
  BY <1>1 DEF TypeInv, TypeOK
<1>5. /\ objects'[r.stream].loc = l /\ objects'[r.stream].version = v
      /\ objects'[r.stream].expires = objects[r.stream].expires
      /\ objects'[r.stream].status = objects[r.stream].status
  BY <1>3, <1>4 DEF ObjectRow
<1>6. DOMAIN objects' = DOMAIN objects
      /\ \A t \in DOMAIN objects' \ {r.stream} : objects'[t] = objects[t]
  BY <1>2
<1> QED
  BY <1>1, <1>2, <1>5, <1>6 DEF RowsKept

LEMMA PrimaryKeyNext == TypeInv /\ PrimaryKey /\ [Next]_vars => PrimaryKey'
<1> SUFFICES ASSUME TypeInv, PrimaryKey, [Next]_vars PROVE PrimaryKey'
  OBVIOUS
<1>1. CASE RowsKept(DOMAIN objects')
  BY <1>1 DEF RowsKept, PrimaryKey
<1>2. \A s \in DOMAIN objects : objects[s].version \in Nat
  BY DEF TypeInv, TypeOK, ObjectRow, Versions
<1>3. ASSUME NEW x \in DOMAIN objects', NEW l, objects'[x].loc = l,
             IsNextVersion(l, objects'[x].version), RowsKept(DOMAIN objects' \ {x})
      PROVE  PrimaryKey'
  <2>1. \A s \in DOMAIN objects' \ {x} :
          objects'[s].loc = l => objects'[s].version < objects'[x].version
    BY <1>3 DEF IsNextVersion, At, RowsKept
  <2>2. objects'[x].version \in Nat
    BY <1>3 DEF IsNextVersion, Versions
  <2>3. \A s \in DOMAIN objects' \ {x} : objects'[s].version \in Nat
    BY <1>2, <1>3 DEF RowsKept
  <2>4. ASSUME NEW s \in DOMAIN objects', NEW t \in DOMAIN objects', s # t,
               objects'[s].loc = objects'[t].loc, objects'[s].version = objects'[t].version
        PROVE  FALSE
    <3>1. CASE s # x /\ t # x
      BY <1>3, <2>4, <3>1 DEF PrimaryKey, RowsKept
    <3>2. CASE s = x \/ t = x
      BY <1>3, <2>1, <2>2, <2>3, <2>4, <3>2
    <3> QED
      BY <3>1, <3>2
  <2> QED
    BY <2>4 DEF PrimaryKey
<1>4. CASE \E l \in Locations : BeginObjectNextVersion(l)
  BY <1>3, <1>4, BegunRow
<1>5. CASE \E l \in Locations : FinishCopyObject(l)
  BY <1>3, <1>5, CopiedRow
<1>6. ASSUME NEW s \in DOMAIN objects, CommitObject(s)
      PROVE  PrimaryKey'
  <2>1. \A t \in DOMAIN objects' : /\ t \in DOMAIN objects
                                   /\ objects'[t].loc = objects[t].loc
                                   /\ objects'[t].version = objects[t].version
    BY <1>6, CommittedRow DEF RowsKept
  <2> QED
    BY <2>1 DEF PrimaryKey
<1>7. ASSUME NEW l \in Locations, FinishMoveObject(l)
      PROVE  PrimaryKey'
  <2> DEFINE x == begun["move"].stream
  <2>1. CASE \E t \in At(l) : objects[t].version = begun["move"].version
    <3>1. IsNextVersion(l, objects'[x].version)
      BY <1>7, <2>1, MovedRow DEF MovedVersion
    <3> QED
      BY <1>3, <1>7, <3>1, MovedRow
  <2>2. CASE \A t \in At(l) : objects[t].version # begun["move"].version
    BY <1>7, <2>2, MovedRow DEF MovedVersion, At, PrimaryKey, RowsKept
  <2> QED
    BY <2>1, <2>2
<1> QED
  BY <1>1, <1>4, <1>5, <1>6, <1>7, RowsStep

\* Whatever interleaves, begin, copy and move never pick a version that is taken
\* at their location: the primary key of objects is never violated.
THEOREM PrimaryKeyCorrect == Spec => []PrimaryKey
<1>1. Init => PrimaryKey
  <2>1. Init => DOMAIN objects = {}
    BY DEF Init
  <2> QED
    BY <2>1 DEF PrimaryKey
<1> QED
  BY <1>1, TypeInit, TypeNext, PrimaryKeyNext, PTL DEF Spec

\* With one committed row at a location, the newest committed row is all of them.
LEMMA NewestIsAll ==
    ASSUME TypeInv, OneCommittedPerLocation, NEW l
    PROVE  LastCommittedAt(l) = CommittedAt(l)
<1>1. \A s \in CommittedAt(l) : objects[s].version \in Nat
  BY DEF TypeInv, TypeOK, ObjectRow, Versions, CommittedAt, At
<1> QED
  BY <1>1 DEF LastCommittedAt, CommittedAt, At, OneCommittedPerLocation

LEMMA OneCommittedNext ==
    ~MoveCopyRace /\ TypeInv /\ OneCommittedPerLocation /\ [Next]_vars
        => OneCommittedPerLocation'
<1> SUFFICES ASSUME ~MoveCopyRace, TypeInv, OneCommittedPerLocation, [Next]_vars
             PROVE  OneCommittedPerLocation'
  OBVIOUS
<1>1. CASE RowsKept(DOMAIN objects')
  BY <1>1 DEF RowsKept, OneCommittedPerLocation, Committed
<1>2. ASSUME NEW x \in DOMAIN objects', RowsKept(DOMAIN objects' \ {x}),
             \/ objects'[x].status = "pending"
             \/ \A s \in DOMAIN objects' \ {x} : s \notin CommittedAt(objects'[x].loc)
      PROVE  OneCommittedPerLocation'
  <2>1. ASSUME NEW s \in DOMAIN objects', NEW t \in DOMAIN objects', s # t, s # x,
               objects'[s].loc = objects'[t].loc,
               objects'[s].status = "committed", objects'[t].status = "committed"
        PROVE  FALSE
    <3>1. s \in DOMAIN objects /\ objects'[s] = objects[s]
      BY <1>2, <2>1 DEF RowsKept
    <3>2. CASE t = x
      BY <1>2, <2>1, <3>1, <3>2 DEF CommittedAt, At, Committed
    <3>3. CASE t # x
      BY <1>2, <2>1, <3>1, <3>3 DEF RowsKept, OneCommittedPerLocation, Committed
    <3> QED
      BY <3>2, <3>3
  <2> QED
    BY <2>1 DEF OneCommittedPerLocation, Committed
<1>3. ASSUME NEW l \in Locations, BeginObjectNextVersion(l)
      PROVE  OneCommittedPerLocation'
  BY <1>2, <1>3, BegunRow
<1>4. ASSUME NEW l \in Locations, FinishCopyObject(l)
      PROVE  OneCommittedPerLocation'
  <2> DEFINE r == begun["copy"]
  <2>1. ReadDestination(r, l) = CommittedAt(l)
    BY <1>4, CopiedRow, NewestIsAll DEF ReadDestination
  <2>2. \A s \in DOMAIN objects' \ {nextStream} : s \notin CommittedAt(l)
    BY <1>4, <2>1, CopiedRow
  <2> QED
    BY <1>2, <1>4, <2>2, CopiedRow
<1>5. ASSUME NEW s \in DOMAIN objects, CommitObject(s)
      PROVE  OneCommittedPerLocation'
  BY <1>2, <1>5, CommittedRow
<1>6. ASSUME NEW l \in Locations, FinishMoveObject(l)
      PROVE  OneCommittedPerLocation'
  BY <1>2, <1>6, MovedRow
<1> QED
  BY <1>1, <1>3, <1>4, <1>5, <1>6, RowsStep

\* Uploads, copies and moves to one location interleave freely and still at most
\* one object is committed there, unless a copy is finished at the place its source
\* was moved to (MoveCopyRace, which getObjectAtCopySourceAndDestination gets wrong).
THEOREM OneCommittedCorrect == ~MoveCopyRace => (Spec => []OneCommittedPerLocation)
<1>1. Init => OneCommittedPerLocation
  <2>1. Init => DOMAIN objects = {}
    BY DEF Init
  <2> QED
    BY <2>1 DEF OneCommittedPerLocation, Committed
<1>2. ASSUME ~MoveCopyRace
      PROVE  TypeInv /\ OneCommittedPerLocation /\ [Next]_vars => OneCommittedPerLocation'
  BY <1>2, OneCommittedNext
<1>3. ASSUME ~MoveCopyRace
      PROVE  Spec => []OneCommittedPerLocation
  BY <1>1, <1>2, <1>3, TypeInit, TypeNext, PTL DEF Spec
<1> QED
  BY <1>3

\* So a location and a version name one row, and a location at most one object
\* (KeysUnique), in every interleaving of uploads, copies and moves without that race.
THEOREM KeysCorrect == ~MoveCopyRace => (Spec => []KeysUnique)
BY PrimaryKeyCorrect, OneCommittedCorrect, PTL DEF KeysUnique

-----------------------------------------------------------------------------
(* Ancestors.  AncestorIsOriginal is not inductive: that the ancestor of a   *)
(* live copy is never deleted without one of its copies being promoted       *)
(* depends on what the two chores, which do not look at segment_copies, have *)
(* in their batches, and on the whole family of a copy expiring together.    *)

\* A copy and its ancestor are committed objects that expire together, for as long
\* as they are there; a copy that is gone leaves a row only if it expired.
Families ==
    \A c \in DOMAIN copies :
        /\ c \in DOMAIN objects => Committed(c)
        /\ copies[c] \in DOMAIN objects => Committed(copies[c])
        /\ c \in DOMAIN objects /\ copies[c] \in DOMAIN objects =>
              objects[c].expires = objects[copies[c]].expires
        /\ c \notin DOMAIN objects /\ copies[c] \in DOMAIN objects =>
              objects[copies[c]].expires < now
        /\ c \in DOMAIN objects /\ objects[c].expires >= now =>
              copies[c] \in DOMAIN objects /\ copies[c] \notin DOMAIN copies

\* What a chore has selected is still fit to be deleted when the batch is.
Batches ==
    /\ zombies.at <= now /\ expired.at <= now
    /\ \A h \in zombies.batch :
          /\ h.stream < nextStream
          /\ h.stream \in DOMAIN objects =>
                Pending(h.stream) /\ objects[h.stream].deadline < now
    /\ \A h \in expired.batch :
          /\ h.stream < nextStream
          /\ h.stream \in DOMAIN objects => objects[h.stream].expires < now

FamilyInv == TypeInv /\ Families /\ Batches

\* The copies left by a delete, with the ancestors they then have.
LEMMA FamiliesLeft ==
    ASSUME FamilyInv, NEW D \in SUBSET DOMAIN objects, NEW P \in Promotions(D),
           NEW c \in DOMAIN CopiesWithout(D, P), NEW a, a = CopiesWithout(D, P)[c]
    PROVE  /\ c \in DOMAIN copies /\ c \notin D
           /\ c \in DOMAIN objects => Committed(c)
           /\ a \in DOMAIN objects => Committed(a)
           /\ c \in DOMAIN objects /\ a \in DOMAIN objects => objects[c].expires = objects[a].expires
           /\ c \notin DOMAIN objects /\ a \in DOMAIN objects => objects[a].expires < now
           /\ c \in DOMAIN objects /\ objects[c].expires >= now =>
                 /\ a \in DOMAIN objects \ D
                 /\ a \notin DOMAIN CopiesWithout(D, P)
<1>1. c \in DOMAIN copies /\ c \notin D /\ c \notin P
  BY CopiesLeft
<1>2. \A e \in DOMAIN CopiesWithout(D, P) : e \in DOMAIN copies /\ e \notin P
  BY CopiesLeft
<1>3. CASE copies[c] \notin D /\ a = copies[c]
  BY <1>1, <1>2, <1>3 DEF FamilyInv, Families
<1>4. CASE copies[c] \in D /\ a \in P /\ copies[a] = copies[c]
  <2>1. a \in DOMAIN copies /\ a \notin D
    BY <1>4, PromotedAreOrphans
  <2>2. copies[c] \in DOMAIN objects /\ objects[copies[c]] \in ObjectRow
    BY <1>4 DEF FamilyInv, TypeInv, TypeOK
  <2>3. objects[copies[c]].expires \in Int /\ now \in Int
    BY <2>2, BoundsAssumption DEF FamilyInv, TypeInv, TypeOK, ObjectRow, Never
  <2> QED
    BY <1>1, <1>2, <1>4, <2>1, <2>2, <2>3 DEF FamilyInv, Families
<1> QED
  BY <1>1, <1>3, <1>4, CopiesLeft

\* A step that deletes the objects D and promotes copies keeps the families.
LEMMA FamiliesPromoted ==
    ASSUME FamilyInv, NEW D \in SUBSET DOMAIN objects, NEW P \in Promotions(D),
           copies' = CopiesWithout(D, P), now' = now,
           \A s \in DOMAIN objects \ D : s \in DOMAIN objects',
           \A s \in DOMAIN objects' \ {nextStream} :
              /\ s \in DOMAIN objects \ D
              /\ objects'[s].expires = objects[s].expires
              /\ objects[s].status = "committed" => objects'[s].status = "committed"
    PROVE  Families'
<1> SUFFICES ASSUME NEW c \in DOMAIN copies'
             PROVE  /\ c \in DOMAIN objects' => Committed(c)'
                    /\ copies'[c] \in DOMAIN objects' => Committed(copies[c])'
                    /\ c \in DOMAIN objects' /\ copies'[c] \in DOMAIN objects' =>
                          objects'[c].expires = objects'[copies'[c]].expires
                    /\ c \notin DOMAIN objects' /\ copies'[c] \in DOMAIN objects' =>
                          objects'[copies'[c]].expires < now'
                    /\ c \in DOMAIN objects' /\ objects'[c].expires >= now' =>
                          copies'[c] \in DOMAIN objects' /\ copies'[c] \notin DOMAIN copies'
  BY DEF Families
<1> DEFINE a == CopiesWithout(D, P)[c]
<1>1. c # nextStream /\ a # nextStream
  <2>1. /\ c \in Streams /\ c < nextStream
        /\ a \in Streams /\ a < nextStream
    BY CopiesLeftType DEF FamilyInv
  <2> QED
    BY <2>1 DEF Streams
<1>2. /\ c \notin D
      /\ c \in DOMAIN objects => Committed(c)
      /\ a \in DOMAIN objects => Committed(a)
      /\ c \in DOMAIN objects /\ a \in DOMAIN objects => objects[c].expires = objects[a].expires
      /\ c \notin DOMAIN objects /\ a \in DOMAIN objects => objects[a].expires < now
      /\ c \in DOMAIN objects /\ objects[c].expires >= now =>
            /\ a \in DOMAIN objects \ D
            /\ a \notin DOMAIN CopiesWithout(D, P)
  BY FamiliesLeft
<1> HIDE DEF a
<1>3. copies'[c] = a
  BY DEF a
<1> QED
  BY <1>1, <1>2, <1>3 DEF Committed

\* A step that leaves segment_copies alone, deletes pending or expired objects only
\* and may add an object keeps the families.
LEMMA FamiliesKept ==
    ASSUME FamilyInv, copies' = copies, now' \in Nat, now' >= now,
           \A s \in DOMAIN objects \ DOMAIN objects' : Pending(s) \/ objects[s].expires < now,
           \A s \in DOMAIN objects' \ {nextStream} :
              /\ s \in DOMAIN objects
              /\ objects'[s].expires = objects[s].expires
              /\ objects[s].status = "committed" => objects'[s].status = "committed"
    PROVE  Families'
<1> SUFFICES ASSUME NEW c \in DOMAIN copies
             PROVE  /\ c \in DOMAIN objects' => Committed(c)'
                    /\ copies[c] \in DOMAIN objects' => Committed(copies[c])'
                    /\ c \in DOMAIN objects' /\ copies[c] \in DOMAIN objects' =>
                          objects'[c].expires = objects'[copies[c]].expires
                    /\ c \notin DOMAIN objects' /\ copies[c] \in DOMAIN objects' =>
                          objects'[copies[c]].expires < now'
                    /\ c \in DOMAIN objects' /\ objects'[c].expires >= now' =>
                          copies[c] \in DOMAIN objects' /\ copies[c] \notin DOMAIN copies
  BY DEF Families, Committed
<1>1. c # nextStream /\ copies[c] # nextStream
  BY DEF FamilyInv, TypeInv, Fresh, TypeOK
<1>2. \A s \in DOMAIN objects : objects[s].expires \in Int
  BY BoundsAssumption DEF FamilyInv, TypeInv, TypeOK, ObjectRow, Never
<1>3. now \in Int
  BY BoundsAssumption DEF FamilyInv, TypeInv, TypeOK
<1>4. /\ c \in DOMAIN objects => Committed(c)
      /\ copies[c] \in DOMAIN objects => Committed(copies[c])
      /\ c \in DOMAIN objects /\ copies[c] \in DOMAIN objects =>
            objects[c].expires = objects[copies[c]].expires
      /\ c \notin DOMAIN objects /\ copies[c] \in DOMAIN objects =>
            objects[copies[c]].expires < now
      /\ c \in DOMAIN objects /\ objects[c].expires >= now =>
            copies[c] \in DOMAIN objects /\ copies[c] \notin DOMAIN copies
  BY DEF FamilyInv, Families
<1> QED
  BY <1>1, <1>2, <1>3, <1>4 DEF Committed, Pending

\* Rows that a chore has selected stay fit for deletion while the chore waits, if no
\* one commits them.
LEMMA BatchesKept ==
    ASSUME FamilyInv, now' \in Nat, now' >= now,
           nextStream' \in Nat, nextStream' >= nextStream,
           zombies' \in {zombies, EndBatch(zombies)},
           expired' \in {expired, EndBatch(expired)},
           \A s \in DOMAIN objects' \ {nextStream} :
              /\ s \in DOMAIN objects
              /\ objects'[s].expires = objects[s].expires
              /\ Pending(s) /\ s \in Overtaken =>
                    objects'[s].status = "pending" /\ objects'[s].deadline = objects[s].deadline
    PROVE  Batches'
<1>1. /\ zombies'.batch \subseteq zombies.batch /\ zombies'.at = zombies.at
      /\ expired'.batch \subseteq expired.batch /\ expired'.at = expired.at
  BY DEF FamilyInv, TypeInv, TypeOK, EndBatch, ChorePass
<1>2. /\ now \in Int /\ nextStream \in Int
      /\ zombies.at \in Int /\ expired.at \in Int
  BY BoundsAssumption DEF FamilyInv, TypeInv, TypeOK, ChorePass
<1>3. \A h \in zombies.batch \cup expired.batch : h.stream \in Int
  BY DEF FamilyInv, TypeInv, TypeOK, ChorePass, Handle, Streams
<1>4. \A s \in DOMAIN objects : objects[s].expires \in Int /\ objects[s].deadline \in Int
  BY BoundsAssumption DEF FamilyInv, TypeInv, TypeOK, ObjectRow, Never
<1>5. zombies'.at <= now' /\ expired'.at <= now'
  BY <1>1, <1>2 DEF FamilyInv, Batches
<1>6. ASSUME NEW h \in zombies'.batch
      PROVE  /\ h.stream < nextStream'
             /\ h.stream \in DOMAIN objects' =>
                   Pending(h.stream)' /\ objects'[h.stream].deadline < now'
  <2>1. /\ h.stream < nextStream
        /\ h.stream \in DOMAIN objects => Pending(h.stream) /\ objects[h.stream].deadline < now
    BY <1>1 DEF FamilyInv, Batches
  <2>2. h.stream # nextStream /\ h.stream < nextStream'
    BY <1>1, <1>2, <1>3, <2>1
  <2>3. h.stream \in Overtaken
    BY <1>1 DEF Overtaken
  <2> QED
    BY <1>2, <1>4, <2>1, <2>2, <2>3 DEF Pending
<1>7. ASSUME NEW h \in expired'.batch
      PROVE  /\ h.stream < nextStream'
             /\ h.stream \in DOMAIN objects' => objects'[h.stream].expires < now'
  <2>1. /\ h.stream < nextStream
        /\ h.stream \in DOMAIN objects => objects[h.stream].expires < now
    BY <1>1 DEF FamilyInv, Batches
  <2>2. h.stream # nextStream /\ h.stream < nextStream'
    BY <1>1, <1>2, <1>3, <2>1
  <2> QED
    BY <1>2, <1>4, <2>1, <2>2
<1> QED
  BY <1>5, <1>6, <1>7 DEF Batches

\* A batch that a chore has just selected from rows S whose property Q it read.
LEMMA PassSelected ==
    ASSUME FamilyInv, NEW chore \in ChorePass, chore.at <= now,
           NEW S \in SUBSET DOMAIN objects, NEW pass \in NextPasses(chore, S)
    PROVE  /\ pass.at <= now
           /\ \A h \in pass.batch : h.stream \in S
<1>1. PassTime(chore) <= now /\ now \in Nat
  BY BoundsAssumption DEF PassTime, FamilyInv, TypeInv, TypeOK
<1>2. PICK B \in NextBatches(S, chore.last) :
        pass = IF B = {} THEN Idle ELSE [chore EXCEPT !.batch = B, !.at = PassTime(chore)]
  BY DEF NextPasses
<1>3. \A h \in B : h.stream \in S
  BY <1>2 DEF NextBatches, RowsAfter, HandleOf
<1>4. CASE B = {}
  BY <1>1, <1>2, <1>4 DEF Idle
<1>5. CASE B # {}
  <2>1. pass.batch = B /\ pass.at = PassTime(chore)
    BY <1>2, <1>5 DEF ChorePass
  <2> QED
    BY <1>1, <1>3, <2>1
<1> QED
  BY <1>4, <1>5

\* A delete that promotes copies.
LEMMA FamiliesDelete ==
    ASSUME FamilyInv, NEW D \in SUBSET DOMAIN objects, DeleteObjects(D),
           UNCHANGED <<nextStream, now, requests, chores>>
    PROVE  Families' /\ Batches'
<1>1. PICK P \in Promotions(D) : objects' = ObjectsWithout(D) /\ copies' = CopiesWithout(D, P)
  BY DEF DeleteObjects
<1>2. DOMAIN objects' = DOMAIN objects \ D /\ RowsKept(DOMAIN objects')
  BY <1>1 DEF ObjectsWithout, Restrict, RowsKept
<1>3. /\ now \in Nat /\ nextStream \in Nat
      /\ now' = now /\ nextStream' = nextStream /\ zombies' = zombies /\ expired' = expired
  BY BoundsAssumption DEF FamilyInv, TypeInv, TypeOK, chores
<1>4. Families'
  BY <1>1, <1>2, <1>3, FamiliesPromoted DEF RowsKept
<1>5. Batches'
  BY <1>2, <1>3, BatchesKept DEF RowsKept, Pending
<1> QED
  BY <1>4, <1>5

\* A step that only removes rows of pending or expired objects, if any.
LEMMA FamiliesRemove ==
    ASSUME FamilyInv, copies' = copies, now' \in {now, now + 1}, nextStream' = nextStream,
           RowsKept(DOMAIN objects'),
           \A s \in DOMAIN objects \ DOMAIN objects' : Pending(s) \/ objects[s].expires < now
    PROVE  /\ Families'
           /\ /\ zombies' \in {zombies, EndBatch(zombies)}
              /\ expired' \in {expired, EndBatch(expired)}
              => Batches'
<1>1. now \in Nat /\ nextStream \in Nat /\ now' \in Nat /\ now' >= now
  BY BoundsAssumption DEF FamilyInv, TypeInv, TypeOK
<1>2. Families'
  BY <1>1, FamiliesKept DEF RowsKept
<1>3. ASSUME zombies' \in {zombies, EndBatch(zombies)}, expired' \in {expired, EndBatch(expired)}
      PROVE  Batches'
  BY <1>1, <1>3, BatchesKept DEF RowsKept, Pending
<1> QED
  BY <1>2, <1>3

LEMMA FamiliesUpload ==
    ASSUME ~CommitRace, FamilyInv, Upload
    PROVE  Families' /\ Batches'
<1>0. now \in Nat /\ nextStream \in Nat
  BY BoundsAssumption DEF FamilyInv, TypeInv, TypeOK
<1>1. ASSUME NEW l \in Locations, BeginObjectNextVersion(l)
      PROVE  Families' /\ Batches'
  <2>1. /\ DOMAIN objects' = DOMAIN objects \cup {nextStream}
        /\ RowsKept(DOMAIN objects' \ {nextStream})
    BY <1>1, BegunRow DEF FamilyInv
  <2>2. /\ copies' = copies /\ now' = now /\ nextStream' = nextStream + 1
        /\ zombies' = zombies /\ expired' = expired
    BY <1>1 DEF BeginObjectNextVersion, chores
  <2>3. Families'
    BY <1>0, <2>1, <2>2, FamiliesKept DEF RowsKept
  <2>4. Batches'
    BY <1>0, <2>1, <2>2, BatchesKept DEF RowsKept, Pending
  <2> QED
    BY <2>3, <2>4
<1>2. ASSUME NEW s, NEW p, CommitSegment(s, p) \/ CommitInlineSegment(s, p)
      PROVE  Families' /\ Batches'
  <2>1. UNCHANGED <<objects, copies, nextStream, now, chores>>
    BY <1>2 DEF CommitSegment, CommitInlineSegment, UpsertSegment
  <2> QED
    BY <2>1, FamiliesRemove DEF RowsKept, chores
<1>3. ASSUME NEW s \in DOMAIN objects, AbortCommitObject(s)
      PROVE  Families' /\ Batches'
  <2>1. UNCHANGED <<objects, copies, nextStream, now, chores>>
    BY <1>3 DEF AbortCommitObject, tables
  <2> QED
    BY <2>1, FamiliesRemove DEF RowsKept, chores
<1>4. ASSUME NEW s \in DOMAIN objects, CommitObject(s), s \notin Overtaken
      PROVE  Families' /\ Batches'
  <2> DEFINE D == CommittedAt(objects[s].loc)
  <2>1. PICK P \in Promotions(D) : copies' = CopiesWithout(D, P)
    BY <1>4 DEF CommitObject
  <2>2. /\ now' = now /\ nextStream' = nextStream /\ zombies' = zombies /\ expired' = expired
    BY <1>4 DEF CommitObject, chores
  <2>3. /\ DOMAIN objects' = DOMAIN objects \ D
        /\ RowsKept(DOMAIN objects' \ {s})
        /\ objects'[s].expires = objects[s].expires
        /\ objects'[s].status = "committed"
    BY <1>4, CommittedRow DEF FamilyInv
  <2>4. D \in SUBSET DOMAIN objects
    BY DEF CommittedAt, At
  <2>5. \A t \in DOMAIN objects' : /\ t \in DOMAIN objects \ D
                                   /\ objects'[t].expires = objects[t].expires
                                   /\ objects[t].status = "committed" => objects'[t].status = "committed"
    BY <2>3 DEF RowsKept
  <2>6. Families'
    <3> HIDE DEF D
    <3> QED
      BY <2>1, <2>2, <2>3, <2>4, <2>5, FamiliesPromoted
  <2>7. \A t \in DOMAIN objects' : Pending(t) /\ t \in Overtaken =>
            objects'[t].status = "pending" /\ objects'[t].deadline = objects[t].deadline
    BY <1>4, <2>3 DEF RowsKept, Pending
  <2>8. Batches'
    BY <1>0, <2>2, <2>5, <2>7, BatchesKept
  <2> QED
    BY <2>6, <2>8
<1> QED
  BY <1>1, <1>2, <1>3, <1>4 DEF Upload

LEMMA FamiliesOfDeletes ==
    ASSUME FamilyInv, Delete
    PROVE  Families' /\ Batches'
<1>1. ASSUME NEW s \in DOMAIN objects, DeletePendingObject(s)
      PROVE  Families' /\ Batches'
  <2>1. /\ Pending(s) /\ objects' = ObjectsWithout({s})
        /\ UNCHANGED <<copies, nextStream, now, chores>>
    BY <1>1 DEF DeletePendingObject
  <2>2. RowsKept(DOMAIN objects') /\ DOMAIN objects \ DOMAIN objects' \subseteq {s}
    BY <2>1 DEF RowsKept, ObjectsWithout, Restrict
  <2> QED
    BY <2>1, <2>2, FamiliesRemove DEF chores
<1>2. ASSUME NEW l \in Locations, DeleteObjectLastCommitted(l)
      PROVE  Families' /\ Batches'
  <2>1. {s \in CommittedAt(l) : Unexpired(s)} \in SUBSET DOMAIN objects
    BY DEF CommittedAt, At
  <2> QED
    BY <1>2, <2>1, FamiliesDelete DEF DeleteObjectLastCommitted
<1>3. ASSUME NEW l \in Locations, DeleteObjectExactVersion(l)
      PROVE  Families' /\ Batches'
  <2>1. \A s \in At(l) : {s} \in SUBSET DOMAIN objects
    BY DEF At
  <2> QED
    BY <1>3, <2>1, FamiliesDelete DEF DeleteObjectExactVersion
<1>4. ASSUME NEW b, DeleteBucketBatch(b)
      PROVE  Families' /\ Batches'
  <2>1. /\ \E D \in SUBSET DOMAIN objects : DeleteObjects(D)
        /\ UNCHANGED <<nextStream, now, requests, chores>>
    BY <1>4 DEF DeleteBucketBatch
  <2> QED
    BY <2>1, FamiliesDelete
<1> QED
  BY <1>1, <1>2, <1>3, <1>4 DEF Delete

\* The new copy joins the family of its source, whose ancestor the delete at the
\* destination may have replaced.
LEMMA FamilyJoined ==
    ASSUME FamilyInv, NEW r, ~SourceMissing(r), r.stream \in DOMAIN objects,
           Committed(r.stream), NEW D \in SUBSET DOMAIN objects, NEW P \in Promotions(D),
           r.stream \notin D, NEW a, a = NewAncestor(r, D, P)
    PROVE  /\ a < nextStream /\ a \in Nat
           /\ a \in DOMAIN objects => Committed(a) /\ objects[a].expires = objects[r.stream].expires
           /\ objects[r.stream].expires >= now =>
                 a \in DOMAIN objects \ D /\ a \notin DOMAIN CopiesWithout(D, P)
<1> USE DEF FamilyInv
<1>0. /\ \A s \in DOMAIN objects : s \in Nat /\ s < nextStream /\ objects[s].expires \in Int
      /\ \A c \in DOMAIN copies : /\ c \in Nat /\ c < nextStream
                                  /\ copies[c] \in Nat /\ copies[c] < nextStream
      /\ now \in Int
  BY BoundsAssumption DEF TypeInv, TypeOK, Fresh, Streams, ObjectRow, Never
<1>1. \A e \in DOMAIN CopiesWithout(D, P) : e \in DOMAIN copies /\ e \notin P
  BY CopiesLeft
<1>2. CASE r.stream \notin DOMAIN copies /\ a = r.stream
  BY <1>0, <1>1, <1>2
<1>3. CASE r.stream \in DOMAIN copies /\ copies[r.stream] \notin D /\ a = copies[r.stream]
  BY <1>0, <1>1, <1>3 DEF Families
<1>4. CASE r.stream \in DOMAIN copies /\ copies[r.stream] \in D /\ a \in P
           /\ copies[a] = copies[r.stream]
  <2>1. a \in DOMAIN copies /\ a \notin D
    BY <1>4, PromotedAreOrphans
  <2>2. copies[r.stream] \in DOMAIN objects
    BY <1>4
  <2>3. /\ a \in DOMAIN objects => Committed(a)
        /\ a \in DOMAIN objects => objects[a].expires = objects[copies[a]].expires
        /\ a \notin DOMAIN objects => objects[copies[a]].expires < now
        /\ objects[r.stream].expires = objects[copies[r.stream]].expires
    BY <1>4, <2>1, <2>2 DEF Families
  <2> QED
    BY <1>0, <1>1, <1>4, <2>1, <2>2, <2>3
<1> QED
  BY <1>2, <1>3, <1>4, NewAncestorIs

LEMMA FamiliesCopy ==
    ASSUME ~MoveCopyRace, FamilyInv, NEW l \in Locations, FinishCopyObject(l)
    PROVE  Families' /\ Batches'
<1> DEFINE r == begun["copy"]
           D == ReadDestination(r, l)
<1>1. /\ nextStream' = nextStream + 1 /\ now' = now
      /\ zombies' = zombies /\ expired' = expired
      /\ r.stream \notin D
  BY DEF FinishCopyObject, chores
<1>2. /\ DOMAIN objects' = (DOMAIN objects \ D) \cup {nextStream}
      /\ RowsKept(DOMAIN objects' \ {nextStream})
      /\ r.stream \in DOMAIN objects /\ Committed(r.stream)
      /\ ~SourceMissing(r)
      /\ objects'[nextStream].expires = objects[r.stream].expires
      /\ objects'[nextStream].status = "committed"
  BY CopiedRow DEF FamilyInv, Committed
<1>3. PICK P \in Promotions(D) :
        \/ copies' = CopiesWithout(D, P)
        \/ copies' = [c \in (DOMAIN copies \ (D \cup P)) \cup {nextStream} |->
                         IF c = nextStream THEN NewAncestor(r, D, P) ELSE CopiesWithout(D, P)[c]]
  BY DEF FinishCopyObject, NewAncestor
<1>4. D \in SUBSET DOMAIN objects
  BY DEF ReadDestination, LastCommittedAt, CommittedAt, At
<1>5. now \in Nat /\ nextStream \in Nat
  BY BoundsAssumption DEF FamilyInv, TypeInv, TypeOK
<1>6. \A s \in DOMAIN objects' \ {nextStream} :
        s \in DOMAIN objects \ D /\ objects'[s] = objects[s]
  BY <1>2 DEF RowsKept
<1>7. Batches'
  BY <1>1, <1>2, <1>5, <1>6, BatchesKept DEF Pending
<1>8. \A s \in DOMAIN objects \ D : s \in DOMAIN objects'
  BY <1>2
<1> HIDE DEF D
<1>9. CASE copies' = CopiesWithout(D, P)
  BY <1>1, <1>3, <1>4, <1>6, <1>7, <1>8, <1>9, FamiliesPromoted
<1>10. CASE copies' = [c \in (DOMAIN copies \ (D \cup P)) \cup {nextStream} |->
                          IF c = nextStream THEN NewAncestor(r, D, P)
                          ELSE CopiesWithout(D, P)[c]]
  <2>1. DOMAIN copies' = DOMAIN CopiesWithout(D, P) \cup {nextStream}
    BY <1>10 DEF CopiesWithout
  <2>2. ASSUME NEW c \in DOMAIN copies'
        PROVE  /\ c \in DOMAIN objects' => Committed(c)'
               /\ copies'[c] \in DOMAIN objects' => Committed(copies[c])'
               /\ c \in DOMAIN objects' /\ copies'[c] \in DOMAIN objects' =>
                     objects'[c].expires = objects'[copies'[c]].expires
               /\ c \notin DOMAIN objects' /\ copies'[c] \in DOMAIN objects' =>
                     objects'[copies'[c]].expires < now'
               /\ c \in DOMAIN objects' /\ objects'[c].expires >= now' =>
                     copies'[c] \in DOMAIN objects' /\ copies'[c] \notin DOMAIN copies'
    <3>1. CASE c = nextStream
      <4> DEFINE a == NewAncestor(r, D, P)
      <4>1. /\ a < nextStream /\ a \in Nat
            /\ a \in DOMAIN objects =>
                  Committed(a) /\ objects[a].expires = objects[r.stream].expires
            /\ objects[r.stream].expires >= now =>
                  a \in DOMAIN objects \ D /\ a \notin DOMAIN CopiesWithout(D, P)
        BY <1>1, <1>2, <1>4, FamilyJoined
      <4>2. copies'[c] = a
        BY <1>10, <2>1, <3>1
      <4> HIDE DEF a
      <4>3. a # nextStream
        BY <1>5, <4>1
      <4>4. a \in DOMAIN objects' => a \in DOMAIN objects /\ objects'[a] = objects[a]
        BY <1>6, <4>3
      <4>5. objects[r.stream].expires >= now => a \in DOMAIN objects' /\ a \notin DOMAIN copies'
        BY <1>8, <2>1, <4>1, <4>3
      <4>6. c \in DOMAIN objects' /\ Committed(c)'
        BY <1>2, <3>1 DEF Committed
      <4> QED
        BY <1>1, <1>2, <3>1, <4>1, <4>2, <4>4, <4>5, <4>6 DEF Committed
    <3>2. CASE c # nextStream
      <4> DEFINE a == CopiesWithout(D, P)[c]
      <4>1. c \in DOMAIN CopiesWithout(D, P)
        BY <2>1, <3>2
      <4>2. copies'[c] = a
        BY <1>10, <2>1, <3>2
      <4>3. a # nextStream
        <5>1. a \in Streams /\ a < nextStream
          BY <4>1, CopiesLeftType DEF FamilyInv
        <5> QED
          BY <1>5, <5>1 DEF Streams
      <4>4. /\ c \notin D
            /\ c \in DOMAIN objects => Committed(c)
            /\ a \in DOMAIN objects => Committed(a)
            /\ c \in DOMAIN objects /\ a \in DOMAIN objects => objects[c].expires = objects[a].expires
            /\ c \notin DOMAIN objects /\ a \in DOMAIN objects => objects[a].expires < now
            /\ c \in DOMAIN objects /\ objects[c].expires >= now =>
                  /\ a \in DOMAIN objects \ D
                  /\ a \notin DOMAIN CopiesWithout(D, P)
        BY <1>4, <4>1, FamiliesLeft
      <4> HIDE DEF a
      <4>5. /\ c \in DOMAIN objects' => c \in DOMAIN objects /\ objects'[c] = objects[c]
            /\ a \in DOMAIN objects' => a \in DOMAIN objects /\ objects'[a] = objects[a]
            /\ c \in DOMAIN objects => c \in DOMAIN objects'
        BY <1>6, <1>8, <3>2, <4>3, <4>4
      <4>6. a \in DOMAIN objects \ D => a \in DOMAIN objects'
        BY <1>8
      <4> QED
        BY <1>1, <2>1, <4>2, <4>3, <4>4, <4>5, <4>6 DEF Committed
    <3> QED
      BY <3>1, <3>2
  <2> QED
    BY <1>7, <2>2 DEF Families
<1> QED
  BY <1>3, <1>9, <1>10

LEMMA FamiliesCopyMove ==
    ASSUME ~MoveCopyRace, FamilyInv, CopyMove
    PROVE  Families' /\ Batches'
<1>0. now \in Nat /\ nextStream \in Nat
  BY BoundsAssumption DEF FamilyInv, TypeInv, TypeOK
<1>1. ASSUME NEW op, NEW l, BeginMoveCopyObject(op, l)
      PROVE  Families' /\ Batches'
  <2>1. UNCHANGED <<objects, copies, nextStream, now, chores>>
    BY <1>1 DEF BeginMoveCopyObject, tables
  <2> QED
    BY <2>1, FamiliesRemove DEF RowsKept, chores
<1>2. ASSUME NEW l \in Locations, FinishMoveObject(l)
      PROVE  Families' /\ Batches'
  <2>1. /\ DOMAIN objects' = DOMAIN objects
        /\ \A s \in DOMAIN objects : s # begun["move"].stream => objects'[s] = objects[s]
        /\ objects'[begun["move"].stream].expires = objects[begun["move"].stream].expires
        /\ objects'[begun["move"].stream].status = objects[begun["move"].stream].status
    BY <1>2, MovedRow DEF FamilyInv, RowsKept
  <2>2. objects'[begun["move"].stream].deadline = objects[begun["move"].stream].deadline
    <3> DEFINE r == begun["move"]
    <3>1. PICK v \in Versions :
            objects' = [objects EXCEPT ![r.stream].loc = l, ![r.stream].version = v]
      BY <1>2 DEF FinishMoveObject
    <3>2. r.stream \in DOMAIN objects
      BY <1>2, MovedRow DEF FamilyInv
    <3>3. objects'[r.stream] = [objects[r.stream] EXCEPT !.loc = l, !.version = v]
      BY <3>1, <3>2
    <3>4. objects[r.stream] \in ObjectRow
      BY <3>2 DEF FamilyInv, TypeInv, TypeOK
    <3> QED
      BY <3>3, <3>4 DEF ObjectRow
  <2>3. /\ copies' = copies /\ now' = now /\ nextStream' = nextStream
        /\ zombies' = zombies /\ expired' = expired
    BY <1>2 DEF FinishMoveObject, chores
  <2>4. \A s \in DOMAIN objects' :
          /\ s \in DOMAIN objects
          /\ objects'[s].expires = objects[s].expires
          /\ objects'[s].status = objects[s].status
          /\ objects'[s].deadline = objects[s].deadline
    BY <2>1, <2>2
  <2>5. Families'
    BY <1>0, <2>1, <2>3, <2>4, FamiliesKept
  <2>6. Batches'
    BY <1>0, <2>3, <2>4, BatchesKept DEF Pending
  <2> QED
    BY <2>5, <2>6
<1> QED
  BY <1>1, <1>2, FamiliesCopy DEF CopyMove

LEMMA FamiliesChores ==
    ASSUME FamilyInv, Chores
    PROVE  Families' /\ Batches'
<1>0. /\ now \in Nat /\ nextStream \in Nat
      /\ zombies \in ChorePass /\ zombies.at \in Nat /\ zombies.at <= now
      /\ expired \in ChorePass /\ expired.at \in Nat /\ expired.at <= now
  BY BoundsAssumption DEF FamilyInv, Batches, TypeInv, TypeOK, ChorePass
<1>1. \A s \in DOMAIN objects : /\ s < nextStream
                                /\ objects[s].deadline \in Int /\ objects[s].expires \in Int
  BY BoundsAssumption DEF FamilyInv, TypeInv, TypeOK, Fresh, ObjectRow, Never
<1>2. CASE SelectZombieObjects
  <2>1. /\ zombies' \in NextPasses(zombies, ZombieRows(PassTime(zombies)))
        /\ UNCHANGED <<objects, copies, nextStream, now, expired>>
    BY <1>2 DEF SelectZombieObjects, tables
  <2>2. ZombieRows(PassTime(zombies)) \in SUBSET DOMAIN objects
    BY DEF ZombieRows
  <2>3. zombies'.at <= now /\ \A h \in zombies'.batch : h.stream \in ZombieRows(PassTime(zombies))
    BY <1>0, <2>1, <2>2, PassSelected
  <2>4. PassTime(zombies) \in Nat /\ PassTime(zombies) <= now
    BY <1>0 DEF PassTime
  <2>5. \A h \in zombies'.batch : /\ h.stream \in DOMAIN objects /\ h.stream < nextStream
                                  /\ Pending(h.stream) /\ objects[h.stream].deadline < now
    BY <1>0, <1>1, <2>3, <2>4 DEF ZombieRows
  <2>6. Batches'
    BY <2>1, <2>3, <2>5 DEF Batches, FamilyInv, Pending
  <2>7. Families'
    BY <2>1, FamiliesRemove DEF RowsKept
  <2> QED
    BY <2>6, <2>7
<1>3. CASE SelectExpiredObjects
  <2>1. /\ expired' \in NextPasses(expired, ExpiredRows(PassTime(expired)))
        /\ UNCHANGED <<objects, copies, nextStream, now, zombies>>
    BY <1>3 DEF SelectExpiredObjects, tables
  <2>2. ExpiredRows(PassTime(expired)) \in SUBSET DOMAIN objects
    BY DEF ExpiredRows
  <2>3. expired'.at <= now /\ \A h \in expired'.batch : h.stream \in ExpiredRows(PassTime(expired))
    BY <1>0, <2>1, <2>2, PassSelected
  <2>4. PassTime(expired) \in Nat /\ PassTime(expired) <= now
    BY <1>0 DEF PassTime
  <2>5. \A h \in expired'.batch : /\ h.stream \in DOMAIN objects /\ h.stream < nextStream
                                  /\ objects[h.stream].expires < now
    BY <1>0, <1>1, <2>3, <2>4 DEF ExpiredRows
  <2>6. Batches'
    BY <2>1, <2>3, <2>5 DEF Batches, FamilyInv, Pending
  <2>7. Families'
    BY <2>1, FamiliesRemove DEF RowsKept
  <2> QED
    BY <2>6, <2>7
<1>4. CASE DeleteInactiveObjectsAndSegments
  <2>1. PICK H \in SUBSET zombies.batch :
          objects' = ObjectsWithout({h.stream : h \in {g \in H : Selected(g)}})
    BY <1>4 DEF DeleteInactiveObjectsAndSegments
  <2>2. UNCHANGED <<copies, nextStream, now, expired>> /\ zombies' = EndBatch(zombies)
    BY <1>4 DEF DeleteInactiveObjectsAndSegments
  <2>3. /\ RowsKept(DOMAIN objects')
        /\ \A s \in DOMAIN objects \ DOMAIN objects' : \E h \in zombies.batch : h.stream = s
    BY <2>1 DEF ObjectsWithout, Restrict, RowsKept
  <2>4. \A s \in DOMAIN objects \ DOMAIN objects' : Pending(s)
    BY <2>3 DEF FamilyInv, Batches
  <2> QED
    BY <2>2, <2>3, <2>4, FamiliesRemove
<1>5. CASE DeleteObjectsAndSegments
  <2>1. UNCHANGED <<copies, nextStream, now, zombies>> /\ expired' = EndBatch(expired)
    BY <1>5 DEF DeleteObjectsAndSegments
  <2>2. /\ RowsKept(DOMAIN objects')
        /\ \A s \in DOMAIN objects \ DOMAIN objects' : \E h \in expired.batch : h.stream = s
    BY <1>5 DEF DeleteObjectsAndSegments, ObjectsWithout, Restrict, RowsKept
  <2>3. \A s \in DOMAIN objects \ DOMAIN objects' : objects[s].expires < now
    BY <2>2 DEF FamilyInv, Batches
  <2> QED
    BY <2>1, <2>2, <2>3, FamiliesRemove
<1> QED
  BY <1>2, <1>3, <1>4, <1>5 DEF Chores

LEMMA FamilyNext ==
    ~MoveCopyRace /\ ~CommitRace /\ FamilyInv /\ [Next]_vars => FamilyInv'
<1> SUFFICES ASSUME ~MoveCopyRace, ~CommitRace, FamilyInv, [Next]_vars
             PROVE  Families' /\ Batches'
  BY TypeNext DEF FamilyInv
<1>1. CASE Repair
  <2>1. UNCHANGED <<objects, copies, nextStream, now, chores>>
    BY <1>1 DEF Repair, ReadForRepair, UpdateSegmentPieces, tables
  <2> QED
    BY <2>1, FamiliesRemove DEF RowsKept, chores
<1>2. CASE Tick \/ UNCHANGED vars
  <2>1. UNCHANGED <<objects, copies, nextStream, chores>> /\ now' \in {now, now + 1}
    BY <1>2 DEF Tick, vars, tables
  <2> QED
    BY <2>1, FamiliesRemove DEF RowsKept, chores
<1> QED
  BY <1>1, <1>2, FamiliesUpload, FamiliesOfDeletes, FamiliesCopyMove, FamiliesChores DEF Next

\* A live copy always reads through an object that is there and is no copy itself,
\* whatever is copied, overwritten, deleted, moved or collected around it, as long
\* as no client commits an upload that the zombie chore has selected and not yet
\* deleted (CommitRace) or finishes a copy where its source was moved to (MoveCopyRace).
THEOREM AncestorsCorrect ==
    ~MoveCopyRace /\ ~CommitRace => (Spec => []AncestorIsOriginal)
<1>1. Init => FamilyInv
  <2>1. Init => DOMAIN copies = {}
    BY DEF Init
  <2>2. Init => Families
    BY <2>1 DEF Families
  <2>3. Init => Batches
    BY BoundsAssumption DEF Init, Batches, Idle
  <2> QED
    BY <2>2, <2>3, TypeInit DEF FamilyInv
<1>2. FamilyInv => AncestorIsOriginal
  BY DEF FamilyInv, Families, AncestorIsOriginal, Live
<1>3. ASSUME ~MoveCopyRace, ~CommitRace
      PROVE  FamilyInv /\ [Next]_vars => FamilyInv'
  BY <1>3, FamilyNext
<1>4. ASSUME ~MoveCopyRace, ~CommitRace
      PROVE  Spec => []AncestorIsOriginal
  BY <1>1, <1>2, <1>3, <1>4, PTL DEF Spec
<1> QED
  BY <1>4

\* The object that has the pieces of a stream: itself, or its ancestor.
Leader(s) == IF s \in DOMAIN copies THEN copies[s] ELSE s

\* A row is inline or has a root piece and a redundancy.
RowsFormed ==
    \A k \in DOMAIN segments :
        LET row == segments[k] IN
        IF row.inline THEN /\ row.root = NoRoot /\ row.pieces = NoPieces
                           /\ ~row.redundancy
        ELSE row.root # NoRoot /\ row.redundancy

\* No ancestor is a copy.
Flat == \A c \in DOMAIN copies : copies[c] \notin DOMAIN copies

\* Copies have no pieces of their own.
CopiesOwnNothing ==
    \A k \in DOMAIN segments : k[1] \in DOMAIN copies => segments[k].pieces = NoPieces

\* The rows of a family at one position say the same ...
FamilyAgrees ==
    \A k, l \in DOMAIN segments :
        k[2] = l[2] /\ Leader(k[1]) = Leader(l[1]) =>
            /\ segments[k].root = segments[l].root
            /\ segments[k].inline = segments[l].inline

\* ... and no other row has their root.
RootsApart ==
    \A k, l \in DOMAIN segments :
        segments[k].root = segments[l].root /\ segments[k].root # NoRoot =>
            k[2] = l[2] /\ Leader(k[1]) = Leader(l[1])

\* Whoever uploads at this root has begun, and is this stream or has finished.
DrawnRoot(root) == root # NoRoot => root[1] < nextStream /\ ~Pending(root[1])

RootsDrawn ==
    /\ \A s \in DOMAIN aborted : \A root \in aborted[s] : DrawnRoot(root)
    /\ \A k \in DOMAIN segments :
          segments[k].root # NoRoot =>
             /\ segments[k].root[2] = k[2]
             /\ segments[k].root[1] = k[1] \/ DrawnRoot(segments[k].root)
    /\ \A root \in deletedPieces : DrawnRoot(root)

Kept(s) == Live(s) \/ Pending(s)

\* A live copy has the positions of its ancestor.
SameKeys == \A c \in DOMAIN copies : Live(c) => SegmentsOf(c) = SegmentsOf(copies[c])

\* The leader of a live object has pieces for each of its remote segments.
PiecesOwned ==
    \A k \in DOMAIN segments :
        Kept(k[1]) /\ ~segments[k].inline =>
            /\ <<Leader(k[1]), k[2]>> \in DOMAIN segments
            /\ segments[<<Leader(k[1]), k[2]>>].pieces # NoPieces

RowsInv == RowsFormed /\ Flat /\ CopiesOwnNothing /\ FamilyAgrees /\ RootsApart /\ RootsDrawn
LiveInv == NoOrphanSegments /\ SegmentCountMatches /\ SameKeys /\ PiecesOwned

DataInv == FamilyInv /\ RowsInv /\ LiveInv

LEMMA SegmentKey ==
    ASSUME TypeOK, NEW k \in DOMAIN segments
    PROVE  /\ k = <<k[1], k[2]>> /\ k[1] \in Streams /\ k[2] \in Positions
           /\ segments[k] \in SegmentRow
BY DEF TypeOK

\* The leader that a delete of the objects D leaves.
LeaderLeft(D, P, s) ==
    IF s \in DOMAIN CopiesWithout(D, P) THEN CopiesWithout(D, P)[s] ELSE s

\* One copy is promoted for each ancestor that is deleted.
LEMMA PromotedOnce ==
    ASSUME NEW D, NEW P \in Promotions(D), NEW p \in P, NEW q \in P, copies[p] = copies[q]
    PROVE  p = q
<1>1. p \in Orphans(D)
  BY DEF Promotions
<1>2. PICK x \in P : copies[x] = copies[p] /\ \A y \in P : copies[y] = copies[p] => y = x
  BY <1>1 DEF Promotions
<1> QED
  BY <1>2

\* The leader stays, or the promoted sibling takes its place.
LEMMA LeaderLeftIs ==
    ASSUME NEW D, NEW P \in Promotions(D), NEW s, s \notin D
    PROVE  /\ Leader(s) \notin D => LeaderLeft(D, P, s) = Leader(s)
           /\ Leader(s) \in D =>
                 /\ s \in DOMAIN copies
                 /\ LeaderLeft(D, P, s) \in P
                 /\ LeaderLeft(D, P, s) \in DOMAIN copies
                 /\ LeaderLeft(D, P, s) \notin D
                 /\ copies[LeaderLeft(D, P, s)] = copies[s]
<1>1. DOMAIN CopiesWithout(D, P) = DOMAIN copies \ (D \cup P)
  BY DEF CopiesWithout
<1>2. CASE s \notin DOMAIN copies
  BY <1>1, <1>2 DEF LeaderLeft, Leader
<1>3. CASE s \in P
  <2>1. s \in DOMAIN copies /\ copies[s] \in D
    BY <1>3, PromotedAreOrphans
  <2> QED
    BY <1>1, <1>3, <2>1 DEF LeaderLeft, Leader
<1>4. CASE s \in DOMAIN copies /\ s \notin P
  <2>1. s \in DOMAIN CopiesWithout(D, P) /\ LeaderLeft(D, P, s) = CopiesWithout(D, P)[s]
    BY <1>1, <1>4 DEF LeaderLeft
  <2>2. \A p \in P : p \in DOMAIN copies /\ p \notin D
    BY PromotedAreOrphans
  <2> QED
    BY <1>4, <2>1, <2>2, CopiesLeft DEF Leader
<1> QED
  BY <1>2, <1>3, <1>4

\* Families stay apart and together.
LEMMA SameLeaderLeft ==
    ASSUME Flat, NEW D, NEW P \in Promotions(D), NEW s, NEW t, s \notin D, t \notin D
    PROVE  LeaderLeft(D, P, s) = LeaderLeft(D, P, t) <=> Leader(s) = Leader(t)
<1>1. \A u : Leader(u) \notin DOMAIN copies
  BY DEF Leader, Flat
<1>2. CASE Leader(s) \notin D /\ Leader(t) \notin D
  BY <1>2, LeaderLeftIs
<1>3. CASE Leader(s) \in D /\ Leader(t) \in D
  <2> DEFINE p == LeaderLeft(D, P, s)
             q == LeaderLeft(D, P, t)
  <2>1. p \in P /\ q \in P /\ copies[p] = copies[s] /\ copies[q] = copies[t]
    BY <1>3, LeaderLeftIs
  <2>2. Leader(s) = copies[s] /\ Leader(t) = copies[t]
    BY <1>3, LeaderLeftIs DEF Leader
  <2>3. copies[p] = copies[q] => p = q
    BY <2>1, PromotedOnce
  <2> QED
    BY <2>1, <2>2, <2>3
<1>4. CASE Leader(s) \in D /\ Leader(t) \notin D
  BY <1>1, <1>4, LeaderLeftIs
<1>5. CASE Leader(s) \notin D /\ Leader(t) \in D
  BY <1>1, <1>5, LeaderLeftIs
<1> QED
  BY <1>2, <1>3, <1>4, <1>5

\* No family has a member that is still being uploaded.
LEMMA PendingAlone ==
    ASSUME FamilyInv, NoOrphanSegments, NEW s, Pending(s)
    PROVE  /\ s \notin DOMAIN copies /\ Leader(s) = s
           /\ \A k \in DOMAIN segments : Leader(k[1]) = s => k[1] = s
<1>1. ~Committed(s) /\ s \in DOMAIN objects
  BY DEF Pending, Committed
<1> QED
  BY <1>1 DEF FamilyInv, Families, Leader

-----------------------------------------------------------------------------
(* Rows that come from rows *)

\* No upload begins, or starts again, at a stream id that was drawn.
NoneReopened == /\ nextStream' \in Int /\ nextStream' >= nextStream
                /\ \A s \in Streams : s < nextStream /\ Pending(s)' => Pending(s)

\* A root whose upload is over stays one.
LEMMA DrawnKept ==
    ASSUME TypeInv, NoneReopened, NEW root \in Roots \cup {NoRoot}, DrawnRoot(root)
    PROVE  DrawnRoot(root)'
<1> SUFFICES ASSUME root \in Roots, root # NoRoot
             PROVE  root[1] < nextStream' /\ ~Pending(root[1])'
  BY DEF DrawnRoot, Pending
<1>1. root[1] \in Streams /\ root[1] \in Int /\ nextStream \in Int
  BY DEF Roots, TypeInv, TypeOK, Streams
<1> QED
  BY <1>1 DEF DrawnRoot, NoneReopened

\* The rows of a step that writes no new content: each one has the root of the row
\* it comes from, and whoever shared a family still does.
LEMMA RowsDerived ==
    ASSUME TypeInv, RowsInv, NEW src,
           \A k \in DOMAIN segments' :
              /\ src[k] \in DOMAIN segments /\ src[k][2] = k[2]
              /\ segments'[k].root = segments[src[k]].root
              /\ segments'[k].inline = segments[src[k]].inline
              /\ segments'[k].redundancy = segments[src[k]].redundancy
              /\ segments'[k].inline => segments'[k].pieces = NoPieces
              /\ src[k][1] = k[1] \/ ~Pending(src[k][1]),
           \A k, l \in DOMAIN segments' :
              Leader(k[1])' = Leader(l[1])' => Leader(src[k][1]) = Leader(src[l][1]),
           \A k, l \in DOMAIN segments' :
              /\ segments'[k].root = segments'[l].root /\ segments'[k].root # NoRoot
              /\ Leader(src[k][1]) = Leader(src[l][1])
              => Leader(k[1])' = Leader(l[1])',
           NoneReopened,
           deletedPieces' \subseteq Roots \cup {NoRoot},
           \A root \in deletedPieces' \ deletedPieces : DrawnRoot(root)',
           \A s \in DOMAIN aborted' : \A root \in aborted'[s] :
              \/ DrawnRoot(root)'
              \/ s \in DOMAIN aborted /\ root \in aborted[s],
           Flat', CopiesOwnNothing'
    PROVE  RowsInv'
<1>1. \A root \in Roots \cup {NoRoot} : DrawnRoot(root) => DrawnRoot(root)'
  BY DrawnKept
<1>2. RowsFormed'
  BY DEF RowsInv, RowsFormed
<1>3. FamilyAgrees'
  BY DEF RowsInv, FamilyAgrees
<1>4. RootsApart'
  <2> SUFFICES ASSUME NEW k \in DOMAIN segments', NEW l \in DOMAIN segments',
                      segments'[k].root = segments'[l].root, segments'[k].root # NoRoot
               PROVE  k[2] = l[2] /\ Leader(k[1])' = Leader(l[1])'
    BY DEF RootsApart
  <2>1. src[k][2] = src[l][2] /\ Leader(src[k][1]) = Leader(src[l][1])
    BY DEF RowsInv, RootsApart
  <2> QED
    BY <2>1
<1>5. ASSUME NEW root \in deletedPieces'
      PROVE  DrawnRoot(root)'
  BY <1>1, <1>5 DEF RowsInv, RootsDrawn
<1>6. ASSUME NEW s \in DOMAIN aborted', NEW root \in aborted'[s]
      PROVE  DrawnRoot(root)'
  BY <1>1, <1>6 DEF RowsInv, RootsDrawn, TypeInv, TypeOK
<1>7. ASSUME NEW k \in DOMAIN segments', segments'[k].root # NoRoot
      PROVE  /\ segments'[k].root[2] = k[2]
             /\ segments'[k].root[1] = k[1] \/ DrawnRoot(segments[k].root)'
  <2> DEFINE root == segments[src[k]].root
  <2>1. segments'[k].root = root /\ src[k] \in DOMAIN segments /\ root # NoRoot
    BY <1>7
  <2>2. root[2] = k[2]
    BY <1>7, <2>1 DEF RowsInv, RootsDrawn
  <2>3. root \in Roots
    BY <2>1, SegmentKey DEF TypeInv, SegmentRow
  <2>4. CASE DrawnRoot(root)
    BY <1>1, <2>1, <2>2, <2>3, <2>4
  <2>5. CASE root[1] = src[k][1] /\ src[k][1] = k[1]
    BY <2>1, <2>2, <2>5
  <2>6. CASE root[1] = src[k][1] /\ ~Pending(src[k][1])
    <3>1. src[k][1] < nextStream
      BY <2>1 DEF TypeInv, Fresh
    <3> QED
      BY <1>1, <2>1, <2>2, <2>3, <2>6, <3>1 DEF DrawnRoot
  <2> QED
    BY <1>7, <2>1, <2>4, <2>5, <2>6 DEF RowsInv, RootsDrawn
<1>8. RootsDrawn'
  <2> SUFFICES ASSUME TRUE
               PROVE  /\ \A s \in DOMAIN aborted' : \A root \in aborted'[s] : DrawnRoot(root)'
                      /\ \A k \in DOMAIN segments' :
                            segments'[k].root # NoRoot =>
                               /\ segments'[k].root[2] = k[2]
                               /\ \/ segments'[k].root[1] = k[1]
                                  \/ DrawnRoot(segments[k].root)'
                      /\ \A root \in deletedPieces' : DrawnRoot(root)'
    BY DEF RootsDrawn, DrawnRoot, Pending
  <2> QED
    BY <1>5, <1>6, <1>7
<1> QED
  BY <1>2, <1>3, <1>4, <1>8 DEF RowsInv

-----------------------------------------------------------------------------
(* What a delete that promotes copies leaves *)

\* Only rows of promoted copies are written.
LEMMA RowKept ==
    ASSUME NEW D, NEW P, NEW k \in DOMAIN SegmentsWithout(D, P)
    PROVE  /\ k \in DOMAIN segments /\ k[1] \notin D
           /\ k[1] \notin P => SegmentsWithout(D, P)[k] = segments[k]
BY DEF SegmentsWithout

\* A row that is left has its content, and a promoted one the pieces of the ancestor.
LEMMA RowLeft ==
    ASSUME TypeInv, RowsInv, NEW D, NEW P \in Promotions(D),
           NEW k \in DOMAIN SegmentsWithout(D, P)
    PROVE  /\ k \in DOMAIN segments /\ k[1] \notin D
           /\ SegmentsWithout(D, P)[k].root = segments[k].root
           /\ SegmentsWithout(D, P)[k].inline = segments[k].inline
           /\ SegmentsWithout(D, P)[k].redundancy = segments[k].redundancy
           /\ SegmentsWithout(D, P)[k].inline => SegmentsWithout(D, P)[k].pieces = NoPieces
<1> DEFINE row == SegmentsWithout(D, P)[k]
           up == <<copies[k[1]], k[2]>>
<1>1. k \in DOMAIN segments /\ k[1] \notin D
  BY DEF SegmentsWithout
<1>2. segments[k] \in SegmentRow /\ k = <<k[1], k[2]>>
  BY <1>1, SegmentKey DEF TypeInv
<1>3. segments[k].inline => segments[k].pieces = NoPieces
  BY <1>1 DEF RowsInv, RowsFormed
<1>4. CASE k[1] \in P /\ up \in DOMAIN segments /\ segments[up].pieces # NoPieces
  <2>1. row = [segments[k] EXCEPT !.pieces = segments[up].pieces]
    BY <1>1, <1>4 DEF SegmentsWithout
  <2>2. Leader(k[1]) = copies[k[1]] /\ Leader(copies[k[1]]) = copies[k[1]]
    BY <1>4, PromotedAreOrphans DEF Leader, RowsInv, Flat
  <2>3. segments[k].inline = segments[up].inline
    BY <1>1, <1>4, <2>2 DEF RowsInv, FamilyAgrees
  <2>4. ~segments[k].inline
    BY <1>4, <2>3 DEF RowsInv, RowsFormed
  <2> QED
    BY <1>1, <1>2, <1>4, <2>1, <2>4 DEF SegmentRow
<1>5. CASE ~(k[1] \in P /\ up \in DOMAIN segments /\ segments[up].pieces # NoPieces)
  <2>1. row = segments[k]
    BY <1>1, <1>5 DEF SegmentsWithout
  <2> QED
    BY <1>1, <1>3, <1>5, <2>1
<1> QED
  BY <1>4, <1>5

\* A promoted row takes over the pieces of its ancestor.
LEMMA RowPromoted ==
    ASSUME TypeInv, NEW D, NEW P, NEW k \in DOMAIN SegmentsWithout(D, P), k[1] \in P,
           NEW up, up = <<copies[k[1]], k[2]>>, up \in DOMAIN segments,
           segments[up].pieces # NoPieces
    PROVE  SegmentsWithout(D, P)[k].pieces = segments[up].pieces
<1>1. k \in DOMAIN segments /\ segments[k] \in SegmentRow
  BY RowKept, SegmentKey DEF TypeInv
<1>2. SegmentsWithout(D, P)[k] = [segments[k] EXCEPT !.pieces = segments[up].pieces]
  BY DEF SegmentsWithout
<1> QED
  BY <1>1, <1>2 DEF SegmentRow

\* The copies that are left point at originals and have no pieces.
LEMMA CopiesLeftFlat ==
    ASSUME TypeInv, RowsInv, NEW D, NEW P \in Promotions(D)
    PROVE  /\ \A c \in DOMAIN CopiesWithout(D, P) :
                 CopiesWithout(D, P)[c] \notin DOMAIN CopiesWithout(D, P)
           /\ \A k \in DOMAIN SegmentsWithout(D, P) :
                 k[1] \in DOMAIN CopiesWithout(D, P) =>
                    SegmentsWithout(D, P)[k].pieces = NoPieces
<1>1. \A c \in DOMAIN CopiesWithout(D, P) : c \in DOMAIN copies /\ c \notin P
  BY CopiesLeft
<1>2. ASSUME NEW c \in DOMAIN CopiesWithout(D, P)
      PROVE  CopiesWithout(D, P)[c] \notin DOMAIN CopiesWithout(D, P)
  <2>1. \/ CopiesWithout(D, P)[c] = copies[c]
        \/ CopiesWithout(D, P)[c] \in P
    BY CopiesLeft
  <2> QED
    BY <1>1, <2>1 DEF RowsInv, Flat
<1>3. ASSUME NEW k \in DOMAIN SegmentsWithout(D, P), k[1] \in DOMAIN CopiesWithout(D, P)
      PROVE  SegmentsWithout(D, P)[k].pieces = NoPieces
  <2>1. k[1] \in DOMAIN copies /\ k[1] \notin P
    BY <1>1, <1>3
  <2>2. k \in DOMAIN segments /\ SegmentsWithout(D, P)[k] = segments[k]
    BY <2>1, RowKept
  <2> QED
    BY <2>1, <2>2 DEF RowsInv, CopiesOwnNothing
<1> QED
  BY <1>2, <1>3

\* The pieces that a delete reports were uploaded for streams it deletes or that are
\* finished.
LEMMA ReportedDrawn ==
    ASSUME DataInv, NEW root, NEW k \in DOMAIN segments, root = segments[k].root,
           ~Pending(k[1])', NoneReopened
    PROVE  DrawnRoot(root)'
<1> USE DEF DataInv, FamilyInv
<1>1. root \in Roots \cup {NoRoot} /\ k[1] < nextStream /\ k[1] \in Int /\ nextStream \in Int
  BY SegmentKey DEF TypeInv, Fresh, SegmentRow, Streams, TypeOK
<1>2. CASE DrawnRoot(root)
  BY <1>1, <1>2, DrawnKept
<1>3. CASE root # NoRoot /\ root[1] = k[1]
  BY <1>1, <1>3 DEF DrawnRoot, NoneReopened
<1> QED
  BY <1>2, <1>3 DEF RowsInv, RootsDrawn, DrawnRoot

\* A step that deletes the objects D and promotes copies keeps the rows well formed.
LEMMA RowsPromoted ==
    ASSUME DataInv, TypeInv', NEW D, NEW P \in Promotions(D),
           segments' = SegmentsWithout(D, P), copies' = CopiesWithout(D, P),
           D \cap DOMAIN objects' = {}, NoneReopened,
           \A root \in deletedPieces' : \/ root \in deletedPieces
                                        \/ root \in PiecesToDelete(D)
                                        \/ \E s \in DOMAIN aborted : root \in aborted[s],
           \A s \in DOMAIN aborted' : s \in DOMAIN aborted /\ aborted'[s] = aborted[s]
    PROVE  RowsInv'
<1> USE DEF DataInv, FamilyInv
<1>1. PICK src : src = [k \in DOMAIN segments' |-> k]
  OBVIOUS
<1>2. ASSUME NEW k \in DOMAIN segments'
      PROVE  /\ src[k] \in DOMAIN segments /\ src[k][2] = k[2] /\ src[k][1] = k[1]
             /\ segments'[k].root = segments[src[k]].root
             /\ segments'[k].inline = segments[src[k]].inline
             /\ segments'[k].redundancy = segments[src[k]].redundancy
             /\ segments'[k].inline => segments'[k].pieces = NoPieces
             /\ k[1] \notin D
  <2>1. src[k] = k
    BY <1>1
  <2>2. k \in DOMAIN SegmentsWithout(D, P)
    OBVIOUS
  <2>3. /\ k \in DOMAIN segments /\ k[1] \notin D
        /\ SegmentsWithout(D, P)[k].root = segments[k].root
        /\ SegmentsWithout(D, P)[k].inline = segments[k].inline
        /\ SegmentsWithout(D, P)[k].redundancy = segments[k].redundancy
        /\ SegmentsWithout(D, P)[k].inline => SegmentsWithout(D, P)[k].pieces = NoPieces
    BY <2>2, RowLeft
  <2> QED
    BY <2>1, <2>3
<1>3. \A s : Leader(s)' = LeaderLeft(D, P, s)
  BY DEF Leader, LeaderLeft
<1>4. \A k, l \in DOMAIN segments' :
        Leader(k[1])' = Leader(l[1])' <=> Leader(src[k][1]) = Leader(src[l][1])
  BY <1>2, <1>3, SameLeaderLeft DEF RowsInv
<1>5. Flat' /\ CopiesOwnNothing'
  BY CopiesLeftFlat DEF Flat, CopiesOwnNothing
<1>6. ASSUME NEW root \in deletedPieces' \ deletedPieces
      PROVE  DrawnRoot(root)'
  <2>1. CASE root \in PiecesToDelete(D)
    <3>1. PICK k \in DOMAIN segments : k[1] \in D /\ root = segments[k].root
      BY <2>1 DEF PiecesToDelete
    <3>2. ~Pending(k[1])'
      BY <3>1 DEF Pending
    <3> QED
      BY <3>1, <3>2, ReportedDrawn
  <2>2. CASE \E s \in DOMAIN aborted : root \in aborted[s]
    <3>1. root \in Roots \cup {NoRoot} /\ DrawnRoot(root)
      BY <2>2 DEF TypeInv, TypeOK, RowsInv, RootsDrawn
    <3> QED
      BY <3>1, DrawnKept
  <2> QED
    BY <1>6, <2>1, <2>2
<1>7. deletedPieces' \subseteq Roots \cup {NoRoot}
  BY DEF TypeInv, TypeOK
<1> QED
  BY <1>2, <1>4, <1>5, <1>6, <1>7, RowsDerived

\* The leader of a live object is live, and no copy.
LEMMA LeaderLive ==
    ASSUME FamilyInv, NEW s, Live(s)
    PROVE  Live(Leader(s)) /\ Leader(s) \notin DOMAIN copies
<1>1. CASE s \notin DOMAIN copies
  BY <1>1 DEF Leader
<1>2. CASE s \in DOMAIN copies
  <2>1. s \in DOMAIN objects /\ objects[s].expires >= now
    BY DEF Live, Committed
  <2>2. /\ copies[s] \in DOMAIN objects /\ copies[s] \notin DOMAIN copies
        /\ Committed(copies[s]) /\ objects[s].expires = objects[copies[s]].expires
    BY <1>2, <2>1 DEF FamilyInv, Families
  <2> QED
    BY <1>2, <2>1, <2>2 DEF Leader, Live
<1> QED
  BY <1>1, <1>2

\* The promoted sibling of a live copy is live.
LEMMA PromotedLive ==
    ASSUME FamilyInv, NEW D \in SUBSET DOMAIN objects, NEW P \in Promotions(D),
           NEW s, s \notin D, Live(s), Leader(s) \in D
    PROVE  Live(LeaderLeft(D, P, s))
<1> DEFINE p == LeaderLeft(D, P, s)
<1>1. /\ s \in DOMAIN copies /\ p \in P /\ p \in DOMAIN copies
      /\ copies[p] = copies[s] /\ copies[s] \in D
  BY LeaderLeftIs DEF Leader
<1> HIDE DEF p
<1>2. /\ s \in DOMAIN objects /\ copies[s] \in DOMAIN objects
      /\ objects[s].expires >= now /\ objects[s].expires = objects[copies[s]].expires
  BY <1>1 DEF FamilyInv, Families, Live, Committed
<1>3. objects[s].expires \in Int /\ now \in Int
  BY <1>2, BoundsAssumption DEF FamilyInv, TypeInv, TypeOK, ObjectRow, Never
<1>4. p \in DOMAIN objects
  BY <1>1, <1>2, <1>3 DEF FamilyInv, Families
<1>5. Committed(p) /\ objects[p].expires = objects[copies[p]].expires
  BY <1>1, <1>2, <1>4 DEF FamilyInv, Families
<1> QED
  BY <1>1, <1>2, <1>5 DEF Live, p

\* A copy that is left has the positions of the leader it then has.
LEMMA KeysLeft ==
    ASSUME FamilyInv, SameKeys, NEW D \in SUBSET DOMAIN objects, NEW P \in Promotions(D),
           NEW s, s \notin D, Live(s)
    PROVE  /\ LeaderLeft(D, P, s) \notin D
           /\ SegmentsOf(LeaderLeft(D, P, s)) = SegmentsOf(s)
<1>1. CASE Leader(s) \notin D
  <2>1. LeaderLeft(D, P, s) = Leader(s)
    BY <1>1, LeaderLeftIs
  <2> QED
    BY <1>1, <2>1 DEF Leader, SameKeys
<1>2. CASE Leader(s) \in D
  <2> DEFINE p == LeaderLeft(D, P, s)
  <2>1. s \in DOMAIN copies /\ p \in DOMAIN copies /\ p \notin D /\ copies[p] = copies[s]
    BY <1>2, LeaderLeftIs
  <2>2. Live(p)
    BY <1>2, PromotedLive
  <2> QED
    BY <2>1, <2>2 DEF SameKeys
<1> QED
  BY <1>1, <1>2

\* The leader that a remote segment then has owns the pieces its leader had before.
LEMMA OwnedLeft ==
    ASSUME DataInv, NEW D \in SUBSET DOMAIN objects, NEW P \in Promotions(D),
           NEW k \in DOMAIN SegmentsWithout(D, P), Kept(k[1]), ~segments[k].inline,
           NEW o, o = <<LeaderLeft(D, P, k[1]), k[2]>>
    PROVE  /\ o \in DOMAIN SegmentsWithout(D, P)
           /\ SegmentsWithout(D, P)[o].pieces # NoPieces
           /\ SegmentsWithout(D, P)[o].pieces = segments[<<Leader(k[1]), k[2]>>].pieces
<1> DEFINE x == Leader(k[1])
           ox == <<Leader(k[1]), k[2]>>
<1>1. /\ k \in DOMAIN segments /\ k[1] \notin D
      /\ k = <<k[1], k[2]>> /\ k[2] \in Positions
  BY RowKept, SegmentKey DEF DataInv, FamilyInv, TypeInv
<1>2. ox \in DOMAIN segments /\ segments[ox].pieces # NoPieces
  BY <1>1 DEF DataInv, LiveInv, PiecesOwned
<1>3. x \notin DOMAIN copies
  BY DEF DataInv, RowsInv, Flat, Leader
<1>4. CASE x \notin D
  <2>1. o = ox
    BY <1>1, <1>4, LeaderLeftIs
  <2>2. ox \in DOMAIN SegmentsWithout(D, P)
    BY <1>2, <1>4 DEF SegmentsWithout
  <2>3. ox[1] \notin P
    BY <1>3, PromotedAreOrphans
  <2> QED
    BY <1>2, <2>1, <2>2, <2>3, RowKept
<1>5. CASE x \in D
  <2> DEFINE p == LeaderLeft(D, P, k[1])
  <2>1. /\ k[1] \in DOMAIN copies /\ p \in P /\ p \in DOMAIN copies /\ p \notin D
        /\ copies[p] = copies[k[1]] /\ x = copies[k[1]]
    BY <1>1, <1>5, LeaderLeftIs DEF Leader
  <2>2. Live(k[1])
    BY <2>1, PendingAlone DEF Kept, DataInv, LiveInv
  <2>3. SegmentsOf(p) = SegmentsOf(k[1])
    BY <1>1, <2>2, KeysLeft DEF DataInv, LiveInv
  <2>4. <<k[1], k[2]>> \in DOMAIN segments
    BY <1>1
  <2>5. o \in DOMAIN segments /\ o[1] = p /\ o[2] = k[2]
    BY <1>1, <2>3, <2>4 DEF SegmentsOf
  <2>6. o \in DOMAIN SegmentsWithout(D, P)
    BY <2>1, <2>5 DEF SegmentsWithout
  <2>7. ox = <<copies[o[1]], o[2]>> /\ o[1] \in P
    BY <2>1, <2>5
  <2>8. SegmentsWithout(D, P)[o].pieces = segments[ox].pieces
    BY <1>2, <2>6, <2>7, RowPromoted DEF DataInv, FamilyInv
  <2> QED
    BY <1>2, <2>6, <2>8
<1> QED
  BY <1>4, <1>5

\* A step that deletes the objects D, promotes copies and may commit an upload leaves
\* every object with its segments.
LEMMA LivePromoted ==
    ASSUME DataInv, NEW D \in SUBSET DOMAIN objects, NEW P \in Promotions(D),
           segments' = SegmentsWithout(D, P), copies' = CopiesWithout(D, P), now' = now,
           DOMAIN objects' = DOMAIN objects \ D,
           \A s \in DOMAIN objects' :
              /\ objects'[s].expires = objects[s].expires
              /\ Pending(s)' => Pending(s)
              /\ Committed(s)' =>
                    \/ Committed(s) /\ objects'[s].count = objects[s].count
                    \/ Pending(s) /\ objects'[s].count = Cardinality(SegmentsOf(s))
    PROVE  LiveInv'
<1>1. \A s : s \notin D => SegmentsOf(s)' = SegmentsOf(s)
  BY DEF SegmentsOf, SegmentsWithout
<1>2. \A s : Live(s)' => s \notin D /\ (Live(s) \/ Pending(s))
  BY DEF Live, Committed
<1>3. \A s : Leader(s)' = LeaderLeft(D, P, s)
  BY DEF Leader, LeaderLeft
<1>4. NoOrphanSegments'
  BY RowKept DEF NoOrphanSegments, DataInv, LiveInv
<1>5. SegmentCountMatches'
  <2> SUFFICES ASSUME NEW s \in DOMAIN objects', Live(s)'
               PROVE  objects'[s].count = Cardinality(SegmentsOf(s)')
    BY DEF SegmentCountMatches
  <2>1. Committed(s)' /\ s \in DOMAIN objects /\ SegmentsOf(s)' = SegmentsOf(s)
    BY <1>1, <1>2 DEF Live
  <2>2. Live(s) => objects[s].count = Cardinality(SegmentsOf(s))
    BY <2>1 DEF DataInv, LiveInv, SegmentCountMatches
  <2>3. Committed(s) => Live(s)
    BY <2>1 DEF Live
  <2> QED
    BY <2>1, <2>2, <2>3
<1>6. SameKeys'
  <2> SUFFICES ASSUME NEW c \in DOMAIN copies', Live(c)'
               PROVE  SegmentsOf(c)' = SegmentsOf(copies[c])'
    BY DEF SameKeys
  <2>1. c \in DOMAIN copies /\ c \notin D
    BY CopiesLeft
  <2>2. Live(c)
    BY <1>2, <2>1, PendingAlone DEF DataInv, LiveInv
  <2>3. copies'[c] = LeaderLeft(D, P, c)
    BY DEF LeaderLeft
  <2>4. copies'[c] \notin D /\ SegmentsOf(copies'[c]) = SegmentsOf(c)
    BY <2>1, <2>2, <2>3, KeysLeft DEF DataInv, LiveInv
  <2>5. PICK a : a = copies'[c]
    OBVIOUS
  <2>6. SegmentsOf(a)' = SegmentsOf(a) /\ SegmentsOf(c)' = SegmentsOf(c)
    BY <1>1, <2>1, <2>4, <2>5
  <2> QED
    BY <2>4, <2>5, <2>6
<1>7. PiecesOwned'
  <2> SUFFICES ASSUME NEW k \in DOMAIN segments', Kept(k[1])', ~segments'[k].inline
               PROVE  /\ <<Leader(k[1])', k[2]>> \in DOMAIN segments'
                      /\ segments'[<<Leader(k[1])', k[2]>>].pieces # NoPieces
    BY DEF PiecesOwned
  <2>1. k \in DOMAIN segments /\ k[1] \notin D
    BY RowKept
  <2>2. Kept(k[1])
    BY <1>2 DEF Kept, Pending
  <2>3. ~segments[k].inline
    BY RowLeft DEF DataInv, FamilyInv
  <2>4. PICK o : o = <<LeaderLeft(D, P, k[1]), k[2]>>
    OBVIOUS
  <2>5. o \in DOMAIN SegmentsWithout(D, P) /\ SegmentsWithout(D, P)[o].pieces # NoPieces
    BY <2>2, <2>3, <2>4, OwnedLeft
  <2> QED
    BY <1>3, <2>4, <2>5
<1> QED
  BY <1>4, <1>5, <1>6, <1>7 DEF LiveInv

-----------------------------------------------------------------------------
(* Steps that promote nothing *)

\* Rows that are left, maybe with other pieces, stay well formed.
LEMMA RowsRemain ==
    ASSUME DataInv, TypeInv', copies' = copies, NoneReopened,
           \A k \in DOMAIN segments' :
              /\ k \in DOMAIN segments
              /\ segments'[k].root = segments[k].root
              /\ segments'[k].inline = segments[k].inline
              /\ segments'[k].redundancy = segments[k].redundancy
              /\ segments[k].pieces = NoPieces => segments'[k].pieces = NoPieces,
           \A root \in deletedPieces' \ deletedPieces : DrawnRoot(root)',
           \A s \in DOMAIN aborted' : \A root \in aborted'[s] :
              \/ DrawnRoot(root)'
              \/ s \in DOMAIN aborted /\ root \in aborted[s]
    PROVE  RowsInv'
<1> USE DEF DataInv, FamilyInv
<1>1. PICK src : src = [k \in DOMAIN segments' |-> k]
  OBVIOUS
<1>2. ASSUME NEW k \in DOMAIN segments'
      PROVE  /\ src[k] \in DOMAIN segments /\ src[k][2] = k[2] /\ src[k][1] = k[1]
             /\ segments'[k].root = segments[src[k]].root
             /\ segments'[k].inline = segments[src[k]].inline
             /\ segments'[k].redundancy = segments[src[k]].redundancy
             /\ segments'[k].inline => segments'[k].pieces = NoPieces
             /\ Leader(k[1])' = Leader(src[k][1])
  <2>1. src[k] = k /\ k \in DOMAIN segments
    BY <1>1
  <2>2. segments[k].inline => segments[k].pieces = NoPieces
    BY <2>1 DEF RowsInv, RowsFormed
  <2>3. Leader(k[1])' = Leader(k[1])
    BY DEF Leader
  <2> QED
    BY <2>1, <2>2, <2>3
<1>3. \A k, l \in DOMAIN segments' :
        Leader(k[1])' = Leader(l[1])' <=> Leader(src[k][1]) = Leader(src[l][1])
  BY <1>2
<1>4. Flat'
  BY DEF RowsInv, Flat
<1>5. CopiesOwnNothing'
  BY DEF RowsInv, CopiesOwnNothing
<1>6. deletedPieces' \subseteq Roots \cup {NoRoot}
  BY DEF TypeInv, TypeOK
<1> QED
  BY <1>2, <1>3, <1>4, <1>5, <1>6, RowsDerived

\* Live objects that nothing is taken from keep their segments.
LEMMA LiveRemain ==
    ASSUME DataInv, copies' = copies,
           \A k \in DOMAIN segments' :
              /\ k \in DOMAIN segments /\ k[1] \in DOMAIN objects'
              /\ segments'[k].inline = segments[k].inline
              /\ segments[k].pieces # NoPieces => segments'[k].pieces # NoPieces,
           \A k \in DOMAIN segments : Live(k[1]) => k \in DOMAIN segments',
           \A s \in DOMAIN objects' :
              /\ Live(s)' => Live(s) /\ objects'[s].count = objects[s].count
              /\ Pending(s)' => Pending(s) \/ s = nextStream
    PROVE  LiveInv'
<1> USE DEF DataInv, LiveInv
<1>1. \A s : Live(s)' => s \in DOMAIN objects' /\ s \in DOMAIN objects /\ Live(s)
  BY DEF Live, Committed
<1>2. \A s : Live(s) => SegmentsOf(s)' = SegmentsOf(s)
  BY DEF SegmentsOf
<1>3. \A s : Leader(s)' = Leader(s)
  BY DEF Leader
<1>4. NoOrphanSegments'
  BY DEF NoOrphanSegments
<1>5. SegmentCountMatches'
  BY <1>1, <1>2 DEF SegmentCountMatches
<1>6. SameKeys'
  <2> SUFFICES ASSUME NEW c \in DOMAIN copies, Live(c)'
               PROVE  SegmentsOf(c)' = SegmentsOf(copies[c])'
    BY DEF SameKeys
  <2>1. Live(c) /\ Live(copies[c])
    BY <1>1, LeaderLive DEF Leader
  <2> QED
    BY <1>2, <2>1 DEF SameKeys
<1>7. PiecesOwned'
  <2> SUFFICES ASSUME NEW k \in DOMAIN segments', Kept(k[1])', ~segments'[k].inline
               PROVE  /\ <<Leader(k[1]), k[2]>> \in DOMAIN segments'
                      /\ segments'[<<Leader(k[1]), k[2]>>].pieces # NoPieces
    BY <1>3 DEF PiecesOwned
  <2> DEFINE o == <<Leader(k[1]), k[2]>>
  <2>1. k \in DOMAIN segments /\ ~segments[k].inline /\ k = <<k[1], k[2]>>
    BY SegmentKey DEF FamilyInv, TypeInv
  <2>2. Kept(k[1]) => o \in DOMAIN segments /\ segments[o].pieces # NoPieces
    BY <2>1 DEF PiecesOwned
  <2>3. CASE Live(k[1])'
    <3>1. Live(k[1]) /\ Live(o[1])
      BY <1>1, <2>3, LeaderLive
    <3>2. o \in DOMAIN segments /\ segments[o].pieces # NoPieces
      BY <2>2, <3>1 DEF Kept
    <3> HIDE DEF o
    <3>3. o \in DOMAIN segments'
      BY <3>1, <3>2
    <3> QED
      BY <3>2, <3>3 DEF o
  <2>4. CASE Pending(k[1])'
    <3>1. k[1] # nextStream
      BY <2>1 DEF FamilyInv, TypeInv, Fresh, TypeOK
    <3>2. Pending(k[1])
      BY <2>4, <3>1 DEF Pending
    <3>3. o = k
      BY <2>1, <3>2, PendingAlone
    <3> QED
      BY <2>2, <3>2, <3>3 DEF Kept
  <2> QED
    BY <2>3, <2>4 DEF Kept
<1> QED
  BY <1>4, <1>5, <1>6, <1>7

-----------------------------------------------------------------------------
(* Uploads *)

\* A segment that is uploaded is remote with a root of its own, or inline.
LEMMA UploadedRow ==
    ASSUME DataInv, ~MixedKinds, NEW s \in DOMAIN objects, NEW p \in Positions,
           CommitSegment(s, p) \/ CommitInlineSegment(s, p)
    PROVE  /\ Pending(s)
           /\ UNCHANGED <<objects, copies, nextStream, now, deletedPieces, requests, chores>>
           /\ \E row :
                 /\ segments' = [k \in DOMAIN segments \cup {<<s, p>>} |->
                                    IF k = <<s, p>> THEN row ELSE segments[k]]
                 /\ \/ /\ row.inline /\ row.root = NoRoot /\ row.pieces = NoPieces
                       /\ ~row.redundancy
                    \/ /\ ~row.inline /\ row.pieces # NoPieces /\ row.redundancy
                       /\ \E a \in Attempts : row.root = <<s, p, a>>
<1> DEFINE old == SegmentRowOf(s, p)
<1>1. CASE <<s, p>> \in DOMAIN segments
  <2>1. old = segments[<<s, p>>] /\ old \in SegmentRow
    BY <1>1, SegmentKey DEF SegmentRowOf, DataInv, FamilyInv, TypeInv
  <2>2. old.inline => old.root = NoRoot /\ old.pieces = NoPieces /\ ~old.redundancy
    BY <1>1, <2>1 DEF DataInv, RowsInv, RowsFormed
  <2>3. CASE CommitSegment(s, p)
    <3>1. PICK a \in Attempts :
            UpsertSegment(s, p, [old EXCEPT !.root = <<s, p, a>>, !.pieces = 1, !.redundancy = TRUE])
      BY <2>3 DEF CommitSegment
    <3>2. PICK row : row = [old EXCEPT !.root = <<s, p, a>>, !.pieces = 1, !.redundancy = TRUE]
      OBVIOUS
    <3>3. old.inline = FALSE
      BY <1>1, <2>1, <2>3 DEF CommitSegment, KeepsKind
    <3>4. row.inline = FALSE /\ row.pieces = 1 /\ row.redundancy = TRUE /\ row.root = <<s, p, a>>
      BY <2>1, <3>2, <3>3 DEF SegmentRow
    <3>5. /\ Pending(s)
          /\ UNCHANGED <<objects, copies, nextStream, now, deletedPieces, requests, chores>>
          /\ segments' = [k \in DOMAIN segments \cup {<<s, p>>} |->
                             IF k = <<s, p>> THEN row ELSE segments[k]]
      BY <3>1, <3>2 DEF UpsertSegment
    <3>6. row.pieces # NoPieces
      BY <3>4 DEF NoPieces
    <3> HIDE DEF old
    <3> QED
      BY <3>4, <3>5, <3>6
  <2>4. CASE CommitInlineSegment(s, p)
    <3>1. UpsertSegment(s, p, [old EXCEPT !.root = NoRoot, !.inline = TRUE])
      BY <2>4 DEF CommitInlineSegment
    <3>2. PICK row : row = [old EXCEPT !.root = NoRoot, !.inline = TRUE]
      OBVIOUS
    <3>3. old.inline = TRUE
      BY <1>1, <2>1, <2>4 DEF CommitInlineSegment, KeepsKind
    <3>4. row.inline = TRUE /\ row.root = NoRoot /\ row.pieces = old.pieces
          /\ row.redundancy = old.redundancy
      BY <2>1, <3>2 DEF SegmentRow
    <3> QED
      BY <2>2, <3>1, <3>2, <3>3, <3>4 DEF UpsertSegment
  <2> QED
    BY <2>3, <2>4
<1>2. CASE <<s, p>> \notin DOMAIN segments
  <2>1. old = [root |-> NoRoot, pieces |-> NoPieces, inline |-> FALSE,
               redundancy |-> FALSE, created |-> now]
    BY <1>2 DEF SegmentRowOf
  <2>2. CASE CommitSegment(s, p)
    <3>1. PICK a \in Attempts :
            UpsertSegment(s, p, [old EXCEPT !.root = <<s, p, a>>, !.pieces = 1, !.redundancy = TRUE])
      BY <2>2 DEF CommitSegment
    <3>2. PICK row : row = [old EXCEPT !.root = <<s, p, a>>, !.pieces = 1, !.redundancy = TRUE]
      OBVIOUS
    <3>3. row.inline = FALSE /\ row.pieces = 1 /\ row.redundancy = TRUE /\ row.root = <<s, p, a>>
      BY <2>1, <3>2
    <3>4. /\ Pending(s)
          /\ UNCHANGED <<objects, copies, nextStream, now, deletedPieces, requests, chores>>
          /\ segments' = [k \in DOMAIN segments \cup {<<s, p>>} |->
                             IF k = <<s, p>> THEN row ELSE segments[k]]
      BY <3>1, <3>2 DEF UpsertSegment
    <3>5. row.pieces # NoPieces
      BY <3>3 DEF NoPieces
    <3> HIDE DEF old
    <3> QED
      BY <3>3, <3>4, <3>5
  <2>3. CASE CommitInlineSegment(s, p)
    <3>1. UpsertSegment(s, p, [old EXCEPT !.root = NoRoot, !.inline = TRUE])
      BY <2>3 DEF CommitInlineSegment
    <3>2. PICK row : row = [old EXCEPT !.root = NoRoot, !.inline = TRUE]
      OBVIOUS
    <3>3. row.inline = TRUE /\ row.root = NoRoot /\ row.pieces = NoPieces /\ row.redundancy = FALSE
      BY <2>1, <3>2
    <3> QED
      BY <3>1, <3>2, <3>3 DEF UpsertSegment
  <2> QED
    BY <2>2, <2>3
<1> QED
  BY <1>1, <1>2

LEMMA DataUploaded ==
    ASSUME DataInv, ~MixedKinds, NEW s \in DOMAIN objects, NEW p \in Positions,
           CommitSegment(s, p) \/ CommitInlineSegment(s, p)
    PROVE  RowsInv' /\ LiveInv'
<1> USE DEF DataInv
<1> DEFINE k0 == <<s, p>>
<1>1. /\ Pending(s)
      /\ objects' = objects /\ copies' = copies /\ nextStream' = nextStream /\ now' = now
      /\ deletedPieces' = deletedPieces /\ aborted' = aborted
  BY UploadedRow DEF requests
<1>2. PICK row :
        /\ segments' = [k \in DOMAIN segments \cup {k0} |->
                           IF k = k0 THEN row ELSE segments[k]]
        /\ \/ /\ row.inline /\ row.root = NoRoot /\ row.pieces = NoPieces
              /\ ~row.redundancy
           \/ /\ ~row.inline /\ row.pieces # NoPieces /\ row.redundancy
              /\ \E a \in Attempts : row.root = <<s, p, a>>
  BY UploadedRow
<1>3. /\ DOMAIN segments' = DOMAIN segments \cup {k0}
      /\ segments'[k0] = row /\ k0[1] = s /\ k0[2] = p
      /\ \A k \in DOMAIN segments' : k # k0 => k \in DOMAIN segments /\ segments'[k] = segments[k]
  BY <1>2
<1>4. /\ \A u : Leader(u)' = Leader(u) /\ Pending(u)' = Pending(u) /\ Live(u)' = Live(u)
                /\ Kept(u)' = Kept(u) /\ DrawnRoot(u)' = DrawnRoot(u)
  BY <1>1 DEF Leader, Pending, Live, Kept, Committed, DrawnRoot
<1>5. /\ s \notin DOMAIN copies /\ Leader(s) = s
      /\ \A k \in DOMAIN segments : Leader(k[1]) = s => k[1] = s
      /\ \A c \in DOMAIN copies : copies[c] # s
      /\ ~Live(s) /\ s \in DOMAIN objects
  <2>1. ~Committed(s) /\ s \in DOMAIN objects
    BY <1>1 DEF Pending, Committed
  <2> QED
    BY <1>1, <2>1, PendingAlone DEF LiveInv, FamilyInv, Families, Live
<1>6. row.inline \/ row.root # NoRoot
  BY <1>2 DEF NoRoot, Pending, FamilyInv, TypeInv, TypeOK, Streams
<1>7. row.root # NoRoot => row.root[1] = s /\ row.root[2] = p
  BY <1>2
<1>8. \A k \in DOMAIN segments' : k = <<k[1], k[2]>>
  BY <1>3, SegmentKey DEF FamilyInv, TypeInv
<1> HIDE DEF k0
<1>9. RowsFormed'
  <2> SUFFICES ASSUME NEW k \in DOMAIN segments'
               PROVE  IF segments'[k].inline
                      THEN /\ segments'[k].root = NoRoot /\ segments'[k].pieces = NoPieces
                           /\ ~segments'[k].redundancy
                      ELSE segments'[k].root # NoRoot /\ segments'[k].redundancy
    BY DEF RowsFormed
  <2>1. CASE k = k0
    BY <1>2, <1>3, <1>6, <2>1
  <2>2. CASE k # k0
    BY <1>3, <2>2 DEF RowsInv, RowsFormed
  <2> QED
    BY <2>1, <2>2
<1>10. Flat'
  BY <1>1 DEF RowsInv, Flat
<1>11. CopiesOwnNothing'
  BY <1>1, <1>3, <1>5 DEF RowsInv, CopiesOwnNothing
<1>12. FamilyAgrees'
  <2> SUFFICES ASSUME NEW k \in DOMAIN segments', NEW l \in DOMAIN segments',
                      k[2] = l[2], Leader(k[1]) = Leader(l[1])
               PROVE  /\ segments'[k].root = segments'[l].root
                      /\ segments'[k].inline = segments'[l].inline
    BY <1>4 DEF FamilyAgrees
  <2>1. CASE k = k0 \/ l = k0
    <3>1. k[1] = l[1]
      BY <1>3, <1>5, <2>1
    <3> QED
      BY <1>8, <3>1
  <2>2. CASE k # k0 /\ l # k0
    BY <1>3, <2>2 DEF RowsInv, FamilyAgrees
  <2> QED
    BY <2>1, <2>2
<1>13. RootsApart'
  <2> SUFFICES ASSUME NEW k \in DOMAIN segments', NEW l \in DOMAIN segments',
                      segments'[k].root = segments'[l].root, segments'[k].root # NoRoot
               PROVE  k[2] = l[2] /\ Leader(k[1]) = Leader(l[1])
    BY <1>4 DEF RootsApart
  <2>1. ASSUME NEW m \in DOMAIN segments, segments[m].root = row.root, row.root # NoRoot
        PROVE  m[1] = s /\ m[2] = p
    <3>1. segments[m].root # NoRoot /\ ~DrawnRoot(segments[m].root)
      BY <1>1, <1>7, <2>1 DEF DrawnRoot
    <3> QED
      BY <1>7, <2>1, <3>1 DEF RowsInv, RootsDrawn
  <2>2. CASE k # k0 /\ l # k0
    BY <1>3, <2>2 DEF RowsInv, RootsApart
  <2>3. CASE k = k0 /\ l # k0
    BY <1>3, <2>1, <2>3
  <2>4. CASE k # k0 /\ l = k0
    BY <1>3, <2>1, <2>4
  <2> QED
    BY <2>2, <2>3, <2>4
<1>14. RootsDrawn'
  <2>1. ASSUME NEW k \in DOMAIN segments', segments'[k].root # NoRoot
        PROVE  /\ segments'[k].root[2] = k[2]
               /\ segments'[k].root[1] = k[1] \/ DrawnRoot(segments'[k].root)
    BY <1>3, <1>7, <2>1 DEF RowsInv, RootsDrawn
  <2>2. /\ \A t \in DOMAIN aborted : \A root \in aborted[t] : DrawnRoot(root)
        /\ \A root \in deletedPieces : DrawnRoot(root)
    BY DEF RowsInv, RootsDrawn
  <2>3. /\ \A t \in DOMAIN aborted' : \A root \in aborted'[t] : DrawnRoot(root)'
        /\ \A root \in deletedPieces' : DrawnRoot(root)'
        /\ \A k \in DOMAIN segments' : segments'[k].root # NoRoot =>
              /\ segments'[k].root[2] = k[2]
              /\ segments'[k].root[1] = k[1] \/ DrawnRoot(segments[k].root)'
    BY <1>1, <2>1, <2>2 DEF DrawnRoot, Pending
  <2> QED
    BY <2>3 DEF RootsDrawn
<1>15. NoOrphanSegments'
  BY <1>1, <1>3, <1>5 DEF LiveInv, NoOrphanSegments
<1>16. \A u : u # s => SegmentsOf(u)' = SegmentsOf(u)
  BY <1>3 DEF SegmentsOf, k0
<1>17. SegmentCountMatches'
  BY <1>1, <1>4, <1>5, <1>16 DEF LiveInv, SegmentCountMatches
<1>18. SameKeys'
  <2> SUFFICES ASSUME NEW c \in DOMAIN copies, Live(c)
               PROVE  SegmentsOf(c)' = SegmentsOf(copies[c])'
    BY <1>1, <1>4 DEF SameKeys
  <2> QED
    BY <1>1, <1>5, <1>16 DEF LiveInv, SameKeys
<1>19. PiecesOwned'
  <2> SUFFICES ASSUME NEW k \in DOMAIN segments', Kept(k[1]), ~segments'[k].inline
               PROVE  /\ <<Leader(k[1]), k[2]>> \in DOMAIN segments'
                      /\ segments'[<<Leader(k[1]), k[2]>>].pieces # NoPieces
    BY <1>4 DEF PiecesOwned
  <2>1. CASE k = k0
    <3>1. <<Leader(k[1]), k[2]>> = k0
      BY <1>3, <1>5, <1>8, <2>1
    <3> QED
      BY <1>2, <1>3, <2>1, <3>1
  <2>2. CASE k # k0
    <3>1. k \in DOMAIN segments /\ ~segments[k].inline
      BY <1>3, <2>2
    <3>2. /\ <<Leader(k[1]), k[2]>> \in DOMAIN segments
          /\ segments[<<Leader(k[1]), k[2]>>].pieces # NoPieces
      BY <3>1 DEF LiveInv, PiecesOwned
    <3>3. <<Leader(k[1]), k[2]>> # k0
      BY <1>3, <1>5, <1>8, <2>2, <3>1
    <3> QED
      BY <1>2, <1>3, <3>2, <3>3
  <2> QED
    BY <2>1, <2>2
<1> QED
  BY <1>9, <1>10, <1>11, <1>12, <1>13, <1>14, <1>15, <1>17, <1>18, <1>19 DEF RowsInv, LiveInv

\* A step that at most takes rows away, none of them from a live object.
LEMMA DataTaken ==
    ASSUME DataInv, TypeInv', copies' = copies, nextStream' = nextStream,
           now' \in {now, now + 1}, RowsKept(DOMAIN objects'),
           \A k \in DOMAIN segments' :
              k \in DOMAIN segments /\ segments'[k] = segments[k] /\ k[1] \in DOMAIN objects',
           \A k \in DOMAIN segments : Live(k[1]) => k \in DOMAIN segments',
           \A root \in deletedPieces' \ deletedPieces :
              \E k \in DOMAIN segments : root = segments[k].root /\ ~Pending(k[1])',
           \A s \in DOMAIN aborted' : \A root \in aborted'[s] :
              \/ \E k \in DOMAIN segments : root = segments[k].root /\ ~Pending(k[1])'
              \/ s \in DOMAIN aborted /\ root \in aborted[s]
    PROVE  RowsInv' /\ LiveInv'
<1> USE DEF DataInv, FamilyInv
<1>1. NoneReopened
  BY DEF NoneReopened, RowsKept, Pending, TypeInv, TypeOK
<1>2. \A s \in DOMAIN objects' : s \in DOMAIN objects /\ objects'[s] = objects[s]
  BY DEF RowsKept
<1>3. /\ \A root \in deletedPieces' \ deletedPieces : DrawnRoot(root)'
      /\ \A s \in DOMAIN aborted' : \A root \in aborted'[s] :
            \/ DrawnRoot(root)'
            \/ s \in DOMAIN aborted /\ root \in aborted[s]
  BY <1>1, ReportedDrawn
<1>4. RowsInv'
  BY <1>1, <1>3, RowsRemain
<1>5. \A s \in DOMAIN objects' :
         /\ Live(s)' => Live(s) /\ objects'[s].count = objects[s].count
         /\ Pending(s)' => Pending(s)
  <2> SUFFICES ASSUME NEW s \in DOMAIN objects'
               PROVE  /\ Live(s)' => Live(s)
                      /\ Pending(s)' => Pending(s)
    BY <1>2
  <2>1. objects[s].expires \in Int /\ now \in Int
    BY <1>2, BoundsAssumption DEF TypeInv, TypeOK, ObjectRow, Never
  <2> QED
    BY <1>2, <2>1 DEF Live, Committed, Pending
<1>6. LiveInv'
  BY <1>5, LiveRemain
<1> QED
  BY <1>4, <1>6

\* Reads, ticks and what only changes a request or a batch.
LEMMA DataSame ==
    ASSUME DataInv, TypeInv', objects' = objects, segments' = segments, copies' = copies,
           nextStream' = nextStream, now' \in {now, now + 1},
           deletedPieces' = deletedPieces, aborted' = aborted
    PROVE  RowsInv' /\ LiveInv'
<1>1. RowsKept(DOMAIN objects')
  BY DEF RowsKept
<1>2. \A k \in DOMAIN segments : k[1] \in DOMAIN objects
  BY DEF DataInv, LiveInv, NoOrphanSegments
<1> QED
  BY <1>1, <1>2, DataTaken

\* A delete that promotes copies.
LEMMA DataDeleted ==
    ASSUME DataInv, TypeInv', NEW D \in SUBSET DOMAIN objects, DeleteObjects(D),
           UNCHANGED <<nextStream, now, requests, chores>>
    PROVE  RowsInv' /\ LiveInv'
<1>1. PICK P \in Promotions(D) :
        /\ objects' = ObjectsWithout(D) /\ segments' = SegmentsWithout(D, P)
        /\ copies' = CopiesWithout(D, P) /\ deletedPieces' = deletedPieces \cup PiecesToDelete(D)
  BY DEF DeleteObjects
<1>2. DOMAIN objects' = DOMAIN objects \ D /\ RowsKept(DOMAIN objects')
  BY <1>1 DEF ObjectsWithout, Restrict, RowsKept
<1>3. NoneReopened
  BY <1>2 DEF NoneReopened, RowsKept, Pending, TypeInv, TypeOK
<1>4. now' = now /\ aborted' = aborted
  BY DEF requests
<1>5. RowsInv'
  BY <1>1, <1>2, <1>3, <1>4, RowsPromoted
<1>6. \A s \in DOMAIN objects' :
        /\ objects'[s].expires = objects[s].expires
        /\ Pending(s)' => Pending(s)
        /\ Committed(s)' => Committed(s) /\ objects'[s].count = objects[s].count
  BY <1>2 DEF RowsKept, Pending, Committed
<1>7. LiveInv'
  BY <1>1, <1>2, <1>4, <1>6, LivePromoted
<1> QED
  BY <1>5, <1>7

LEMMA DataDeletes ==
    ASSUME DataInv, TypeInv', Delete
    PROVE  RowsInv' /\ LiveInv'
<1>1. ASSUME NEW s \in DOMAIN objects, DeletePendingObject(s)
      PROVE  RowsInv' /\ LiveInv'
  <2>1. /\ Pending(s) /\ objects' = ObjectsWithout({s})
        /\ segments' = Restrict(segments, {k \in DOMAIN segments : k[1] # s})
        /\ deletedPieces' = deletedPieces \cup
              {segments[k].root : k \in {k \in DOMAIN segments :
                  k[1] = s /\ segments[k].pieces # NoPieces}}
        /\ copies' = copies /\ nextStream' = nextStream /\ now' = now /\ aborted' = aborted
    BY <1>1 DEF DeletePendingObject, requests
  <2>2. RowsKept(DOMAIN objects') /\ DOMAIN objects' = DOMAIN objects \ {s}
    BY <2>1 DEF RowsKept, ObjectsWithout, Restrict
  <2>3. \A k \in DOMAIN segments' :
           k \in DOMAIN segments /\ segments'[k] = segments[k] /\ k[1] \in DOMAIN objects'
    BY <2>1, <2>2 DEF Restrict, DataInv, LiveInv, NoOrphanSegments
  <2>4. \A k \in DOMAIN segments : Live(k[1]) => k \in DOMAIN segments'
    BY <2>1 DEF Restrict, Live, Committed, Pending
  <2>5. \A root \in deletedPieces' \ deletedPieces :
           \E k \in DOMAIN segments : root = segments[k].root /\ ~Pending(k[1])'
    BY <2>1, <2>2 DEF Pending
  <2> QED
    BY <2>1, <2>2, <2>3, <2>4, <2>5, DataTaken
<1>2. ASSUME NEW l \in Locations, DeleteObjectLastCommitted(l)
      PROVE  RowsInv' /\ LiveInv'
  <2>1. {s \in CommittedAt(l) : Unexpired(s)} \in SUBSET DOMAIN objects
    BY DEF CommittedAt, At
  <2> QED
    BY <1>2, <2>1, DataDeleted DEF DeleteObjectLastCommitted
<1>3. ASSUME NEW l \in Locations, DeleteObjectExactVersion(l)
      PROVE  RowsInv' /\ LiveInv'
  <2>1. \A s \in At(l) : {s} \in SUBSET DOMAIN objects
    BY DEF At
  <2> QED
    BY <1>3, <2>1, DataDeleted DEF DeleteObjectExactVersion
<1>4. ASSUME NEW b, DeleteBucketBatch(b)
      PROVE  RowsInv' /\ LiveInv'
  <2>1. /\ \E D \in SUBSET DOMAIN objects : DeleteObjects(D)
        /\ UNCHANGED <<nextStream, now, requests, chores>>
    BY <1>4 DEF DeleteBucketBatch
  <2> QED
    BY <2>1, DataDeleted
<1> QED
  BY <1>1, <1>2, <1>3, <1>4 DEF Delete

LEMMA DataChores ==
    ASSUME DataInv, TypeInv', Chores
    PROVE  RowsInv' /\ LiveInv'
<1>1. ASSUME SelectZombieObjects \/ SelectExpiredObjects
      PROVE  RowsInv' /\ LiveInv'
  BY <1>1, DataSame DEF SelectZombieObjects, SelectExpiredObjects, tables, requests
<1>2. ASSUME NEW H,
             objects' = ObjectsWithout({h.stream : h \in {g \in H : Selected(g)}}),
             segments' = Restrict(segments,
                {k \in DOMAIN segments : \A h \in H : h.stream # k[1]}),
             \A h \in H : ~Live(h.stream),
             copies' = copies, nextStream' = nextStream, now' = now,
             deletedPieces' = deletedPieces, aborted' = aborted
      PROVE  RowsInv' /\ LiveInv'
  <2>1. /\ RowsKept(DOMAIN objects')
        /\ \A s \in DOMAIN objects \ DOMAIN objects' : \E h \in H : h.stream = s
    BY <1>2 DEF RowsKept, ObjectsWithout, Restrict
  <2>2. \A k \in DOMAIN segments' :
           k \in DOMAIN segments /\ segments'[k] = segments[k] /\ k[1] \in DOMAIN objects'
    BY <1>2, <2>1 DEF Restrict, DataInv, LiveInv, NoOrphanSegments
  <2>3. \A k \in DOMAIN segments : Live(k[1]) => k \in DOMAIN segments'
    BY <1>2 DEF Restrict
  <2> QED
    BY <1>2, <2>1, <2>2, <2>3, DataTaken
<1>3. CASE DeleteInactiveObjectsAndSegments
  <2>1. PICK H \in SUBSET zombies.batch :
          /\ objects' = ObjectsWithout({h.stream : h \in {g \in H : Selected(g)}})
          /\ segments' = Restrict(segments,
                {k \in DOMAIN segments : \A h \in H : h.stream # k[1]})
    BY <1>3 DEF DeleteInactiveObjectsAndSegments
  <2>2. \A h \in H : ~Live(h.stream)
    BY DEF DataInv, FamilyInv, Batches, Live, Committed, Pending
  <2> QED
    BY <1>2, <1>3, <2>1, <2>2 DEF DeleteInactiveObjectsAndSegments, requests
<1>4. CASE DeleteObjectsAndSegments
  <2>1. \A h \in expired.batch : ~Live(h.stream)
    <3> SUFFICES ASSUME NEW h \in expired.batch, h.stream \in DOMAIN objects
                 PROVE  ~(objects[h.stream].expires >= now)
      BY DEF Live, Committed
    <3>1. objects[h.stream].expires \in Int /\ now \in Int
      BY BoundsAssumption DEF DataInv, FamilyInv, TypeInv, TypeOK, ObjectRow, Never
    <3> QED
      BY <3>1 DEF DataInv, FamilyInv, Batches
  <2> QED
    BY <1>2, <1>4, <2>1 DEF DeleteObjectsAndSegments, requests
<1> QED
  BY <1>1, <1>3, <1>4 DEF Chores

\* A repair whose compare-and-swap succeeds writes the pieces of one remote row.
LEMMA RepairedRow ==
    ASSUME DataInv, NEW r \in repair, UpdateSegmentPieces(r), NEW k, k = <<r.stream, r.pos>>,
           k \in DOMAIN segments, segments[k].pieces = r.pieces
    PROVE  /\ r.pieces \in Nat /\ r.pieces > 0 /\ r.pieces + 1 \in 1..MaxPieces
           /\ ~segments[k].inline
           /\ DOMAIN segments' = DOMAIN segments
           /\ \A m \in DOMAIN segments :
                 /\ segments'[m].root = segments[m].root
                 /\ segments'[m].inline = segments[m].inline
                 /\ segments'[m].redundancy = segments[m].redundancy
                 /\ segments'[m].pieces = IF m = k THEN r.pieces + 1 ELSE segments[m].pieces
<1>1. segments' = [segments EXCEPT ![k].pieces = r.pieces + 1, ![k].redundancy = TRUE]
  BY DEF UpdateSegmentPieces
<1>2. r.pieces \in Nat /\ r.pieces > 0 /\ r.pieces + 1 \in 1..MaxPieces
  BY BoundsAssumption DEF DataInv, FamilyInv, TypeInv, TypeOK, RepairRead
<1>3. segments[k] \in SegmentRow
  BY DEF DataInv, FamilyInv, TypeInv, TypeOK
<1>4. ~segments[k].inline /\ segments[k].redundancy = TRUE
  BY <1>2, <1>3 DEF DataInv, RowsInv, RowsFormed, NoPieces, SegmentRow
<1>5. PICK row : row = [segments[k] EXCEPT !.pieces = r.pieces + 1, !.redundancy = TRUE]
  OBVIOUS
<1>6. /\ row.root = segments[k].root /\ row.inline = segments[k].inline
      /\ row.redundancy = segments[k].redundancy
      /\ row.pieces = r.pieces + 1
  BY <1>3, <1>4, <1>5 DEF SegmentRow
<1>7. segments' = [segments EXCEPT ![k] = row]
  BY <1>1, <1>3, <1>5 DEF SegmentRow
<1>8. ASSUME NEW m \in DOMAIN segments
      PROVE  /\ segments'[m].root = segments[m].root
             /\ segments'[m].inline = segments[m].inline
             /\ segments'[m].redundancy = segments[m].redundancy
             /\ segments'[m].pieces = IF m = k THEN r.pieces + 1 ELSE segments[m].pieces
  <2>1. CASE m = k
    BY <1>6, <1>7, <2>1
  <2>2. CASE m # k
    BY <1>7, <2>2
  <2> QED
    BY <2>1, <2>2
<1> QED
  BY <1>2, <1>4, <1>7, <1>8

LEMMA DataRepair ==
    ASSUME DataInv, TypeInv', Repair
    PROVE  RowsInv' /\ LiveInv'
<1>1. ASSUME NEW s, NEW p, ReadForRepair(s, p)
      PROVE  RowsInv' /\ LiveInv'
  BY <1>1, DataSame DEF ReadForRepair, tables
<1>2. ASSUME NEW r \in repair, UpdateSegmentPieces(r)
      PROVE  RowsInv' /\ LiveInv'
  <2> DEFINE k0 == <<r.stream, r.pos>>
  <2>1. /\ objects' = objects /\ copies' = copies /\ nextStream' = nextStream /\ now' = now
        /\ deletedPieces' = deletedPieces /\ aborted' = aborted
        /\ segments' = IF k0 \in DOMAIN segments /\ segments[k0].pieces = r.pieces
                       THEN [segments EXCEPT ![k0].pieces = r.pieces + 1,
                                             ![k0].redundancy = TRUE]
                       ELSE segments
    BY <1>2 DEF UpdateSegmentPieces
  <2>2. CASE ~(k0 \in DOMAIN segments /\ segments[k0].pieces = r.pieces)
    BY <2>1, <2>2, DataSame
  <2>3. CASE k0 \in DOMAIN segments /\ segments[k0].pieces = r.pieces
    <3>1. PICK k : k = k0
      OBVIOUS
    <3>2. /\ DOMAIN segments' = DOMAIN segments
          /\ r.pieces \in Nat /\ r.pieces > 0
          /\ \A m \in DOMAIN segments :
                /\ segments'[m].root = segments[m].root
                /\ segments'[m].inline = segments[m].inline
                /\ segments'[m].redundancy = segments[m].redundancy
                /\ segments'[m].pieces = IF m = k THEN r.pieces + 1 ELSE segments[m].pieces
      BY <1>2, <2>3, <3>1, RepairedRow
    <3>3. ASSUME NEW m \in DOMAIN segments'
          PROVE  /\ m \in DOMAIN segments
                 /\ segments'[m].root = segments[m].root
                 /\ segments'[m].inline = segments[m].inline
                 /\ segments'[m].redundancy = segments[m].redundancy
                 /\ segments[m].pieces = NoPieces => segments'[m].pieces = NoPieces
                 /\ segments[m].pieces # NoPieces => segments'[m].pieces # NoPieces
      BY <2>3, <3>1, <3>2 DEF NoPieces
    <3>4. NoneReopened
      BY <2>1 DEF NoneReopened, Pending, DataInv, FamilyInv, TypeInv, TypeOK
    <3>5. RowsInv'
      BY <2>1, <3>3, <3>4, RowsRemain
    <3>6. \A m \in DOMAIN segments : m[1] \in DOMAIN objects
      BY DEF DataInv, LiveInv, NoOrphanSegments
    <3>7. \A s \in DOMAIN objects' :
              /\ Live(s)' => Live(s) /\ objects'[s].count = objects[s].count
              /\ Pending(s)' => Pending(s)
      BY <2>1 DEF Live, Committed, Pending
    <3>8. LiveInv'
      BY <2>1, <3>2, <3>3, <3>6, <3>7, LiveRemain
    <3> QED
      BY <3>5, <3>8
  <2> QED
    BY <2>2, <2>3
<1> QED
  BY <1>1, <1>2 DEF Repair

LEMMA DataBegun ==
    ASSUME DataInv, TypeInv', NEW l \in Locations, BeginObjectNextVersion(l)
    PROVE  RowsInv' /\ LiveInv'
<1>0. TypeInv /\ nextStream \in Int
  BY DEF DataInv, FamilyInv, TypeInv, TypeOK
<1>1. /\ DOMAIN objects' = DOMAIN objects \cup {nextStream}
      /\ RowsKept(DOMAIN objects' \ {nextStream})
      /\ objects'[nextStream].status = "pending"
  BY <1>0, BegunRow
<1>2. /\ segments' = segments /\ copies' = copies /\ now' = now /\ nextStream' = nextStream + 1
      /\ deletedPieces' = deletedPieces /\ aborted' = aborted
  BY DEF BeginObjectNextVersion, requests
<1>3. NoneReopened
  BY <1>0, <1>1, <1>2 DEF NoneReopened, RowsKept, Pending
<1>4. RowsInv'
  BY <1>2, <1>3, RowsRemain
<1>5. \A s \in DOMAIN objects' :
         /\ Live(s)' => Live(s) /\ objects'[s].count = objects[s].count
         /\ Pending(s)' => Pending(s) \/ s = nextStream
  BY <1>1, <1>2 DEF RowsKept, Live, Committed, Pending
<1>6. \A k \in DOMAIN segments : k[1] \in DOMAIN objects'
  BY <1>1 DEF DataInv, LiveInv, NoOrphanSegments
<1>7. LiveInv'
  BY <1>2, <1>5, <1>6, LiveRemain
<1> QED
  BY <1>4, <1>7

LEMMA DataCommitted ==
    ASSUME DataInv, TypeInv', NEW s \in DOMAIN objects, CommitObject(s)
    PROVE  RowsInv' /\ LiveInv'
<1> DEFINE D == CommittedAt(objects[s].loc)
<1>0. TypeInv /\ nextStream \in Int /\ Pending(s)
  BY DEF DataInv, FamilyInv, TypeInv, TypeOK, CommitObject
<1>1. PICK P \in Promotions(D) :
        /\ objects' = [ObjectsWithout(D) EXCEPT
                         ![s].status = "committed", ![s].deadline = 0,
                         ![s].count = Cardinality(SegmentsOf(s))]
        /\ segments' = SegmentsWithout(D, P)
        /\ copies' = CopiesWithout(D, P)
        /\ deletedPieces' = deletedPieces \cup PiecesToDelete(D)
                              \cup (IF s \in DOMAIN aborted THEN aborted[s] ELSE {})
  BY DEF CommitObject
<1>2. /\ aborted' = Restrict(aborted, DOMAIN aborted \ {s})
      /\ now' = now /\ nextStream' = nextStream
  BY DEF CommitObject
<1>3. /\ DOMAIN objects' = DOMAIN objects \ D
      /\ RowsKept(DOMAIN objects' \ {s})
      /\ s \in DOMAIN objects'
      /\ objects'[s].expires = objects[s].expires
      /\ objects'[s].status = "committed"
  BY <1>0, CommittedRow
<1>4. objects'[s].count = Cardinality(SegmentsOf(s))
  <2>1. s \in DOMAIN ObjectsWithout(D) /\ ObjectsWithout(D)[s] = objects[s]
    BY <1>3 DEF ObjectsWithout, Restrict
  <2>2. objects'[s] = [objects[s] EXCEPT !.status = "committed", !.deadline = 0,
                                         !.count = Cardinality(SegmentsOf(s))]
    BY <1>1, <2>1
  <2>3. objects[s] \in ObjectRow
    BY <1>0 DEF TypeInv, TypeOK
  <2> QED
    BY <2>2, <2>3 DEF ObjectRow
<1>5. D \in SUBSET DOMAIN objects
  BY DEF CommittedAt, At
<1> HIDE DEF D
<1>6. NoneReopened
  BY <1>0, <1>2, <1>3 DEF NoneReopened, RowsKept, Pending
<1>7. \A root \in deletedPieces' : \/ root \in deletedPieces
                                   \/ root \in PiecesToDelete(D)
                                   \/ \E t \in DOMAIN aborted : root \in aborted[t]
  BY <1>1
<1>8. \A t \in DOMAIN aborted' : t \in DOMAIN aborted /\ aborted'[t] = aborted[t]
  BY <1>2 DEF Restrict
<1>9. RowsInv'
  BY <1>1, <1>3, <1>6, <1>7, <1>8, RowsPromoted
<1>10. \A t \in DOMAIN objects' :
          /\ objects'[t].expires = objects[t].expires
          /\ Pending(t)' => Pending(t)
          /\ Committed(t)' =>
                \/ Committed(t) /\ objects'[t].count = objects[t].count
                \/ Pending(t) /\ objects'[t].count = Cardinality(SegmentsOf(t))
  BY <1>0, <1>3, <1>4 DEF RowsKept, Pending, Committed
<1>11. LiveInv'
  BY <1>1, <1>2, <1>3, <1>5, <1>10, LivePromoted
<1> QED
  BY <1>9, <1>11

LEMMA DataAborted ==
    ASSUME DataInv, TypeInv', NEW s \in DOMAIN objects, AbortCommitObject(s)
    PROVE  RowsInv' /\ LiveInv'
<1> DEFINE D == CommittedAt(objects[s].loc)
<1>1. /\ objects' = objects /\ segments' = segments /\ copies' = copies
      /\ nextStream' = nextStream /\ now' = now /\ deletedPieces' = deletedPieces
      /\ aborted' = [t \in DOMAIN aborted \cup {s} |->
            (IF t \in DOMAIN aborted THEN aborted[t] ELSE {})
              \cup (IF t = s THEN PiecesToDelete(D) ELSE {})]
  BY DEF AbortCommitObject, tables
<1>2. ASSUME NEW t \in DOMAIN aborted', NEW root \in aborted'[t]
      PROVE  \/ \E k \in DOMAIN segments : root = segments[k].root /\ ~Pending(k[1])'
             \/ t \in DOMAIN aborted /\ root \in aborted[t]
  <2>1. root \in PiecesToDelete(D) \/ (t \in DOMAIN aborted /\ root \in aborted[t])
    BY <1>1, <1>2
  <2>2. \A u \in D : ~Pending(u)'
    BY <1>1 DEF CommittedAt, Committed, Pending
  <2> HIDE DEF D
  <2> QED
    BY <2>1, <2>2 DEF PiecesToDelete
<1>3. RowsKept(DOMAIN objects')
  BY <1>1 DEF RowsKept
<1>4. \A k \in DOMAIN segments : k[1] \in DOMAIN objects
  BY DEF DataInv, LiveInv, NoOrphanSegments
<1> HIDE DEF D
<1> QED
  BY <1>1, <1>2, <1>3, <1>4, DataTaken

LEMMA DataMoved ==
    ASSUME DataInv, TypeInv', NEW l \in Locations, FinishMoveObject(l)
    PROVE  RowsInv' /\ LiveInv'
<1> DEFINE r == begun["move"]
<1>0. TypeInv /\ nextStream \in Int
  BY DEF DataInv, FamilyInv, TypeInv, TypeOK
<1>1. /\ segments' = segments /\ copies' = copies /\ now' = now /\ nextStream' = nextStream
      /\ deletedPieces' = deletedPieces /\ aborted' = aborted
  BY DEF FinishMoveObject, requests
<1>2. /\ DOMAIN objects' = DOMAIN objects
      /\ r.stream \in DOMAIN objects
      /\ RowsKept(DOMAIN objects' \ {r.stream})
      /\ objects'[r.stream].expires = objects[r.stream].expires
      /\ objects'[r.stream].status = objects[r.stream].status
  BY <1>0, MovedRow
<1>3. objects'[r.stream].count = objects[r.stream].count
  <2>1. PICK v \in Versions :
          objects' = [objects EXCEPT ![r.stream].loc = l, ![r.stream].version = v]
    BY DEF FinishMoveObject
  <2>2. objects'[r.stream] = [objects[r.stream] EXCEPT !.loc = l, !.version = v]
    BY <1>2, <2>1
  <2>3. objects[r.stream] \in ObjectRow
    BY <1>0, <1>2 DEF TypeInv, TypeOK
  <2> QED
    BY <2>2, <2>3 DEF ObjectRow
<1> HIDE DEF r
<1>4. \A s \in DOMAIN objects' :
         /\ Live(s)' => Live(s) /\ objects'[s].count = objects[s].count
         /\ Pending(s)' => Pending(s)
  BY <1>1, <1>2, <1>3 DEF RowsKept, Live, Committed, Pending
<1>5. NoneReopened
  BY <1>0, <1>1, <1>2, <1>4 DEF NoneReopened, Pending
<1>6. RowsInv'
  BY <1>1, <1>5, RowsRemain
<1>7. \A k \in DOMAIN segments : k[1] \in DOMAIN objects'
  BY <1>2 DEF DataInv, LiveInv, NoOrphanSegments
<1>8. LiveInv'
  BY <1>1, <1>4, <1>7, LiveRemain
<1> QED
  BY <1>6, <1>8

-----------------------------------------------------------------------------
(* Copies *)

\* The leader that is left was drawn before, and is not one of the copies left.
LEMMA LeaderLeftDrawn ==
    ASSUME TypeInv, RowsInv, NEW D, NEW P \in Promotions(D),
           NEW s, s \notin D, s < nextStream
    PROVE  /\ LeaderLeft(D, P, s) < nextStream
           /\ LeaderLeft(D, P, s) \notin DOMAIN CopiesWithout(D, P)
<1>1. CASE s \in DOMAIN CopiesWithout(D, P)
  <2>1. LeaderLeft(D, P, s) = CopiesWithout(D, P)[s]
    BY <1>1 DEF LeaderLeft
  <2>2. \/ s \in DOMAIN copies /\ CopiesWithout(D, P)[s] = copies[s]
        \/ CopiesWithout(D, P)[s] \in DOMAIN copies
    BY <1>1, CopiesLeft, PromotedAreOrphans
  <2> QED
    BY <1>1, <2>1, <2>2, CopiesLeftFlat DEF TypeInv, Fresh
<1>2. CASE s \notin DOMAIN CopiesWithout(D, P)
  BY <1>2 DEF LeaderLeft
<1> QED
  BY <1>1, <1>2

\* A copy joins the family of its source.
LEMMA NewAncestorLeft ==
    ASSUME NEW r, NEW D, NEW P \in Promotions(D), r.stream \notin D, ~SourceMissing(r)
    PROVE  NewAncestor(r, D, P) = LeaderLeft(D, P, r.stream)
<1> DEFINE s == r.stream
<1>1. ReadAncestor(r) = IF s \in DOMAIN copies THEN copies[s] ELSE s
  BY DEF ReadAncestor
<1>2. DOMAIN CopiesWithout(D, P) = DOMAIN copies \ (D \cup P)
  BY DEF CopiesWithout
<1>3. CASE s \notin DOMAIN copies
  BY <1>1, <1>2, <1>3 DEF NewAncestor, LeaderLeft
<1>4. CASE s \in P
  <2>1. s \in DOMAIN copies /\ copies[s] \in D
    BY <1>4, PromotedAreOrphans
  <2> DEFINE p == CHOOSE p \in P : copies[p] = copies[s]
  <2>2. p \in P /\ copies[p] = copies[s]
    BY <1>4
  <2>3. p = s
    BY <1>4, <2>2, PromotedOnce
  <2>4. NewAncestor(r, D, P) = s
    BY <1>1, <2>1, <2>3 DEF NewAncestor
  <2> QED
    BY <1>2, <1>4, <2>4 DEF LeaderLeft
<1>5. CASE s \in DOMAIN copies /\ s \notin P
  <2>1. LeaderLeft(D, P, s) = CopiesWithout(D, P)[s]
    BY <1>2, <1>5 DEF LeaderLeft
  <2>2. CopiesWithout(D, P)[s] =
           IF copies[s] \in D THEN CHOOSE p \in P : copies[p] = copies[s] ELSE copies[s]
    BY <1>2, <1>5 DEF CopiesWithout
  <2> QED
    BY <1>1, <1>5, <2>1, <2>2 DEF NewAncestor
<1> QED
  BY <1>3, <1>4, <1>5

\* What FinishCopyObject does to the tables, read off its guards and updates.
CopyTables(n, r, D, P, onlyInline) ==
    /\ n = nextStream
    /\ P \in Promotions(D) /\ D \in SUBSET DOMAIN objects
    /\ r.stream \in DOMAIN objects /\ Committed(r.stream)
    /\ r.stream \notin D /\ r.stream < n
    /\ onlyInline = \A p \in SegmentsOf(r.stream) : segments[<<r.stream, p>>].inline
    /\ objects[r.stream].count = Cardinality(SegmentsOf(r.stream))
    /\ DOMAIN objects' = (DOMAIN objects \ D) \cup {n}
    /\ RowsKept(DOMAIN objects' \ {n})
    /\ objects'[n].expires = objects[r.stream].expires
    /\ objects'[n].status = "committed"
    /\ objects'[n].count = objects[r.stream].count
    /\ DOMAIN segments' = DOMAIN SegmentsWithout(D, P)
                             \cup {<<n, p>> : p \in SegmentsOf(r.stream)}
    /\ \A k \in DOMAIN SegmentsWithout(D, P) : segments'[k] = SegmentsWithout(D, P)[k]
    /\ \A p \in SegmentsOf(r.stream) :
          /\ segments'[<<n, p>>].root = segments[<<r.stream, p>>].root
          /\ segments'[<<n, p>>].inline = segments[<<r.stream, p>>].inline
          /\ segments'[<<n, p>>].redundancy = segments[<<r.stream, p>>].redundancy
          /\ segments'[<<n, p>>].pieces = NoPieces
    /\ DOMAIN copies' = DOMAIN CopiesWithout(D, P)
                           \cup (IF onlyInline THEN {} ELSE {n})
    /\ \A c \in DOMAIN CopiesWithout(D, P) : copies'[c] = CopiesWithout(D, P)[c]
    /\ ~onlyInline => copies'[n] = LeaderLeft(D, P, r.stream)

LEMMA CopyWrites ==
    ASSUME DataInv, ~MoveCopyRace, NEW l \in Locations, FinishCopyObject(l)
    PROVE  \E P, onlyInline :
              CopyTables(nextStream, begun["copy"], ReadDestination(begun["copy"], l),
                         P, onlyInline)
<1> DEFINE r == begun["copy"]
           D == ReadDestination(r, l)
           onlyInline == \A p \in SegmentsOf(r.stream) : segments[<<r.stream, p>>].inline
<1>0. TypeInv /\ nextStream \in Int
  BY DEF DataInv, FamilyInv, TypeInv, TypeOK
<1>1. /\ DOMAIN objects' = (DOMAIN objects \ D) \cup {nextStream}
      /\ RowsKept(DOMAIN objects' \ {nextStream})
      /\ r.stream \in DOMAIN objects /\ Committed(r.stream)
      /\ ~SourceMissing(r)
      /\ objects'[nextStream].expires = objects[r.stream].expires
      /\ objects'[nextStream].status = "committed"
  BY <1>0, CopiedRow DEF Committed
<1>2. /\ r.stream \notin D
      /\ objects[r.stream].count = Cardinality(SegmentsOf(r.stream))
      /\ SegmentsOf(r.stream) = r.keys
  BY DEF FinishCopyObject
<1>3. D \in SUBSET DOMAIN objects
  BY DEF ReadDestination, LastCommittedAt, CommittedAt, At
<1>4. PICK P \in Promotions(D), v \in Versions :
        /\ objects' = [s \in (DOMAIN objects \ D) \cup {nextStream} |->
              IF s = nextStream THEN CopiedObject(r.stream, l, v) ELSE objects[s]]
        /\ segments' = [k \in {k \in DOMAIN segments : k[1] \notin D}
                                \cup {<<nextStream, p>> : p \in r.keys} |->
              IF k[1] = nextStream
              THEN [segments[<<r.stream, k[2]>>] EXCEPT !.pieces = NoPieces, !.created = now]
              ELSE SegmentsWithout(D, P)[k]]
        /\ copies' = IF onlyInline THEN CopiesWithout(D, P)
                     ELSE [c \in (DOMAIN copies \ (D \cup P)) \cup {nextStream} |->
                             IF c = nextStream THEN NewAncestor(r, D, P)
                             ELSE CopiesWithout(D, P)[c]]
  BY DEF FinishCopyObject, NewAncestor
<1>5. objects'[nextStream].count = objects[r.stream].count
  <2>1. objects'[nextStream] = [objects[r.stream] EXCEPT !.loc = l, !.version = v]
    BY <1>4 DEF CopiedObject
  <2>2. objects[r.stream] \in ObjectRow
    BY <1>0, <1>1 DEF TypeInv, TypeOK
  <2> QED
    BY <2>1, <2>2 DEF ObjectRow
<1>6. /\ DOMAIN SegmentsWithout(D, P) = {k \in DOMAIN segments : k[1] \notin D}
      /\ DOMAIN CopiesWithout(D, P) = DOMAIN copies \ (D \cup P)
  BY DEF SegmentsWithout, CopiesWithout
<1>7. /\ \A k \in DOMAIN segments : k[1] # nextStream
      /\ \A c \in DOMAIN copies : c # nextStream
      /\ r.stream < nextStream
  BY <1>0, <1>1 DEF TypeInv, Fresh
<1>8. /\ DOMAIN segments' = DOMAIN SegmentsWithout(D, P)
                               \cup {<<nextStream, p>> : p \in SegmentsOf(r.stream)}
      /\ \A k \in DOMAIN SegmentsWithout(D, P) : segments'[k] = SegmentsWithout(D, P)[k]
  BY <1>2, <1>4, <1>6, <1>7
<1>9. ASSUME NEW p \in SegmentsOf(r.stream)
      PROVE  /\ segments'[<<nextStream, p>>].root = segments[<<r.stream, p>>].root
             /\ segments'[<<nextStream, p>>].inline = segments[<<r.stream, p>>].inline
             /\ segments'[<<nextStream, p>>].redundancy = segments[<<r.stream, p>>].redundancy
             /\ segments'[<<nextStream, p>>].pieces = NoPieces
  <2>1. segments'[<<nextStream, p>>] =
           [segments[<<r.stream, p>>] EXCEPT !.pieces = NoPieces, !.created = now]
    BY <1>2, <1>4, <1>9
  <2>2. segments[<<r.stream, p>>] \in SegmentRow
    BY <1>0, <1>9 DEF SegmentsOf, TypeInv, TypeOK
  <2> QED
    BY <2>1, <2>2 DEF SegmentRow
<1>10. NewAncestor(r, D, P) = LeaderLeft(D, P, r.stream)
  BY <1>1, <1>2, NewAncestorLeft
<1>11. /\ DOMAIN copies' = DOMAIN CopiesWithout(D, P)
                              \cup (IF onlyInline THEN {} ELSE {nextStream})
       /\ \A c \in DOMAIN CopiesWithout(D, P) : copies'[c] = CopiesWithout(D, P)[c]
       /\ ~onlyInline => copies'[nextStream] = LeaderLeft(D, P, r.stream)
  BY <1>4, <1>6, <1>7, <1>10
<1>12. CopyTables(nextStream, r, D, P, onlyInline)
  BY <1>1, <1>2, <1>3, <1>5, <1>7, <1>8, <1>9, <1>11 DEF CopyTables
<1> QED
  BY <1>12

\* A copy of a stream brings rows of the family of its source, at their positions.
LEMMA CopyLeaders ==
    ASSUME DataInv, NEW n, NEW r, NEW D, NEW P, NEW onlyInline, CopyTables(n, r, D, P, onlyInline)
    PROVE  /\ \A s : s # n => Leader(s)' = LeaderLeft(D, P, s)
           /\ ~onlyInline => Leader(n)' = LeaderLeft(D, P, r.stream)
           /\ onlyInline => Leader(n)' = n
           /\ n \notin DOMAIN CopiesWithout(D, P)
<1>1. n \notin DOMAIN CopiesWithout(D, P)
  BY CopiesLeft DEF CopyTables, DataInv, FamilyInv, TypeInv, TypeOK, Fresh
<1> QED
  BY <1>1 DEF CopyTables, Leader, LeaderLeft

LEMMA RowsCopied ==
    ASSUME DataInv, TypeInv', NEW n, NEW r, NEW D, NEW P, NEW onlyInline,
           CopyTables(n, r, D, P, onlyInline), nextStream' = nextStream + 1,
           deletedPieces' = deletedPieces, aborted' = aborted
    PROVE  RowsInv'
<1> USE DEF DataInv, FamilyInv
<1> DEFINE s == r.stream
<1>0. n \in Int /\ n = nextStream /\ P \in Promotions(D) /\ s \notin D /\ s < n /\ s \in DOMAIN objects
  BY DEF CopyTables, TypeInv, TypeOK
<1>1. PICK src : src = [k \in DOMAIN segments' |-> IF k[1] = n THEN <<s, k[2]>> ELSE k]
  OBVIOUS
<1>2. ASSUME NEW k \in DOMAIN segments'
      PROVE  /\ src[k] \in DOMAIN segments /\ src[k][2] = k[2]
             /\ segments'[k].root = segments[src[k]].root
             /\ segments'[k].inline = segments[src[k]].inline
             /\ segments'[k].redundancy = segments[src[k]].redundancy
             /\ segments'[k].inline => segments'[k].pieces = NoPieces
             /\ src[k][1] = k[1] \/ ~Pending(src[k][1])
             /\ src[k][1] \notin D /\ src[k][1] < n
             /\ k[1] # n => src[k][1] = k[1]
             /\ k[1] = n => src[k][1] = s
             /\ k[1] = n => k[2] \in SegmentsOf(s)
  <2>1. CASE k \in DOMAIN SegmentsWithout(D, P)
    <3>1. /\ k \in DOMAIN segments /\ k[1] \notin D
          /\ SegmentsWithout(D, P)[k].root = segments[k].root
          /\ SegmentsWithout(D, P)[k].inline = segments[k].inline
          /\ SegmentsWithout(D, P)[k].redundancy = segments[k].redundancy
          /\ SegmentsWithout(D, P)[k].inline => SegmentsWithout(D, P)[k].pieces = NoPieces
      BY <1>0, <2>1, RowLeft
    <3>2. k[1] < n /\ k[1] # n
      BY <1>0, <3>1 DEF TypeInv, Fresh
    <3>3. src[k] = k
      BY <1>1, <3>2
    <3>4. segments'[k] = SegmentsWithout(D, P)[k]
      BY <2>1 DEF CopyTables
    <3> QED
      BY <3>1, <3>2, <3>3, <3>4
  <2>2. CASE \E p \in SegmentsOf(s) : k = <<n, p>>
    <3>1. PICK p \in SegmentsOf(s) : k = <<n, p>>
      BY <2>2
    <3>2. src[k] = <<s, p>> /\ k[1] = n /\ k[2] = p
      BY <1>1, <3>1
    <3>3. /\ segments'[k].root = segments[<<s, p>>].root
          /\ segments'[k].inline = segments[<<s, p>>].inline
          /\ segments'[k].redundancy = segments[<<s, p>>].redundancy
          /\ segments'[k].pieces = NoPieces
      BY <3>1 DEF CopyTables
    <3>4. ~Pending(s)
      BY DEF CopyTables, Committed, Pending
    <3>5. <<s, p>> \in DOMAIN segments
      BY DEF SegmentsOf
    <3> QED
      BY <1>0, <3>2, <3>3, <3>4, <3>5
  <2> QED
    BY <2>1, <2>2 DEF CopyTables
<1>3. ASSUME NEW k \in DOMAIN segments', k[1] # n \/ ~onlyInline
      PROVE  Leader(k[1])' = LeaderLeft(D, P, src[k][1])
  BY <1>2, <1>3, CopyLeaders
<1>4. ASSUME NEW k \in DOMAIN segments', k[1] = n, onlyInline
      PROVE  Leader(k[1])' = n /\ segments'[k].root = NoRoot
  <2>1. segments[src[k]].inline
    <3>1. src[k] = <<s, k[2]>> /\ k[2] \in SegmentsOf(s)
      BY <1>1, <1>2, <1>4
    <3> QED
      BY <1>4, <3>1 DEF CopyTables
  <2>2. segments[src[k]].root = NoRoot
    BY <1>2, <2>1 DEF RowsInv, RowsFormed
  <2> QED
    BY <1>2, <1>4, <2>2, CopyLeaders
<1>5. ASSUME NEW k \in DOMAIN segments'
      PROVE  LeaderLeft(D, P, src[k][1]) # n
  BY <1>0, <1>2, LeaderLeftDrawn
<1>6. \A k, l \in DOMAIN segments' :
         LeaderLeft(D, P, src[k][1]) = LeaderLeft(D, P, src[l][1])
            <=> Leader(src[k][1]) = Leader(src[l][1])
  BY <1>0, <1>2, SameLeaderLeft DEF RowsInv
<1>7. \A k, l \in DOMAIN segments' :
         Leader(k[1])' = Leader(l[1])' => Leader(src[k][1]) = Leader(src[l][1])
  <2> SUFFICES ASSUME NEW k \in DOMAIN segments', NEW l \in DOMAIN segments',
                      Leader(k[1])' = Leader(l[1])'
               PROVE  Leader(src[k][1]) = Leader(src[l][1])
    OBVIOUS
  <2>1. CASE k[1] = n /\ l[1] = n
    BY <1>2, <2>1
  <2>2. CASE k[1] # n \/ l[1] # n
    BY <1>3, <1>4, <1>5, <1>6, <2>2
  <2> QED
    BY <2>1, <2>2
<1>8. \A k, l \in DOMAIN segments' :
         /\ segments'[k].root = segments'[l].root /\ segments'[k].root # NoRoot
         /\ Leader(src[k][1]) = Leader(src[l][1])
         => Leader(k[1])' = Leader(l[1])'
  BY <1>3, <1>4, <1>6
<1>9. NoneReopened
  <2>1. nextStream' \in Int /\ nextStream' >= nextStream
    BY <1>0
  <2>2. \A t \in Streams : t < nextStream /\ Pending(t)' => Pending(t)
    BY <1>0 DEF CopyTables, RowsKept, Pending
  <2> QED
    BY <2>1, <2>2 DEF NoneReopened
<1>10. Flat'
  <2> SUFFICES ASSUME NEW c \in DOMAIN copies'
               PROVE  copies'[c] \notin DOMAIN copies'
    BY DEF Flat
  <2>1. PICK x : x < n /\ x \notin DOMAIN CopiesWithout(D, P) /\ copies'[c] = x
    <3>1. CASE c \in DOMAIN CopiesWithout(D, P)
      <4>1. c \notin D /\ c < n
        BY <3>1, <1>0, CopiesLeft DEF TypeInv, Fresh
      <4>2. copies'[c] = LeaderLeft(D, P, c)
        BY <3>1 DEF CopyTables, LeaderLeft
      <4> QED
        BY <1>0, <4>1, <4>2, LeaderLeftDrawn
    <3>2. CASE c \notin DOMAIN CopiesWithout(D, P)
      <4>1. ~onlyInline /\ c = n
        BY <3>2 DEF CopyTables
      <4>2. copies'[c] = LeaderLeft(D, P, s)
        BY <4>1 DEF CopyTables
      <4> QED
        BY <1>0, <4>2, LeaderLeftDrawn
    <3> QED
      BY <3>1, <3>2
  <2>2. x # n
    BY <1>0, <2>1
  <2> QED
    BY <2>1, <2>2 DEF CopyTables
<1>11. CopiesOwnNothing'
  <2> SUFFICES ASSUME NEW k \in DOMAIN segments', k[1] \in DOMAIN copies'
               PROVE  segments'[k].pieces = NoPieces
    BY DEF CopiesOwnNothing
  <2>1. CASE k[1] # n
    <3>1. k \in DOMAIN SegmentsWithout(D, P) /\ k[1] \in DOMAIN CopiesWithout(D, P)
      BY <2>1 DEF CopyTables
    <3> QED
      BY <1>0, <3>1, CopiesLeftFlat DEF CopyTables
  <2>2. CASE k[1] = n
    <3>1. k \notin DOMAIN SegmentsWithout(D, P)
      BY <1>0, <2>2, RowKept DEF TypeInv, Fresh
    <3>2. PICK p \in SegmentsOf(s) : k = <<n, p>>
      BY <3>1 DEF CopyTables
    <3> QED
      BY <3>2 DEF CopyTables
  <2> QED
    BY <2>1, <2>2
<1>12. deletedPieces' \subseteq Roots \cup {NoRoot}
  BY DEF TypeInv, TypeOK
<1> HIDE DEF s
<1> QED
  BY <1>2, <1>7, <1>8, <1>9, <1>10, <1>11, <1>12, RowsDerived

LEMMA LiveCopied ==
    ASSUME DataInv, NEW n, NEW r, NEW D, NEW P, NEW onlyInline,
           CopyTables(n, r, D, P, onlyInline), now' = now
    PROVE  LiveInv'
<1> USE DEF DataInv, FamilyInv, LiveInv
<1> DEFINE s == r.stream
<1>0. /\ n \in Int /\ n = nextStream /\ P \in Promotions(D) /\ D \in SUBSET DOMAIN objects
      /\ s \notin D /\ s < n /\ s # n /\ s \in DOMAIN objects
  BY DEF CopyTables, TypeInv, TypeOK
<1>1. \A k \in DOMAIN segments : k[1] # n
  BY <1>0 DEF TypeInv, Fresh
<1>2. \A t : t \notin D /\ t # n => SegmentsOf(t)' = SegmentsOf(t)
  BY DEF CopyTables, SegmentsOf, SegmentsWithout
<1>3. SegmentsOf(n)' = SegmentsOf(s)
  <2>1. \A p : <<n, p>> \notin DOMAIN SegmentsWithout(D, P)
    BY <1>1, RowKept
  <2>2. \A p \in Positions : <<n, p>> \in DOMAIN segments' <=> p \in SegmentsOf(s)
    BY <2>1 DEF CopyTables
  <2>3. SegmentsOf(s) \subseteq Positions
    BY DEF SegmentsOf
  <2>4. SegmentsOf(n)' = {p \in Positions : <<n, p>> \in DOMAIN segments'}
    BY DEF SegmentsOf
  <2> HIDE DEF s
  <2> QED
    BY <2>2, <2>3, <2>4
<1>4. \A t : Live(t)' /\ t # n => t \notin D /\ Live(t)
  BY DEF CopyTables, RowsKept, Live, Committed
<1>5. Live(n)' => Live(s)
  BY DEF CopyTables, Live, Committed
<1>6. \A t : Pending(t)' => t # n /\ t \notin D /\ Pending(t)
  BY DEF CopyTables, RowsKept, Pending
<1>7. NoOrphanSegments'
  <2> SUFFICES ASSUME NEW k \in DOMAIN segments'
               PROVE  k[1] \in DOMAIN objects'
    BY DEF NoOrphanSegments
  <2>1. CASE k \in DOMAIN SegmentsWithout(D, P)
    BY <2>1, RowKept DEF CopyTables, NoOrphanSegments
  <2>2. CASE k \notin DOMAIN SegmentsWithout(D, P)
    BY <2>2 DEF CopyTables
  <2> QED
    BY <2>1, <2>2
<1>8. SegmentCountMatches'
  <2> SUFFICES ASSUME NEW t \in DOMAIN objects', Live(t)'
               PROVE  objects'[t].count = Cardinality(SegmentsOf(t)')
    BY DEF SegmentCountMatches
  <2>1. CASE t = n
    BY <1>3, <2>1 DEF CopyTables
  <2>2. CASE t # n
    <3>1. Live(t) /\ t \notin D /\ t \in DOMAIN objects /\ objects'[t] = objects[t]
      BY <1>4, <2>2 DEF CopyTables, RowsKept
    <3> QED
      BY <1>2, <2>2, <3>1 DEF SegmentCountMatches
  <2> QED
    BY <2>1, <2>2
<1>9. ASSUME NEW t, Live(t), t \notin D
      PROVE  \A a : a = LeaderLeft(D, P, t) => SegmentsOf(a)' = SegmentsOf(t)
  <2>1. t < n
    BY <1>0, <1>9 DEF TypeInv, Fresh, Live, Committed
  <2>2. PICK a : a = LeaderLeft(D, P, t)
    OBVIOUS
  <2>3. a \notin D /\ SegmentsOf(a) = SegmentsOf(t) /\ a < n
    BY <1>0, <1>9, <2>1, <2>2, KeysLeft, LeaderLeftDrawn
  <2> QED
    BY <1>0, <1>2, <2>2, <2>3
<1>10. SameKeys'
  <2> SUFFICES ASSUME NEW c \in DOMAIN copies', Live(c)'
               PROVE  SegmentsOf(c)' = SegmentsOf(copies[c])'
    BY DEF SameKeys
  <2>1. CASE c = n
    <3>1. ~onlyInline
      <4>1. n \notin DOMAIN CopiesWithout(D, P)
        BY CopyLeaders
      <4>2. DOMAIN copies' = DOMAIN CopiesWithout(D, P) \cup (IF onlyInline THEN {} ELSE {n})
        BY DEF CopyTables
      <4> QED
        BY <2>1, <4>1, <4>2
    <3>2. copies'[c] = LeaderLeft(D, P, s)
      BY <2>1, <3>1 DEF CopyTables
    <3>3. PICK a : a = copies'[c]
      OBVIOUS
    <3>4. SegmentsOf(a)' = SegmentsOf(s)
      BY <1>0, <1>5, <1>9, <2>1, <3>2, <3>3
    <3> QED
      BY <1>3, <2>1, <3>3, <3>4
  <2>2. CASE c # n
    <3>1. c \in DOMAIN CopiesWithout(D, P) /\ Live(c) /\ c \notin D
      BY <1>4, <2>2 DEF CopyTables
    <3>2. copies'[c] = LeaderLeft(D, P, c)
      BY <3>1 DEF CopyTables, LeaderLeft
    <3>3. PICK a : a = copies'[c]
      OBVIOUS
    <3>4. SegmentsOf(a)' = SegmentsOf(c)
      BY <1>9, <3>1, <3>2, <3>3
    <3> QED
      BY <1>2, <2>2, <3>1, <3>3, <3>4
  <2> QED
    BY <2>1, <2>2
<1>11. ASSUME NEW k \in DOMAIN SegmentsWithout(D, P), Kept(k[1]), ~segments[k].inline,
              NEW o, o = <<LeaderLeft(D, P, k[1]), k[2]>>
       PROVE  o \in DOMAIN segments' /\ segments'[o].pieces # NoPieces
  <2>1. /\ o \in DOMAIN SegmentsWithout(D, P)
        /\ SegmentsWithout(D, P)[o].pieces # NoPieces
    <3>1. Kept(k[1]) /\ ~segments[k].inline /\ o = <<LeaderLeft(D, P, k[1]), k[2]>>
      BY <1>11
    <3>2. D \in SUBSET DOMAIN objects /\ P \in Promotions(D)
      BY <1>0
    <3> QED
      BY <3>1, <3>2, OwnedLeft
  <2> QED
    BY <2>1 DEF CopyTables
<1>12. PiecesOwned'
  <2> SUFFICES ASSUME NEW k \in DOMAIN segments', Kept(k[1])', ~segments'[k].inline
               PROVE  /\ <<Leader(k[1])', k[2]>> \in DOMAIN segments'
                      /\ segments'[<<Leader(k[1])', k[2]>>].pieces # NoPieces
    BY DEF PiecesOwned
  <2>1. CASE k[1] # n
    <3>1. k \in DOMAIN SegmentsWithout(D, P)
      BY <2>1 DEF CopyTables
    <3>2. ~segments[k].inline
      BY <1>0, <3>1, RowLeft DEF CopyTables
    <3>3. Kept(k[1])
      BY <1>4, <1>6, <2>1 DEF Kept
    <3>4. Leader(k[1])' = LeaderLeft(D, P, k[1])
      BY <2>1, CopyLeaders
    <3> QED
      BY <1>11, <3>1, <3>2, <3>3, <3>4
  <2>2. CASE k[1] = n
    <3>1. PICK p \in SegmentsOf(s) : k = <<n, p>>
      BY <1>1, <2>2, RowKept DEF CopyTables
    <3>2. PICK m : m = <<s, p>>
      OBVIOUS
    <3>3. m \in DOMAIN SegmentsWithout(D, P) /\ m[1] = s /\ m[2] = k[2]
      BY <1>0, <3>1, <3>2 DEF SegmentsOf, SegmentsWithout
    <3>4. segments'[k].inline = segments[m].inline
      BY <3>1, <3>2 DEF CopyTables
    <3>5. ~onlyInline
      BY <3>1, <3>2, <3>4 DEF CopyTables
    <3>6. Kept(s)
      BY <1>5, <1>6, <2>2 DEF Kept
    <3>7. Leader(k[1])' = LeaderLeft(D, P, s)
      BY <2>2, <3>5, CopyLeaders
    <3> QED
      BY <1>11, <3>3, <3>4, <3>6, <3>7
  <2> QED
    BY <2>1, <2>2
<1> QED
  BY <1>7, <1>8, <1>10, <1>12

LEMMA DataCopied ==
    ASSUME DataInv, TypeInv', ~MoveCopyRace, NEW l \in Locations, FinishCopyObject(l)
    PROVE  RowsInv' /\ LiveInv'
<1>1. PICK n, r, D, P, onlyInline : CopyTables(n, r, D, P, onlyInline)
  BY CopyWrites
<1>2. /\ nextStream' = nextStream + 1 /\ now' = now
      /\ deletedPieces' = deletedPieces /\ aborted' = aborted
  BY DEF FinishCopyObject, requests
<1> QED
  BY <1>1, <1>2, RowsCopied, LiveCopied

-----------------------------------------------------------------------------
(* The invariants of the rows.  They hold as long as no client races a move   *)
(* with a copy, commits what the zombie chore has selected, or turns a        *)
(* segment into one of the other kind.                                        *)

Orderly == ~MoveCopyRace /\ ~CommitRace /\ ~MixedKinds

LEMMA DataNext == Orderly /\ DataInv /\ [Next]_vars => DataInv'
<1> SUFFICES ASSUME Orderly, DataInv, [Next]_vars
             PROVE  RowsInv' /\ LiveInv'
  BY FamilyNext DEF Orderly, DataInv
<1>1. TypeInv'
  BY FamilyNext DEF Orderly, DataInv, FamilyInv
<1>2. CASE Upload
  BY <1>1, <1>2, DataBegun, DataUploaded, DataCommitted, DataAborted DEF Upload, Orderly
<1>3. CASE CopyMove
  <2>1. ASSUME NEW op, NEW l, BeginMoveCopyObject(op, l)
        PROVE  RowsInv' /\ LiveInv'
    BY <1>1, <2>1, DataSame DEF BeginMoveCopyObject, tables
  <2> QED
    BY <1>1, <1>3, <2>1, DataCopied, DataMoved DEF CopyMove, Orderly
<1>4. CASE Tick \/ UNCHANGED vars
  BY <1>1, <1>4, DataSame DEF Tick, vars, tables, requests
<1> QED
  BY <1>1, <1>2, <1>3, <1>4, DataDeletes, DataRepair, DataChores DEF Next

LEMMA FamilyInit == Init => FamilyInv
<1>1. Init => DOMAIN copies = {}
  BY DEF Init
<1>2. Init => Families
  BY <1>1 DEF Families
<1>3. Init => Batches
  BY BoundsAssumption DEF Init, Batches, Idle
<1> QED
  BY <1>2, <1>3, TypeInit DEF FamilyInv

LEMMA DataInit == Init => DataInv
<1> SUFFICES ASSUME Init
             PROVE  RowsInv /\ LiveInv
  BY FamilyInit DEF DataInv
<1>1. /\ DOMAIN objects = {} /\ DOMAIN segments = {} /\ DOMAIN copies = {}
      /\ deletedPieces = {} /\ DOMAIN aborted = {}
  BY DEF Init
<1>2. RowsFormed /\ Flat /\ CopiesOwnNothing /\ FamilyAgrees /\ RootsApart /\ RootsDrawn
  BY <1>1 DEF RowsFormed, Flat, CopiesOwnNothing, FamilyAgrees, RootsApart, RootsDrawn
<1>3. NoOrphanSegments /\ SegmentCountMatches /\ SameKeys /\ PiecesOwned
  BY <1>1 DEF NoOrphanSegments, SegmentCountMatches, SameKeys, PiecesOwned
<1> QED
  BY <1>2, <1>3 DEF RowsInv, LiveInv

LEMMA DataAlways == Orderly => (Spec => []DataInv)
<1>1. ASSUME Orderly
      PROVE  DataInv /\ [Next]_vars => DataInv'
  BY <1>1, DataNext
<1>2. ASSUME Orderly
      PROVE  Spec => []DataInv
  BY <1>1, <1>2, DataInit, PTL DEF Spec
<1> QED
  BY <1>2

\* Rows of segments and objects come and go together (SegmentsComplete): no delete,
\* promotion, copy, move or chore leaves a segment without its object or takes one of
\* the segments of an object that is not due to expire.
THEOREM SegmentsCompleteCorrect == Orderly => (Spec => []SegmentsComplete)
<1>1. DataInv => SegmentsComplete
  BY DEF DataInv, LiveInv, SegmentsComplete
<1> QED
  BY <1>1, DataAlways, PTL

\* What a download reads of a live object: the pieces of the leader of its family, and
\* the root piece that the family shares.
LEMMA PiecesRead ==
    ASSUME DataInv, NEW s, Live(s), NEW p \in SegmentsOf(s), NEW k, k = <<s, p>>,
           ~segments[k].inline
    PROVE  /\ PiecesOf(s, p) = segments[<<Leader(s), p>>].pieces
           /\ PiecesOf(s, p) # NoPieces
           /\ RootOf(s, p) = segments[k].root
<1>1. k \in DOMAIN segments /\ k[1] = s /\ k[2] = p
  BY DEF SegmentsOf
<1>2. <<Leader(s), p>> \in DOMAIN segments /\ segments[<<Leader(s), p>>].pieces # NoPieces
  BY <1>1 DEF DataInv, LiveInv, PiecesOwned, Kept
<1>3. CASE s \in DOMAIN copies
  <2>1. segments[k].pieces = NoPieces
    BY <1>1, <1>3 DEF DataInv, RowsInv, CopiesOwnNothing
  <2>2. PICK l \in DOMAIN segments : l = <<copies[s], p>>
    BY <1>2, <1>3 DEF Leader
  <2>3. FromAncestor(s, p)
    BY <1>3, <2>1, <2>2 DEF FromAncestor, PiecesInAncestorSegment
  <2>4. RowRead(s, p) = segments[l] /\ Leader(s) = copies[s]
    BY <1>3, <2>2, <2>3 DEF RowRead, Leader
  <2>5. segments[l].root = segments[k].root
    <3>1. l[1] = copies[s] /\ l[2] = k[2] /\ Leader(k[1]) = copies[s]
      BY <1>1, <1>3, <2>2 DEF Leader
    <3>2. Leader(l[1]) = copies[s]
      BY <1>3, <3>1 DEF DataInv, RowsInv, Flat, Leader
    <3> QED
      BY <1>1, <2>2, <3>1, <3>2 DEF DataInv, RowsInv, FamilyAgrees
  <2> QED
    BY <1>2, <2>2, <2>4, <2>5 DEF PiecesOf, RootOf
<1>4. CASE s \notin DOMAIN copies
  <2>1. RowRead(s, p) = segments[k] /\ Leader(s) = s
    BY <1>4 DEF RowRead, FromAncestor, Leader
  <2> QED
    BY <1>2, <2>1 DEF PiecesOf, RootOf
<1> QED
  BY <1>3, <1>4

LEMMA InlineRead ==
    ASSUME DataInv, NEW s, NEW p \in SegmentsOf(s), NEW k, k = <<s, p>>, segments[k].inline
    PROVE  PiecesOf(s, p) = NoPieces /\ RootOf(s, p) = segments[k].root
<1>1. k \in DOMAIN segments
  BY DEF SegmentsOf
<1>2. RowRead(s, p) = segments[k]
  BY DEF RowRead, FromAncestor, PiecesInAncestorSegment
<1> QED
  BY <1>1, <1>2 DEF DataInv, RowsInv, RowsFormed, PiecesOf, RootOf

\* A download of a live object finds the data of every segment (Readable), its own or
\* its ancestor's, through every sequence of copies, overwrites and promotions.
THEOREM ReadableCorrect == Orderly => (Spec => []Readable)
<1>1. ASSUME DataInv
      PROVE  Readable
  <2> SUFFICES ASSUME NEW s \in DOMAIN objects, Live(s), NEW p \in SegmentsOf(s)
               PROVE  IF Inline(segments[<<s, p>>]) THEN segments[<<s, p>>].inline
                      ELSE PiecesOf(s, p) # NoPieces /\ RootOf(s, p) # NoRoot
    BY DEF Readable
  <2>1. PICK k : k = <<s, p>>
    OBVIOUS
  <2>2. k \in DOMAIN segments
    BY <2>1 DEF SegmentsOf
  <2>3. CASE segments[k].inline
    BY <1>1, <2>1, <2>2, <2>3 DEF DataInv, RowsInv, RowsFormed, Inline
  <2>4. CASE ~segments[k].inline
    <3>1. segments[k].root # NoRoot /\ segments[k].redundancy
      BY <1>1, <2>2, <2>4 DEF DataInv, RowsInv, RowsFormed
    <3> QED
      BY <1>1, <2>1, <2>4, <3>1, PiecesRead DEF Inline
  <2> QED
    BY <2>3, <2>4
<1> QED
  BY <1>1, DataAlways, PTL

-----------------------------------------------------------------------------
(* Deleting: nothing that is used is reported, and nothing refuses to go.     *)

\* The pieces of a deleted object that no copy takes over are used by no one else.
LEMMA ReportedUnused ==
    ASSUME DataInv, NEW D, NEW P \in Promotions(D), NEW l \in DOMAIN SegmentsWithout(D, P),
           segments[l].root # NoRoot
    PROVE  segments[l].root \notin PiecesToDelete(D)
<1> SUFFICES ASSUME segments[l].root \in PiecesToDelete(D)
             PROVE  FALSE
  OBVIOUS
<1>1. PICK k \in DOMAIN segments :
        /\ segments[k].root = segments[l].root
        /\ k[1] \in D /\ segments[k].pieces # NoPieces
        /\ \A c \in Orphans(D) : copies[c] # k[1]
  BY DEF PiecesToDelete
<1>2. l \in DOMAIN segments /\ l[1] \notin D
  BY RowKept
<1>3. Leader(k[1]) = Leader(l[1])
  BY <1>1, <1>2 DEF DataInv, RowsInv, RootsApart
<1>4. Leader(k[1]) = k[1]
  BY <1>1 DEF Leader, DataInv, RowsInv, CopiesOwnNothing
<1>5. l[1] \in Orphans(D) /\ copies[l[1]] = k[1]
  BY <1>1, <1>2, <1>3, <1>4 DEF Leader, Orphans
<1> QED
  BY <1>1, <1>5

\* Rows come from rows, and what is newly reported is none of theirs.
LEMMA UnreferencedKept ==
    ASSUME DeletedPiecesUnreferenced,
           \A k \in DOMAIN segments' : segments'[k].root # NoRoot =>
              /\ \E l \in DOMAIN segments : segments[l].root = segments'[k].root
              /\ segments'[k].root \in deletedPieces' => segments'[k].root \in deletedPieces
    PROVE  DeletedPiecesUnreferenced'
BY DEF DeletedPiecesUnreferenced

\* A delete that promotes copies reports nothing that is left.
LEMMA UnreferencedPromoted ==
    ASSUME DataInv, DeletedPiecesUnreferenced, NEW D, NEW P \in Promotions(D),
           segments' = SegmentsWithout(D, P),
           deletedPieces' = deletedPieces \cup PiecesToDelete(D)
    PROVE  DeletedPiecesUnreferenced'
<1>1. ASSUME NEW k \in DOMAIN SegmentsWithout(D, P)
      PROVE  k \in DOMAIN segments /\ SegmentsWithout(D, P)[k].root = segments[k].root
  BY <1>1, RowLeft DEF DataInv, FamilyInv
<1>2. ASSUME NEW k \in DOMAIN segments', segments'[k].root # NoRoot
      PROVE  /\ \E l \in DOMAIN segments : segments[l].root = segments'[k].root
             /\ segments'[k].root \in deletedPieces' => segments'[k].root \in deletedPieces
  <2>1. k \in DOMAIN segments /\ segments'[k].root = segments[k].root
    BY <1>1, <1>2
  <2>2. segments[k].root \notin PiecesToDelete(D)
    BY <1>2, <2>1, ReportedUnused
  <2> QED
    BY <2>1, <2>2
<1> QED
  BY <1>2, UnreferencedKept

\* Commits keep nothing of attempts that were aborted.
NothingAborted == DOMAIN aborted = {}

UnreferencedInv == DataInv /\ NothingAborted /\ DeletedPiecesUnreferenced

LEMMA NothingAbortedNext ==
    ASSUME ~TxRetries, NothingAborted, [Next]_vars
    PROVE  aborted' = aborted \/ NothingAborted'
<1>1. ASSUME NEW s, CommitObject(s)
      PROVE  NothingAborted'
  BY <1>1 DEF CommitObject, NothingAborted, Restrict
<1>2. CASE Upload
  BY <1>1, <1>2 DEF Upload, BeginObjectNextVersion, CommitSegment, CommitInlineSegment,
                    UpsertSegment, AbortCommitObject, requests
<1>3. CASE Delete
  BY <1>3 DEF Delete, DeletePendingObject, DeleteObjectLastCommitted,
              DeleteObjectExactVersion, DeleteBucketBatch, requests
<1>4. CASE CopyMove
  BY <1>4 DEF CopyMove, BeginMoveCopyObject, FinishCopyObject, FinishMoveObject, requests
<1>5. CASE Repair
  BY <1>5 DEF Repair, ReadForRepair, UpdateSegmentPieces
<1>6. CASE Chores
  BY <1>6 DEF Chores, SelectZombieObjects, SelectExpiredObjects,
              DeleteInactiveObjectsAndSegments, DeleteObjectsAndSegments, requests
<1>7. CASE Tick \/ UNCHANGED vars
  BY <1>7 DEF Tick, vars, requests
<1> QED
  BY <1>2, <1>3, <1>4, <1>5, <1>6, <1>7 DEF Next

LEMMA UnreferencedUpload ==
    ASSUME ~TxRetries, ~MixedKinds, UnreferencedInv, Upload
    PROVE  DeletedPiecesUnreferenced'
<1> USE DEF UnreferencedInv
<1>1. ASSUME segments' = segments, deletedPieces' = deletedPieces
      PROVE  DeletedPiecesUnreferenced'
  BY <1>1, UnreferencedKept
<1>2. ASSUME NEW s \in DOMAIN objects, NEW p \in Positions,
             CommitSegment(s, p) \/ CommitInlineSegment(s, p)
      PROVE  DeletedPiecesUnreferenced'
  <2>1. Pending(s) /\ deletedPieces' = deletedPieces
    BY <1>2, UploadedRow
  <2>2. PICK row :
          /\ segments' = [k \in DOMAIN segments \cup {<<s, p>>} |->
                             IF k = <<s, p>> THEN row ELSE segments[k]]
          /\ row.root = NoRoot \/ \E a \in Attempts : row.root = <<s, p, a>>
    BY <1>2, UploadedRow
  <2>3. row.root # NoRoot => row.root \notin deletedPieces
    <3>1. \A root \in deletedPieces : root # NoRoot => ~Pending(root[1])
      BY DEF DataInv, RowsInv, RootsDrawn, DrawnRoot
    <3> QED
      BY <2>1, <2>2, <3>1
  <2> QED
    BY <2>1, <2>2, <2>3 DEF DeletedPiecesUnreferenced
<1>3. ASSUME NEW s, CommitObject(s)
      PROVE  DeletedPiecesUnreferenced'
  <2> DEFINE D == CommittedAt(objects[s].loc)
  <2>1. PICK P \in Promotions(D) :
          /\ segments' = SegmentsWithout(D, P)
          /\ deletedPieces' = deletedPieces \cup PiecesToDelete(D)
                                \cup (IF s \in DOMAIN aborted THEN aborted[s] ELSE {})
    BY <1>3 DEF CommitObject
  <2>2. deletedPieces' = deletedPieces \cup PiecesToDelete(D)
    BY <2>1 DEF NothingAborted
  <2> HIDE DEF D
  <2> QED
    BY <2>1, <2>2, UnreferencedPromoted
<1> QED
  BY <1>1, <1>2, <1>3 DEF Upload, BeginObjectNextVersion, AbortCommitObject

LEMMA UnreferencedDelete ==
    ASSUME UnreferencedInv, Delete
    PROVE  DeletedPiecesUnreferenced'
<1> USE DEF UnreferencedInv
<1>1. ASSUME NEW D, DeleteObjects(D)
      PROVE  DeletedPiecesUnreferenced'
  BY <1>1, UnreferencedPromoted DEF DeleteObjects
<1>2. ASSUME NEW s, DeletePendingObject(s)
      PROVE  DeletedPiecesUnreferenced'
  <2>1. /\ Pending(s)
        /\ segments' = Restrict(segments, {k \in DOMAIN segments : k[1] # s})
        /\ deletedPieces' = deletedPieces \cup
              {segments[k].root : k \in {k \in DOMAIN segments :
                  k[1] = s /\ segments[k].pieces # NoPieces}}
    BY <1>2 DEF DeletePendingObject
  <2>2. ASSUME NEW l \in DOMAIN segments', segments'[l].root # NoRoot
        PROVE  /\ l \in DOMAIN segments /\ segments'[l].root = segments[l].root
               /\ segments'[l].root \in deletedPieces' => segments'[l].root \in deletedPieces
    <3>1. l \in DOMAIN segments /\ l[1] # s /\ segments'[l] = segments[l]
      BY <2>1 DEF Restrict
    <3>2. ASSUME NEW k \in DOMAIN segments, k[1] = s, segments[k].root = segments[l].root
          PROVE  FALSE
      <4>1. Leader(l[1]) = Leader(s)
        BY <2>2, <3>1, <3>2 DEF DataInv, RowsInv, RootsApart
      <4> QED
        BY <2>1, <3>1, <4>1, PendingAlone DEF DataInv, LiveInv
    <3> QED
      BY <2>1, <3>1, <3>2
  <2> QED
    BY <2>2, UnreferencedKept
<1> QED
  BY <1>1, <1>2 DEF Delete, DeleteObjectLastCommitted, DeleteObjectExactVersion,
                    DeleteBucketBatch

LEMMA UnreferencedCopyMove ==
    ASSUME ~MoveCopyRace, UnreferencedInv, CopyMove
    PROVE  DeletedPiecesUnreferenced'
<1> USE DEF UnreferencedInv
<1>1. ASSUME segments' = segments, deletedPieces' = deletedPieces
      PROVE  DeletedPiecesUnreferenced'
  BY <1>1, UnreferencedKept
<1>2. ASSUME NEW l \in Locations, FinishCopyObject(l)
      PROVE  DeletedPiecesUnreferenced'
  <2>1. PICK n, r, D, P, onlyInline : CopyTables(n, r, D, P, onlyInline)
    BY <1>2, CopyWrites
  <2>2. deletedPieces' = deletedPieces
    BY <1>2 DEF FinishCopyObject
  <2>3. ASSUME NEW k \in DOMAIN segments'
        PROVE  \E m \in DOMAIN segments : segments[m].root = segments'[k].root
    <3>1. CASE k \in DOMAIN SegmentsWithout(D, P)
      BY <2>1, <3>1, RowLeft DEF CopyTables, DataInv, FamilyInv
    <3>2. CASE k \notin DOMAIN SegmentsWithout(D, P)
      <4>1. PICK p \in SegmentsOf(r.stream) : k = <<n, p>>
        BY <2>1, <3>2 DEF CopyTables
      <4>2. segments'[k].root = segments[<<r.stream, p>>].root
        BY <2>1, <4>1 DEF CopyTables
      <4> QED
        BY <4>1, <4>2 DEF SegmentsOf
    <3> QED
      BY <3>1, <3>2
  <2> QED
    BY <2>2, <2>3, UnreferencedKept
<1> QED
  BY <1>1, <1>2 DEF CopyMove, BeginMoveCopyObject, FinishMoveObject, tables

LEMMA UnreferencedNext ==
    Orderly /\ ~TxRetries /\ UnreferencedInv /\ [Next]_vars => UnreferencedInv'
<1> SUFFICES ASSUME Orderly, ~TxRetries, UnreferencedInv, [Next]_vars
             PROVE  UnreferencedInv'
  OBVIOUS
<1> USE DEF UnreferencedInv
<1>1. DataInv'
  BY DataNext
<1>2. NothingAborted'
  BY NothingAbortedNext DEF NothingAborted
<1>3. CASE Repair
  <2>1. \A k \in DOMAIN segments' :
          k \in DOMAIN segments /\ segments'[k].root = segments[k].root
    <3>1. ASSUME NEW r \in repair, UpdateSegmentPieces(r)
          PROVE  \A k \in DOMAIN segments' :
                   k \in DOMAIN segments /\ segments'[k].root = segments[k].root
      BY <3>1, SegmentKey DEF UpdateSegmentPieces, SegmentRow, DataInv, FamilyInv, TypeInv
    <3> QED
      BY <1>3, <3>1 DEF Repair, ReadForRepair, tables
  <2>2. deletedPieces' = deletedPieces
    BY <1>3 DEF Repair, ReadForRepair, UpdateSegmentPieces
  <2> QED
    BY <1>1, <1>2, <2>1, <2>2, UnreferencedKept
<1>4. CASE Chores
  <2>1. \A k \in DOMAIN segments' : k \in DOMAIN segments /\ segments'[k] = segments[k]
    BY <1>4 DEF Chores, SelectZombieObjects, SelectExpiredObjects, tables, Restrict,
                DeleteInactiveObjectsAndSegments, DeleteObjectsAndSegments
  <2>2. deletedPieces' = deletedPieces
    BY <1>4 DEF Chores, SelectZombieObjects, SelectExpiredObjects,
                DeleteInactiveObjectsAndSegments, DeleteObjectsAndSegments
  <2> QED
    BY <1>1, <1>2, <2>1, <2>2, UnreferencedKept
<1>5. CASE Tick \/ UNCHANGED vars
  BY <1>1, <1>2, <1>5, UnreferencedKept DEF Tick, vars, tables
<1> QED
  BY <1>1, <1>2, <1>3, <1>4, <1>5, UnreferencedUpload, UnreferencedDelete,
     UnreferencedCopyMove DEF Next, Orderly

\* Storage nodes are never told to delete pieces that a segment, original or copy,
\* still refers to (DeletedPiecesUnreferenced), if the database aborts no transaction
\* of CommitObject: an aborted attempt leaves its segments in the list to report.
THEOREM UnreferencedCorrect ==
    Orderly /\ ~TxRetries => (Spec => []DeletedPiecesUnreferenced)
<1>1. Init => UnreferencedInv
  <2>1. Init => DOMAIN segments = {} /\ DOMAIN aborted = {}
    BY DEF Init
  <2> QED
    BY <2>1, DataInit DEF UnreferencedInv, NothingAborted, DeletedPiecesUnreferenced
<1>2. ASSUME Orderly, ~TxRetries
      PROVE  UnreferencedInv /\ [Next]_vars => UnreferencedInv'
  BY <1>2, UnreferencedNext
<1>3. UnreferencedInv => DeletedPiecesUnreferenced
  BY DEF UnreferencedInv
<1>4. ASSUME Orderly, ~TxRetries
      PROVE  Spec => []DeletedPiecesUnreferenced
  BY <1>1, <1>2, <1>3, <1>4, PTL DEF Spec
<1> QED
  BY <1>4

\* No object that is not due to expire is impossible to delete: its copies are there
\* and have its positions, so whichever is promoted can take over every segment.
LEMMA LiveDeletable ==
    ASSUME DataInv, NEW s, Kept(s), NEW P \in Promotions({s})
    PROVE  AllSegmentsPromoted(P)
<1> USE DEF DataInv, FamilyInv
<1> SUFFICES ASSUME NEW c \in P, NEW p \in SegmentsOf(copies[c])
             PROVE  <<c, p>> \in DOMAIN segments
  BY DEF AllSegmentsPromoted
<1>1. c \in DOMAIN copies /\ copies[c] = s
  BY PromotedAreOrphans
<1>2. s \in DOMAIN objects /\ objects[s].expires \in Int /\ now \in Int
  BY BoundsAssumption DEF Kept, Live, Committed, Pending, TypeInv, TypeOK, ObjectRow, Never
<1>3. Live(s)
  <2>1. Committed(s)
    BY <1>1, <1>2 DEF Families
  <2> QED
    BY <2>1 DEF Kept, Pending, Committed
<1>4. Live(c)
  BY <1>1, <1>2, <1>3 DEF Families, Live
<1>5. p \in SegmentsOf(c)
  BY <1>1, <1>4 DEF LiveInv, SameKeys
<1> QED
  BY <1>5 DEF SegmentsOf

\* Without expirations every object row is kept.
NothingExpires == \A s \in DOMAIN objects : objects[s].expires = Never

LEMMA NothingExpiresNext ==
    ASSUME Expirations = {}, TypeInv, NothingExpires, [Next]_vars
    PROVE  NothingExpires'
<1>1. ASSUME NEW x, objects'[x].expires = Never, RowsKept(DOMAIN objects' \ {x})
      PROVE  NothingExpires'
  BY <1>1 DEF NothingExpires, RowsKept
<1>2. CASE RowsKept(DOMAIN objects')
  BY <1>2 DEF NothingExpires, RowsKept
<1>3. ASSUME NEW l \in Locations, BeginObjectNextVersion(l)
      PROVE  NothingExpires'
  <2>1. objects'[nextStream].expires = Never
    BY <1>3 DEF BeginObjectNextVersion
  <2> QED
    BY <1>1, <1>3, <2>1, BegunRow
<1>4. ASSUME NEW s \in DOMAIN objects, CommitObject(s)
      PROVE  NothingExpires'
  BY <1>1, <1>4, CommittedRow DEF NothingExpires
<1>5. ASSUME NEW l \in Locations, FinishCopyObject(l)
      PROVE  NothingExpires'
  BY <1>1, <1>5, CopiedRow DEF NothingExpires
<1>6. ASSUME NEW l \in Locations, FinishMoveObject(l)
      PROVE  NothingExpires'
  BY <1>1, <1>6, MovedRow DEF NothingExpires
<1> QED
  BY <1>2, <1>3, <1>4, <1>5, <1>6, RowsStep

\* Promoting a copy never fails, so no delete and no overwrite is ever refused
\* (EveryObjectDeletable), as long as nothing expires: the expiration chore takes
\* objects and their segments but leaves their rows in segment_copies.
THEOREM DeletableCorrect ==
    Orderly /\ Expirations = {} => (Spec => []EveryObjectDeletable)
<1>1. Init => NothingExpires
  BY DEF Init, NothingExpires
<1>2. ASSUME DataInv, NothingExpires
      PROVE  EveryObjectDeletable
  <2>1. ASSUME NEW s \in DOMAIN objects
        PROVE  Kept(s)
    <3>1. objects[s] \in ObjectRow /\ now \in 0..MaxTime
      BY <1>2 DEF DataInv, FamilyInv, TypeInv, TypeOK
    <3>2. Pending(s) \/ Committed(s)
      BY <3>1 DEF ObjectRow, Pending, Committed
    <3>3. objects[s].expires >= now
      BY <1>2, <3>1, BoundsAssumption DEF NothingExpires, Never
    <3> QED
      BY <3>2, <3>3 DEF Kept, Live
  <2> QED
    BY <1>2, <2>1, LiveDeletable DEF EveryObjectDeletable
<1>3. DataInv => TypeInv
  BY DEF DataInv, FamilyInv
<1>4. ASSUME Expirations = {}
      PROVE  TypeInv /\ NothingExpires /\ [Next]_vars => NothingExpires'
  BY <1>4, NothingExpiresNext
<1>5. ASSUME Orderly, Expirations = {}
      PROVE  Spec => []EveryObjectDeletable
  BY <1>1, <1>2, <1>3, <1>4, <1>5, DataAlways, PTL DEF Spec
<1> QED
  BY <1>5

-----------------------------------------------------------------------------
(* Downloads: the data of a live object never changes but by a repair.        *)

\* At most one repair is modelled to be in progress.
OneRepair == \A r, q \in repair : r = q

LEMMA OneRepairNext ==
    ASSUME OneRepair, [Next]_vars
    PROVE  OneRepair'
<1>1. CASE UNCHANGED repair
  BY <1>1 DEF OneRepair
<1>2. CASE Upload
  BY <1>1, <1>2 DEF Upload, BeginObjectNextVersion, CommitSegment, CommitInlineSegment,
                    UpsertSegment, CommitObject, AbortCommitObject, requests
<1>3. CASE Delete
  BY <1>1, <1>3 DEF Delete, DeletePendingObject, DeleteObjectLastCommitted,
                    DeleteObjectExactVersion, DeleteBucketBatch, requests
<1>4. CASE CopyMove
  BY <1>1, <1>4 DEF CopyMove, BeginMoveCopyObject, FinishCopyObject, FinishMoveObject,
                    requests
<1>5. CASE Repair
  <2>1. ASSUME NEW s, NEW p, ReadForRepair(s, p)
        PROVE  OneRepair'
    BY <2>1 DEF ReadForRepair, OneRepair
  <2>2. ASSUME NEW r \in repair, UpdateSegmentPieces(r)
        PROVE  OneRepair'
    BY <2>2 DEF UpdateSegmentPieces, OneRepair
  <2> QED
    BY <1>5, <2>1, <2>2 DEF Repair
<1>6. CASE Chores
  BY <1>1, <1>6 DEF Chores, SelectZombieObjects, SelectExpiredObjects, requests,
                    DeleteInactiveObjectsAndSegments, DeleteObjectsAndSegments
<1>7. CASE Tick \/ UNCHANGED vars
  BY <1>1, <1>7 DEF Tick, vars, requests
<1> QED
  BY <1>2, <1>3, <1>4, <1>5, <1>6, <1>7 DEF Next

\* What a step leaves alone in the live stream s: its positions, roots and kinds, ...
SameRows(s) ==
    /\ SegmentsOf(s)' = SegmentsOf(s)
    /\ \A p \in SegmentsOf(s) :
          /\ segments'[<<s, p>>].root = segments[<<s, p>>].root
          /\ segments'[<<s, p>>].inline = segments[<<s, p>>].inline

\* ... and the pieces it shares with its family.
SamePieces(s) ==
    \A p \in SegmentsOf(s) :
        ~segments[<<s, p>>].inline =>
            \A t : t = Leader(s)' =>
               segments'[<<t, p>>].pieces = segments[<<Leader(s), p>>].pieces

\* What a download gets: nothing but the inline data, or the pieces of the leader,
\* and a root piece that its own row has as well.
ReadsLeader ==
    \A s : \A p \in SegmentsOf(s) : Live(s) =>
        /\ RootOf(s, p) = segments[<<s, p>>].root
        /\ PiecesOf(s, p) = IF segments[<<s, p>>].inline THEN NoPieces
                            ELSE segments[<<Leader(s), p>>].pieces

LEMMA DataReads == DataInv => ReadsLeader
BY PiecesRead, InlineRead DEF ReadsLeader

\* So a download gets what it got before.
LEMMA SameContent ==
    ASSUME DataInv, DataInv', NEW s, Live(s), Live(s)', SameRows(s), SamePieces(s),
           NEW p \in SegmentsOf(s)
    PROVE  PiecesOf(s, p)' = PiecesOf(s, p)
<1>1. ReadsLeader /\ ReadsLeader'
  BY DataReads, PTL
<1>2. PICK t : t = Leader(s)'
  OBVIOUS
<1>3. p \in SegmentsOf(s)' /\ segments'[<<s, p>>].inline = segments[<<s, p>>].inline
  BY DEF SameRows
<1>4. PiecesOf(s, p)' = IF segments'[<<s, p>>].inline THEN NoPieces
                        ELSE segments'[<<t, p>>].pieces
  BY <1>1, <1>2, <1>3 DEF ReadsLeader
<1>5. PiecesOf(s, p) = IF segments[<<s, p>>].inline THEN NoPieces
                       ELSE segments[<<Leader(s), p>>].pieces
  BY <1>1 DEF ReadsLeader
<1>6. ~segments[<<s, p>>].inline =>
         segments'[<<t, p>>].pieces = segments[<<Leader(s), p>>].pieces
  BY <1>2 DEF SamePieces
<1> QED
  BY <1>3, <1>4, <1>5, <1>6

\* What steps other than repairs do to a live object that stays live: nothing.
KeepsContent == \A s : Live(s) /\ Live(s)' => SameRows(s) /\ SamePieces(s)

\* Steps that write no row of a live object.
LEMMA ContentUntouched ==
    ASSUME DataInv, copies' = copies,
           \A k \in DOMAIN segments : Live(k[1]) =>
              k \in DOMAIN segments' /\ segments'[k] = segments[k],
           \A k \in DOMAIN segments' \ DOMAIN segments : ~Live(k[1])
    PROVE  KeepsContent
<1> SUFFICES ASSUME NEW s, Live(s)
             PROVE  SameRows(s) /\ SamePieces(s)
  BY DEF KeepsContent
<1>1. ASSUME NEW k, k[1] = s
      PROVE  /\ k \in DOMAIN segments <=> k \in DOMAIN segments'
             /\ k \in DOMAIN segments => segments'[k] = segments[k]
  BY <1>1
<1>2. SegmentsOf(s)' = SegmentsOf(s)
  <2>1. \A p : <<s, p>> \in DOMAIN segments <=> <<s, p>> \in DOMAIN segments'
    BY <1>1
  <2> QED
    BY <2>1 DEF SegmentsOf
<1>3. SameRows(s)
  <2>1. ASSUME NEW p \in SegmentsOf(s)
        PROVE  segments'[<<s, p>>] = segments[<<s, p>>]
    BY <1>1, <2>1 DEF SegmentsOf
  <2> QED
    BY <1>2, <2>1 DEF SameRows
<1>4. SamePieces(s)
  <2> SUFFICES ASSUME NEW p \in SegmentsOf(s), ~segments[<<s, p>>].inline,
                      NEW t, t = Leader(s)'
               PROVE  segments'[<<t, p>>].pieces = segments[<<Leader(s), p>>].pieces
    BY DEF SamePieces
  <2>1. t = Leader(s)
    BY DEF Leader
  <2>2. PICK k : k = <<s, p>>
    OBVIOUS
  <2>3. k \in DOMAIN segments /\ k[1] = s /\ k[2] = p /\ Kept(k[1])
    BY <2>2 DEF SegmentsOf, Kept
  <2>4. PICK o : o = <<Leader(s), p>>
    OBVIOUS
  <2>5. o \in DOMAIN segments
    BY <2>2, <2>3, <2>4 DEF DataInv, LiveInv, PiecesOwned
  <2>6. Live(o[1])
    BY <2>4, LeaderLive DEF DataInv
  <2>7. segments'[o] = segments[o]
    BY <2>5, <2>6
  <2> QED
    BY <2>1, <2>4, <2>7
<1> QED
  BY <1>3, <1>4

\* Steps that delete the objects D and promote copies.
LEMMA ContentPromoted ==
    ASSUME DataInv, NEW D \in SUBSET DOMAIN objects, NEW P \in Promotions(D),
           NEW s, s \notin D, Live(s),
           \A k \in DOMAIN SegmentsWithout(D, P) :
              k \in DOMAIN segments' /\ segments'[k] = SegmentsWithout(D, P)[k],
           \A k \in DOMAIN segments' : k[1] = s => k \in DOMAIN SegmentsWithout(D, P),
           NEW t, t = Leader(s)', t = LeaderLeft(D, P, s)
    PROVE  SameRows(s) /\ SamePieces(s)
<1>1. ASSUME NEW k, k[1] = s
      PROVE  k \in DOMAIN segments <=> k \in DOMAIN segments'
  BY <1>1 DEF SegmentsWithout
<1>2. SegmentsOf(s)' = SegmentsOf(s)
  <2>1. \A p : <<s, p>> \in DOMAIN segments <=> <<s, p>> \in DOMAIN segments'
    BY <1>1
  <2> QED
    BY <2>1 DEF SegmentsOf
<1>3. ASSUME NEW p \in SegmentsOf(s)
      PROVE  <<s, p>> \in DOMAIN SegmentsWithout(D, P)
  BY <1>3 DEF SegmentsOf, SegmentsWithout
<1>4. SameRows(s)
  <2>1. ASSUME NEW p \in SegmentsOf(s)
        PROVE  /\ segments'[<<s, p>>].root = segments[<<s, p>>].root
               /\ segments'[<<s, p>>].inline = segments[<<s, p>>].inline
    <3>1. PICK k : k = <<s, p>>
      OBVIOUS
    <3>2. k \in DOMAIN SegmentsWithout(D, P) /\ segments'[k] = SegmentsWithout(D, P)[k]
      BY <1>3, <2>1, <3>1
    <3>3. /\ SegmentsWithout(D, P)[k].root = segments[k].root
          /\ SegmentsWithout(D, P)[k].inline = segments[k].inline
      BY <3>2, RowLeft DEF DataInv, FamilyInv
    <3> QED
      BY <3>1, <3>2, <3>3
  <2> QED
    BY <1>2, <2>1 DEF SameRows
<1>5. SamePieces(s)
  <2> SUFFICES ASSUME NEW p \in SegmentsOf(s), ~segments[<<s, p>>].inline
               PROVE  segments'[<<t, p>>].pieces = segments[<<Leader(s), p>>].pieces
    BY DEF SamePieces
  <2>1. PICK k : k = <<s, p>>
    OBVIOUS
  <2>2. /\ k \in DOMAIN SegmentsWithout(D, P) /\ ~segments[k].inline
        /\ k[1] = s /\ k[2] = p /\ Kept(k[1])
    BY <1>3, <2>1 DEF Kept
  <2>3. PICK o : o = <<t, p>>
    OBVIOUS
  <2>4. /\ o \in DOMAIN SegmentsWithout(D, P)
        /\ SegmentsWithout(D, P)[o].pieces = segments[<<Leader(k[1]), k[2]>>].pieces
    <3>1. o = <<LeaderLeft(D, P, k[1]), k[2]>>
      BY <2>2, <2>3
    <3> QED
      BY <2>2, <3>1, OwnedLeft
  <2>5. segments'[o] = SegmentsWithout(D, P)[o]
    BY <2>4
  <2> QED
    BY <2>2, <2>3, <2>4, <2>5
<1> QED
  BY <1>4, <1>5

LEMMA ContentDeleted ==
    ASSUME DataInv, NEW D \in SUBSET DOMAIN objects, NEW P \in Promotions(D),
           segments' = SegmentsWithout(D, P), copies' = CopiesWithout(D, P),
           DOMAIN objects' = DOMAIN objects \ D
    PROVE  KeepsContent
<1> SUFFICES ASSUME NEW s, Live(s), Live(s)'
             PROVE  SameRows(s) /\ SamePieces(s)
  BY DEF KeepsContent
<1>1. s \notin D
  BY DEF Live, Committed
<1>2. PICK t : t = Leader(s)'
  OBVIOUS
<1>3. t = LeaderLeft(D, P, s)
  BY <1>2 DEF Leader, LeaderLeft
<1>4. /\ \A k \in DOMAIN SegmentsWithout(D, P) :
            k \in DOMAIN segments' /\ segments'[k] = SegmentsWithout(D, P)[k]
      /\ \A k \in DOMAIN segments' : k[1] = s => k \in DOMAIN SegmentsWithout(D, P)
  OBVIOUS
<1> QED
  BY ONLY DataInv, D \in SUBSET DOMAIN objects, P \in Promotions(D), Live(s),
          <1>1, <1>2, <1>3, <1>4, ContentPromoted

LEMMA ContentUpload ==
    ASSUME DataInv, ~MixedKinds, Upload
    PROVE  KeepsContent
<1>1. ASSUME segments' = segments, copies' = copies
      PROVE  KeepsContent
  BY <1>1, ContentUntouched
<1>2. ASSUME NEW s \in DOMAIN objects, NEW p \in Positions,
             CommitSegment(s, p) \/ CommitInlineSegment(s, p)
      PROVE  KeepsContent
  <2>1. Pending(s) /\ copies' = copies
    BY <1>2, UploadedRow
  <2>2. PICK row :
          /\ segments' = [k \in DOMAIN segments \cup {<<s, p>>} |->
                             IF k = <<s, p>> THEN row ELSE segments[k]]
          /\ row.root = NoRoot \/ \E a \in Attempts : row.root = <<s, p, a>>
    BY <1>2, UploadedRow, ZenonT(30)
  <2>3. ~Live(s)
    BY <2>1 DEF Pending, Live, Committed
  <2>4. \A k \in DOMAIN segments : Live(k[1]) =>
           k \in DOMAIN segments' /\ segments'[k] = segments[k]
    BY <2>2, <2>3
  <2>5. \A k \in DOMAIN segments' \ DOMAIN segments : ~Live(k[1])
    BY <2>2, <2>3
  <2> QED
    BY <2>1, <2>4, <2>5, ContentUntouched
<1>3. ASSUME NEW s \in DOMAIN objects, CommitObject(s)
      PROVE  KeepsContent
  <2> DEFINE D == CommittedAt(objects[s].loc)
  <2>1. PICK P \in Promotions(D) :
          segments' = SegmentsWithout(D, P) /\ copies' = CopiesWithout(D, P)
    BY <1>3 DEF CommitObject
  <2>2. DOMAIN objects' = DOMAIN objects \ D
    BY <1>3, CommittedRow DEF DataInv, FamilyInv
  <2>3. D \in SUBSET DOMAIN objects
    BY DEF CommittedAt, At
  <2> HIDE DEF D
  <2> QED
    BY <2>1, <2>2, <2>3, ContentDeleted
<1> QED
  BY <1>1, <1>2, <1>3 DEF Upload, BeginObjectNextVersion, AbortCommitObject, tables

LEMMA ContentDelete ==
    ASSUME DataInv, Delete
    PROVE  KeepsContent
<1>1. ASSUME NEW D \in SUBSET DOMAIN objects, DeleteObjects(D)
      PROVE  KeepsContent
  BY <1>1, ContentDeleted DEF DeleteObjects, ObjectsWithout, Restrict
<1>2. ASSUME NEW s, DeletePendingObject(s)
      PROVE  KeepsContent
  <2>1. /\ Pending(s) /\ copies' = copies
        /\ segments' = Restrict(segments, {k \in DOMAIN segments : k[1] # s})
    BY <1>2 DEF DeletePendingObject
  <2>2. ~Live(s)
    BY <2>1 DEF Pending, Live, Committed
  <2> QED
    BY <2>1, <2>2, ContentUntouched DEF Restrict
<1>3. ASSUME NEW l
      PROVE  /\ {s \in CommittedAt(l) : Unexpired(s)} \in SUBSET DOMAIN objects
             /\ \A s \in At(l) : {s} \in SUBSET DOMAIN objects
  BY DEF CommittedAt, At
<1>4. ASSUME NEW l, DeleteObjectLastCommitted(l) \/ DeleteObjectExactVersion(l)
      PROVE  KeepsContent
  BY <1>1, <1>3, <1>4 DEF DeleteObjectLastCommitted, DeleteObjectExactVersion
<1>5. ASSUME NEW b, DeleteBucketBatch(b)
      PROVE  KeepsContent
  <2>1. \E D \in SUBSET DOMAIN objects : DeleteObjects(D)
    BY <1>5 DEF DeleteBucketBatch
  <2> QED
    BY <1>1, <2>1
<1> QED
  BY <1>2, <1>4, <1>5 DEF Delete

LEMMA ContentCopyMove ==
    ASSUME DataInv, ~MoveCopyRace, CopyMove
    PROVE  KeepsContent
<1>1. ASSUME segments' = segments, copies' = copies
      PROVE  KeepsContent
  BY <1>1, ContentUntouched
<1>2. ASSUME NEW l \in Locations, FinishCopyObject(l)
      PROVE  KeepsContent
  <2>1. PICK n, r, D, P, onlyInline : CopyTables(n, r, D, P, onlyInline)
    BY <1>2, CopyWrites
  <2> SUFFICES ASSUME NEW s, Live(s), Live(s)'
               PROVE  SameRows(s) /\ SamePieces(s)
    BY DEF KeepsContent
  <2>2. P \in Promotions(D) /\ D \in SUBSET DOMAIN objects /\ n = nextStream
    BY <2>1 DEF CopyTables
  <2>3. s # n
    BY <2>2 DEF Live, Committed, DataInv, FamilyInv, TypeInv, TypeOK, Fresh
  <2>4. s \notin D
    BY <2>1, <2>3 DEF CopyTables, Live, Committed
  <2>5. /\ \A k \in DOMAIN SegmentsWithout(D, P) :
              k \in DOMAIN segments' /\ segments'[k] = SegmentsWithout(D, P)[k]
        /\ \A k \in DOMAIN segments' : k[1] = s => k \in DOMAIN SegmentsWithout(D, P)
    BY <2>1, <2>3 DEF CopyTables
  <2>6. PICK t : t = Leader(s)'
    OBVIOUS
  <2>7. t = LeaderLeft(D, P, s)
    BY <2>1, <2>2, <2>3, <2>6, CopyLeaders
  <2> QED
    BY <2>2, <2>4, <2>5, <2>6, <2>7, ContentPromoted
<1> QED
  BY <1>1, <1>2 DEF CopyMove, BeginMoveCopyObject, FinishMoveObject, tables

LEMMA ContentRepair ==
    ASSUME DataInv, OneRepair, Repair
    PROVE  KeepsContent \/ (RepairStep /\ \A s : SameRows(s))
<1>1. ASSUME NEW s, NEW p, ReadForRepair(s, p)
      PROVE  KeepsContent
  BY <1>1, ContentUntouched DEF ReadForRepair, tables
<1>2. ASSUME NEW r \in repair, UpdateSegmentPieces(r)
      PROVE  RepairStep /\ \A s : SameRows(s)
  <2>1. RepairStep
    BY <1>2 DEF UpdateSegmentPieces, OneRepair, RepairStep
  <2>2. \A k \in DOMAIN segments : /\ k \in DOMAIN segments'
                                   /\ segments'[k].root = segments[k].root
                                   /\ segments'[k].inline = segments[k].inline
    BY <1>2, SegmentKey DEF UpdateSegmentPieces, SegmentRow, DataInv, FamilyInv, TypeInv
  <2>3. DOMAIN segments' = DOMAIN segments
    BY <1>2 DEF UpdateSegmentPieces
  <2>4. \A s : SameRows(s)
    BY <2>2, <2>3 DEF SameRows, SegmentsOf
  <2> QED
    BY <2>1, <2>4
<1> QED
  BY <1>1, <1>2 DEF Repair

LEMMA ContentChores ==
    ASSUME DataInv, Chores
    PROVE  KeepsContent
<1>1. ASSUME segments' = segments, copies' = copies
      PROVE  KeepsContent
  BY <1>1, ContentUntouched
<1>2. ASSUME NEW H, copies' = copies, \A h \in H : ~Live(h.stream),
             segments' = Restrict(segments,
                {k \in DOMAIN segments : \A h \in H : h.stream # k[1]})
      PROVE  KeepsContent
  BY <1>2, ContentUntouched DEF Restrict
<1>3. CASE DeleteInactiveObjectsAndSegments
  <2>1. PICK H \in SUBSET zombies.batch :
          segments' = Restrict(segments,
             {k \in DOMAIN segments : \A h \in H : h.stream # k[1]})
    BY <1>3 DEF DeleteInactiveObjectsAndSegments
  <2>2. \A h \in H : ~Live(h.stream)
    BY DEF DataInv, FamilyInv, Batches, Live, Committed, Pending
  <2> QED
    BY <1>2, <1>3, <2>1, <2>2 DEF DeleteInactiveObjectsAndSegments
<1>4. CASE DeleteObjectsAndSegments
  <2>1. \A h \in expired.batch : ~Live(h.stream)
    <3> SUFFICES ASSUME NEW h \in expired.batch, h.stream \in DOMAIN objects
                 PROVE  ~(objects[h.stream].expires >= now)
      BY DEF Live, Committed
    <3>1. objects[h.stream].expires \in Int /\ now \in Int
      BY BoundsAssumption DEF DataInv, FamilyInv, TypeInv, TypeOK, ObjectRow, Never
    <3> QED
      BY <3>1 DEF DataInv, FamilyInv, Batches
  <2> QED
    BY <1>2, <1>4, <2>1 DEF DeleteObjectsAndSegments
<1> QED
  BY <1>1, <1>3, <1>4 DEF Chores, SelectZombieObjects, SelectExpiredObjects, tables

LEMMA ContentNext ==
    ASSUME Orderly, DataInv, OneRepair, [Next]_vars
    PROVE  KeepsContent \/ (RepairStep /\ \A s : SameRows(s))
<1>1. CASE Tick \/ UNCHANGED vars
  BY <1>1, ContentUntouched DEF Tick, vars, tables
<1> QED
  BY <1>1, ContentUpload, ContentDelete, ContentCopyMove, ContentRepair, ContentChores
     DEF Next, Orderly

\* Deleting or overwriting the ancestor, promoting a sibling, copying and moving never
\* change what a download of a live object gets (ContentPreserved): its positions and
\* root pieces are what they were, and its piece lists change by a repair only.
THEOREM ContentCorrect == Orderly => (Spec => ContentPreserved)
<1> DEFINE Preserves ==
      \A s \in DOMAIN objects \cap DOMAIN objects' : Live(s) /\ Live(s)' =>
         /\ SegmentsOf(s)' = SegmentsOf(s)
         /\ \A p \in SegmentsOf(s) :
               /\ RootOf(s, p)' = RootOf(s, p)
               /\ PiecesOf(s, p)' = PiecesOf(s, p) \/ RepairStep
<1>1. ASSUME DataInv, DataInv', KeepsContent \/ (RepairStep /\ \A s : SameRows(s))
      PROVE  Preserves
  <2> SUFFICES ASSUME NEW s, Live(s), Live(s)'
               PROVE  /\ SegmentsOf(s)' = SegmentsOf(s)
                      /\ \A p \in SegmentsOf(s) :
                            /\ RootOf(s, p)' = RootOf(s, p)
                            /\ PiecesOf(s, p)' = PiecesOf(s, p) \/ RepairStep
    OBVIOUS
  <2>1. SameRows(s) /\ (SamePieces(s) \/ RepairStep)
    BY <1>1 DEF KeepsContent
  <2>2. SamePieces(s) => \A p \in SegmentsOf(s) : PiecesOf(s, p)' = PiecesOf(s, p)
    BY <1>1, <2>1, SameContent
  <2>3. ReadsLeader /\ ReadsLeader'
    BY <1>1, DataReads, PTL
  <2>4. \A p \in SegmentsOf(s) : RootOf(s, p)' = RootOf(s, p)
    <3> SUFFICES ASSUME NEW p \in SegmentsOf(s)
                 PROVE  RootOf(s, p)' = RootOf(s, p)
      OBVIOUS
    <3>1. /\ p \in SegmentsOf(s)'
          /\ segments'[<<s, p>>].root = segments[<<s, p>>].root
      BY <2>1 DEF SameRows
    <3> QED
      BY <2>3, <3>1 DEF ReadsLeader
  <2> QED
    BY <2>1, <2>2, <2>4 DEF SameRows
<1>2. Init => OneRepair
  BY DEF Init, OneRepair
<1>3. OneRepair /\ [Next]_vars => OneRepair'
  BY OneRepairNext
<1>4. ASSUME Orderly
      PROVE  DataInv /\ OneRepair /\ [Next]_vars =>
                KeepsContent \/ (RepairStep /\ \A s : SameRows(s))
  BY <1>4, ContentNext
<1>5. ContentPreserved <=> [][Preserves]_vars
  BY DEF ContentPreserved
<1> HIDE DEF Preserves
<1>6. ASSUME Orderly
      PROVE  Spec => [][Preserves]_vars
  BY <1>1, <1>2, <1>3, <1>4, <1>6, DataAlways, PTL DEF Spec
<1> QED
  BY <1>5, <1>6

-----------------------------------------------------------------------------
(* The object store that clients see.  With one committed object at most at a *)
(* location, what it shows is the content of the one that is visible there.   *)

ShownIs ==
    /\ \A l : l \in DOMAIN Shown <=> \E s \in Visible : objects[s].loc = l
    /\ \A s \in Visible : Shown[objects[s].loc] = ContentOf(s)
    /\ Shown = [l \in DOMAIN Shown |-> Shown[l]]

LEMMA ShowsVisible == OneCommittedPerLocation => ShownIs
<1> SUFFICES ASSUME OneCommittedPerLocation
             PROVE  ShownIs
  OBVIOUS
<1>1. Shown = [l \in {objects[s].loc : s \in Visible} |->
                  ContentOf(CHOOSE s \in Visible : objects[s].loc = l)]
  BY DEF Shown, ContentOf, RowRead, FromAncestor, PiecesInAncestorSegment, SegmentsOf
<1>2. ASSUME NEW s \in Visible
      PROVE  (CHOOSE t \in Visible : objects[t].loc = objects[s].loc) = s
  <2>1. \A t \in Visible : t \in DOMAIN objects /\ Committed(t)
    BY DEF Visible
  <2>2. \A t \in Visible : objects[t].loc = objects[s].loc => t = s
    BY <2>1 DEF OneCommittedPerLocation
  <2> QED
    BY <2>2
<1>3. ASSUME NEW s \in Visible
      PROVE  Shown[objects[s].loc] = ContentOf(s)
  BY <1>1, <1>2
<1> QED
  BY <1>1, <1>3 DEF ShownIs

\* The content of a visible object: its own rows, and the pieces of its leader.
ContentsAre ==
    \A s \in Visible :
        /\ Live(s)
        /\ DOMAIN ContentOf(s) = SegmentsOf(s)
        /\ ContentOf(s) = [p \in SegmentsOf(s) |-> ContentOf(s)[p]]
        /\ \A p \in SegmentsOf(s) :
              ContentOf(s)[p] = IF segments[<<s, p>>].inline THEN InlineData
                                ELSE [root |-> segments[<<s, p>>].root,
                                      pieces |-> segments[<<Leader(s), p>>].pieces]
        /\ ContentOf(s) \in ObjectStore!Contents

LEMMA DataContents == DataInv => ContentsAre
<1> SUFFICES ASSUME DataInv, NEW s \in Visible
             PROVE  /\ Live(s)
                    /\ DOMAIN ContentOf(s) = SegmentsOf(s)
                    /\ ContentOf(s) = [p \in SegmentsOf(s) |-> ContentOf(s)[p]]
                    /\ \A p \in SegmentsOf(s) :
                          ContentOf(s)[p] = IF segments[<<s, p>>].inline THEN InlineData
                                            ELSE [root |-> segments[<<s, p>>].root,
                                                  pieces |-> segments[<<Leader(s), p>>].pieces]
                    /\ ContentOf(s) \in ObjectStore!Contents
  BY DEF ContentsAre
<1>1. Live(s)
  <2>1. s \in DOMAIN objects /\ Committed(s) /\ objects[s].expires > now
    BY DEF Visible, Unexpired
  <2>2. objects[s].expires \in Int /\ now \in Int
    BY <2>1, BoundsAssumption DEF DataInv, FamilyInv, TypeInv, TypeOK, ObjectRow, Never
  <2> QED
    BY <2>1, <2>2 DEF Live
<1>2. /\ DOMAIN ContentOf(s) = SegmentsOf(s)
      /\ ContentOf(s) = [p \in SegmentsOf(s) |-> ContentOf(s)[p]]
      /\ \A p \in SegmentsOf(s) :
            ContentOf(s)[p] = IF segments[<<s, p>>].inline THEN InlineData
                              ELSE [root |-> RootOf(s, p), pieces |-> PiecesOf(s, p)]
  BY DEF ContentOf, RootOf, PiecesOf
<1>3. ASSUME NEW p \in SegmentsOf(s)
      PROVE  /\ ContentOf(s)[p] = IF segments[<<s, p>>].inline THEN InlineData
                                  ELSE [root |-> segments[<<s, p>>].root,
                                        pieces |-> segments[<<Leader(s), p>>].pieces]
             /\ ContentOf(s)[p] \in [root : Roots, pieces : 1..MaxPieces] \cup {InlineData}
  <2>1. CASE segments[<<s, p>>].inline
    BY <1>2, <2>1
  <2>2. CASE ~segments[<<s, p>>].inline
    <3>1. PICK k : k = <<s, p>>
      OBVIOUS
    <3>2. /\ PiecesOf(s, p) = segments[<<Leader(s), p>>].pieces
          /\ PiecesOf(s, p) # NoPieces
          /\ RootOf(s, p) = segments[k].root
      BY <1>1, <2>2, <3>1, PiecesRead
    <3>3. k \in DOMAIN segments /\ k[1] = s /\ k[2] = p
      BY <3>1 DEF SegmentsOf
    <3>4. segments[k].root \in Roots
      BY <2>2, <3>1, <3>3, SegmentKey
         DEF DataInv, RowsInv, RowsFormed, FamilyInv, TypeInv, SegmentRow
    <3>5. PICK o : o = <<Leader(s), p>>
      OBVIOUS
    <3>6. o \in DOMAIN segments
      BY <1>1, <2>2, <3>1, <3>3, <3>5 DEF DataInv, LiveInv, PiecesOwned, Kept
    <3>7. segments[o].pieces \in NoPieces..MaxPieces
      BY <3>6, SegmentKey DEF DataInv, FamilyInv, TypeInv, SegmentRow
    <3>8. segments[o].pieces \in 1..MaxPieces
      BY <3>2, <3>5, <3>7 DEF NoPieces
    <3> QED
      BY <1>2, <2>2, <3>1, <3>2, <3>4, <3>5, <3>8
  <2> QED
    BY <2>1, <2>2
<1>4. SegmentsOf(s) \in SUBSET Positions
  BY DEF SegmentsOf
<1>5. ContentOf(s) \in [SegmentsOf(s) -> [root : Roots, pieces : 1..MaxPieces] \cup {InlineData}]
  BY <1>2, <1>3
<1>6. ContentOf(s) \in ObjectStore!Contents
  BY <1>4, <1>5 DEF ObjectStore!Contents
<1> QED
  BY <1>1, <1>2, <1>3, <1>6

\* An object, kept or new, that has the rows of a visible one shows what it shows.
LEMMA ContentTaken ==
    ASSUME ContentsAre, ContentsAre', NEW s \in Visible, NEW n \in Visible',
           SegmentsOf(n)' = SegmentsOf(s),
           \A p \in SegmentsOf(s) :
              /\ segments'[<<n, p>>].root = segments[<<s, p>>].root
              /\ segments'[<<n, p>>].inline = segments[<<s, p>>].inline
              /\ ~segments[<<s, p>>].inline =>
                    \A t : t = Leader(n)' =>
                       segments'[<<t, p>>].pieces = segments[<<Leader(s), p>>].pieces
    PROVE  ContentOf(n)' = ContentOf(s)
<1> DEFINE old == ContentOf(s)
           new == ContentOf(n)'
<1>1. PICK t : t = Leader(n)'
  OBVIOUS
<1>2. /\ old = [p \in SegmentsOf(s) |-> old[p]]
      /\ \A p \in SegmentsOf(s) :
            old[p] = IF segments[<<s, p>>].inline THEN InlineData
                     ELSE [root |-> segments[<<s, p>>].root,
                           pieces |-> segments[<<Leader(s), p>>].pieces]
  BY DEF ContentsAre
<1>3. /\ new = [p \in SegmentsOf(n)' |-> new[p]]
      /\ \A p \in SegmentsOf(n)' :
            new[p] = IF segments'[<<n, p>>].inline THEN InlineData'
                     ELSE [root |-> segments'[<<n, p>>].root,
                           pieces |-> segments'[<<t, p>>].pieces]
  BY <1>1 DEF ContentsAre
<1>4. InlineData' = InlineData
  BY DEF InlineData
<1> HIDE DEF old, new
<1>5. ASSUME NEW p \in SegmentsOf(s)
      PROVE  new[p] = old[p]
  <2>1. /\ segments'[<<n, p>>].root = segments[<<s, p>>].root
        /\ segments'[<<n, p>>].inline = segments[<<s, p>>].inline
        /\ ~segments[<<s, p>>].inline =>
              segments'[<<t, p>>].pieces = segments[<<Leader(s), p>>].pieces
    BY <1>1
  <2>2. new[p] = IF segments'[<<n, p>>].inline THEN InlineData
                 ELSE [root |-> segments'[<<n, p>>].root,
                       pieces |-> segments'[<<t, p>>].pieces]
    BY <1>3, <1>4
  <2>3. CASE segments[<<s, p>>].inline
    BY <1>2, <2>1, <2>2, <2>3
  <2>4. CASE ~segments[<<s, p>>].inline
    BY <1>2, <2>1, <2>2, <2>4
  <2> QED
    BY <2>3, <2>4
<1>6. new = old
  BY <1>2, <1>3, <1>5
<1> QED
  BY <1>6 DEF old, new

LEMMA ContentKept ==
    ASSUME ContentsAre, ContentsAre', NEW s \in Visible, s \in Visible',
           SameRows(s), SamePieces(s)
    PROVE  ContentOf(s)' = ContentOf(s)
BY ContentTaken DEF SameRows, SamePieces

\* Objects are deleted or expire, and what stays shows what it showed.
LEMMA StoreShrinks ==
    ASSUME ShownIs, ShownIs',
           \A s \in Visible' : /\ s \in Visible /\ objects'[s].loc = objects[s].loc
                               /\ ContentOf(s)' = ContentOf(s)
    PROVE  [ObjectStore!Next]_Shown
<1>1. ASSUME NEW l \in DOMAIN Shown'
      PROVE  l \in DOMAIN Shown /\ Shown'[l] = Shown[l]
  <2>1. PICK s \in Visible' : objects'[s].loc = l
    BY <1>1 DEF ShownIs
  <2>2. s \in Visible /\ objects[s].loc = l /\ ContentOf(s)' = ContentOf(s)
    BY <2>1
  <2>3. Shown'[l] = ContentOf(s)'
    BY <2>1 DEF ShownIs
  <2> QED
    BY <2>2, <2>3 DEF ShownIs
<1>2. Shown' = [l \in DOMAIN Shown' |-> Shown'[l]]
  BY DEF ShownIs
<1>3. Shown' = [l \in DOMAIN Shown' |-> Shown[l]]
  BY <1>1, <1>2
<1>4. DOMAIN Shown' \subseteq DOMAIN Shown
  BY <1>1
<1>5. ObjectStore!Delete
  BY <1>3, <1>4 DEF ObjectStore!Delete, ObjectStore!Restrict
<1> QED
  BY <1>5 DEF ObjectStore!Next

LEMMA StoreKeeps ==
    ASSUME ShownIs, ShownIs', ContentsAre, ContentsAre', KeepsContent,
           \A s \in Visible' : s \in Visible /\ objects'[s].loc = objects[s].loc
    PROVE  [ObjectStore!Next]_Shown
<1>1. ASSUME NEW s \in Visible'
      PROVE  ContentOf(s)' = ContentOf(s)
  <2>1. s \in Visible /\ Live(s) /\ Live(s)'
    BY DEF ContentsAre
  <2>2. SameRows(s) /\ SamePieces(s)
    BY <2>1 DEF KeepsContent
  <2> QED
    BY <2>1, <2>2, ContentKept
<1> QED
  BY <1>1, StoreShrinks

\* Nothing becomes visible by waiting.
LEMMA VisibleRemain ==
    ASSUME TypeInv, NEW S, RowsKept(DOMAIN objects' \ S), \A s \in S : s \notin Visible',
           now' \in {now, now + 1}
    PROVE  \A s \in Visible' : s \in Visible /\ objects'[s].loc = objects[s].loc
<1> SUFFICES ASSUME NEW s \in Visible'
             PROVE  s \in Visible /\ objects'[s].loc = objects[s].loc
  OBVIOUS
<1>1. /\ s \in DOMAIN objects' /\ objects'[s].status = "committed"
      /\ objects'[s].expires > now'
  BY DEF Visible, Committed, Unexpired
<1>2. s \in DOMAIN objects /\ objects'[s] = objects[s]
  BY <1>1 DEF RowsKept
<1>3. objects[s].expires \in Int /\ now \in Int
  BY <1>2, BoundsAssumption DEF TypeInv, TypeOK, ObjectRow, Never
<1>4. objects[s].expires > now
  BY <1>1, <1>2, <1>3
<1> QED
  BY <1>1, <1>2, <1>4 DEF Visible, Committed, Unexpired

\* One object appears at the location l, in place of what was visible there.
LEMMA StoreHolds ==
    ASSUME ShownIs, ShownIs', NEW n \in Visible', NEW l, objects'[n].loc = l,
           \A s \in Visible' : s # n =>
              /\ s \in Visible /\ objects'[s].loc = objects[s].loc /\ objects[s].loc # l
              /\ ContentOf(s)' = ContentOf(s),
           \A s \in Visible : objects[s].loc # l => s \in Visible' /\ s # n
    PROVE  /\ Shown' = [m \in DOMAIN Shown \cup {l} |->
                          IF m = l THEN ContentOf(n)' ELSE Shown[m]]
           /\ l \in DOMAIN Shown' /\ Shown'[l] = ContentOf(n)'
<1>1. l \in DOMAIN Shown' /\ Shown'[l] = ContentOf(n)'
  BY DEF ShownIs
<1>2. ASSUME NEW m, m # l
      PROVE  m \in DOMAIN Shown' <=> m \in DOMAIN Shown
  <2>1. ASSUME m \in DOMAIN Shown'
        PROVE  m \in DOMAIN Shown
    <3>1. PICK s \in Visible' : objects'[s].loc = m
      BY <2>1 DEF ShownIs
    <3> QED
      BY <1>2, <3>1 DEF ShownIs
  <2>2. ASSUME m \in DOMAIN Shown
        PROVE  m \in DOMAIN Shown'
    <3>1. PICK s \in Visible : objects[s].loc = m
      BY <2>2 DEF ShownIs
    <3>2. s \in Visible' /\ objects'[s].loc = m
      BY <1>2, <3>1
    <3> QED
      BY <3>2 DEF ShownIs
  <2> QED
    BY <2>1, <2>2
<1>3. ASSUME NEW m \in DOMAIN Shown', m # l
      PROVE  Shown'[m] = Shown[m]
  <2>1. PICK s \in Visible' : objects'[s].loc = m
    BY <1>3 DEF ShownIs
  <2>2. s \in Visible /\ objects[s].loc = m /\ ContentOf(s)' = ContentOf(s)
    BY <1>3, <2>1
  <2>3. Shown'[m] = ContentOf(s)'
    BY <2>1 DEF ShownIs
  <2> QED
    BY <2>2, <2>3 DEF ShownIs
<1>4. DOMAIN Shown' = DOMAIN Shown \cup {l}
  BY <1>1, <1>2
<1>5. Shown' = [m \in DOMAIN Shown' |-> Shown'[m]]
  BY DEF ShownIs
<1> QED
  BY <1>1, <1>3, <1>4, <1>5

\* What is uploaded under a pending stream is shared with nobody.
LEMMA UploadIsNew ==
    ASSUME DataInv, ContentsAre, ContentsAre', ShownIs, NEW s, Pending(s), s \in Visible',
           NEW D, NEW P \in Promotions(D), segments' = SegmentsWithout(D, P)
    PROVE  ObjectStore!IsNew(ContentOf(s)')
<1> USE DEF DataInv
<1> SUFFICES ASSUME NEW d \in ObjectStore!DataOf(ContentOf(s)'), NEW e \in ObjectStore!DataUsed,
                    d.root = e.root
             PROVE  FALSE
  BY DEF ObjectStore!IsNew
<1>1. PICK p \in SegmentsOf(s)' : d = ContentOf(s)'[p] /\ d # InlineData
  BY DEF ObjectStore!DataOf, ContentsAre
<1>0. PICK t \in Visible : \E q : q \in SegmentsOf(t) /\ e = ContentOf(t)[q] /\ e # InlineData
  <2>1. PICK l \in DOMAIN Shown : e \in ObjectStore!DataOf(Shown[l])
    BY DEF ObjectStore!DataUsed
  <2>2. PICK t \in Visible : objects[t].loc = l
    BY <2>1 DEF ShownIs
  <2>3. Shown[l] = ContentOf(t) /\ DOMAIN ContentOf(t) = SegmentsOf(t)
    BY <2>2 DEF ShownIs, ContentsAre
  <2> QED
    BY <2>1, <2>2, <2>3 DEF ObjectStore!DataOf
<1>2. PICK q : q \in SegmentsOf(t) /\ e = ContentOf(t)[q] /\ e # InlineData
  BY <1>0
<1>3. PICK k : k = <<s, p>>
  OBVIOUS
<1>4. PICK m : m = <<t, q>>
  OBVIOUS
<1>5. k \in DOMAIN segments /\ segments'[k].root = segments[k].root /\ segments'[k].inline = segments[k].inline
  <2>1. k \in DOMAIN segments'
    BY <1>3 DEF SegmentsOf
  <2> QED
    BY <2>1, RowLeft DEF FamilyInv
<1>6. ~segments[k].inline /\ d.root = segments[k].root
  <2>1. InlineData' = InlineData
    BY DEF InlineData
  <2>2. PICK x : x = Leader(s)'
    OBVIOUS
  <2>3. ContentOf(s)'[p] = IF segments'[k].inline THEN InlineData'
                           ELSE [root |-> segments'[k].root,
                                 pieces |-> segments'[<<x, p>>].pieces]
    BY <1>3, <2>2 DEF ContentsAre
  <2> QED
    BY <1>1, <1>5, <2>1, <2>3
<1>7. m \in DOMAIN segments /\ ~segments[m].inline /\ e.root = segments[m].root
  <2>1. ContentOf(t)[q] = IF segments[m].inline THEN InlineData
                          ELSE [root |-> segments[m].root,
                                pieces |-> segments[<<Leader(t), q>>].pieces]
    BY <1>2, <1>4 DEF ContentsAre
  <2> QED
    BY <1>2, <1>4, <2>1 DEF SegmentsOf
<1>8. segments[k].root # NoRoot
  BY <1>5, <1>6 DEF RowsInv, RowsFormed
<1>9. Leader(m[1]) = Leader(k[1])
  BY <1>5, <1>6, <1>7, <1>8 DEF RowsInv, RootsApart
<1>10. Leader(k[1]) = s /\ m[1] = t
  BY <1>3, <1>4, PendingAlone DEF LiveInv
<1>11. t = s
  BY <1>7, <1>9, <1>10, PendingAlone DEF LiveInv
<1> QED
  BY <1>11 DEF Visible, Committed, Pending

StoreInv == DataInv /\ OneCommittedPerLocation
StoreFacts == DataInv /\ OneCommittedPerLocation /\ ShownIs /\ ContentsAre

LEMMA StoreFactsHold == StoreInv => StoreFacts
BY ShowsVisible, DataContents DEF StoreInv, StoreFacts

LEMMA StoreCommit ==
    ASSUME StoreFacts, StoreFacts', KeepsContent, NEW s \in DOMAIN objects, CommitObject(s)
    PROVE  [ObjectStore!Next]_Shown
<1> USE DEF StoreFacts
<1> DEFINE l == objects[s].loc
           D == CommittedAt(l)
<1>0. TypeInv /\ TypeInv' /\ Pending(s) /\ now' = now
  BY DEF DataInv, FamilyInv, CommitObject
<1>1. /\ DOMAIN objects' = DOMAIN objects \ D
      /\ RowsKept(DOMAIN objects' \ {s})
      /\ s \in DOMAIN objects' /\ objects'[s].loc = l
  BY <1>0, CommittedRow
<1>2. CASE s \notin Visible'
  <2>0. PICK S : S = {s}
    OBVIOUS
  <2>1. RowsKept(DOMAIN objects' \ S) /\ \A t \in S : t \notin Visible'
    BY <1>1, <1>2, <2>0
  <2>2. \A t \in Visible' : t \in Visible /\ objects'[t].loc = objects[t].loc
    BY <1>0, <2>1, VisibleRemain
  <2> QED
    BY <2>2, StoreKeeps
<1>3. CASE s \in Visible'
  <2>1. ASSUME NEW t \in Visible', t # s
        PROVE  /\ t \in Visible /\ objects'[t].loc = objects[t].loc /\ objects[t].loc # l
               /\ ContentOf(t)' = ContentOf(t)
    <3>1. t \in DOMAIN objects /\ objects'[t] = objects[t] /\ t \notin D
      BY <1>1, <2>1 DEF Visible, RowsKept
    <3>2. t \in Visible
      BY <1>0, <2>1, <3>1 DEF Visible, Committed, Unexpired
    <3>3. objects[t].loc # l
      BY <3>1, <3>2 DEF Visible, CommittedAt, At
    <3>4. SameRows(t) /\ SamePieces(t)
      BY <2>1, <3>2 DEF ContentsAre, KeepsContent
    <3> QED
      BY <2>1, <3>1, <3>2, <3>3, <3>4, ContentKept
  <2>2. ASSUME NEW t \in Visible, objects[t].loc # l
        PROVE  t \in Visible' /\ t # s
    <3>1. t # s /\ t \notin D /\ t \in DOMAIN objects
      BY <1>0, <2>2 DEF Visible, Committed, Pending, CommittedAt, At
    <3>2. t \in DOMAIN objects' /\ objects'[t] = objects[t]
      BY <1>1, <3>1 DEF RowsKept
    <3> QED
      BY <1>0, <3>1, <3>2 DEF Visible, Committed, Unexpired
  <2> HIDE DEF l
  <2>3. /\ Shown' = [m \in DOMAIN Shown \cup {l} |->
                       IF m = l THEN ContentOf(s)' ELSE Shown[m]]
        /\ l \in DOMAIN Shown' /\ Shown'[l] = ContentOf(s)'
    BY <1>1, <1>3, <2>1, <2>2, StoreHolds
  <2>4. ObjectStore!Holds(l, Shown'[l])
    BY <2>3 DEF ObjectStore!Holds
  <2>5. PICK P \in Promotions(D) : segments' = SegmentsWithout(D, P)
    BY DEF CommitObject, l
  <2>6. ObjectStore!IsNew(ContentOf(s)')
    <3> HIDE DEF D
    <3> QED
      BY <1>0, <1>3, <2>5, UploadIsNew
  <2>7. ContentOf(s)' \in ObjectStore!Contents
    <3>1. (ContentOf(s) \in ObjectStore!Contents)'
      BY <1>3 DEF ContentsAre
    <3> QED
      BY <3>1
  <2>8. ObjectStore!Put(l)
    BY <2>3, <2>4, <2>6, <2>7 DEF ObjectStore!Put
  <2>9. l \in Locations
    BY <1>0 DEF TypeInv, TypeOK, ObjectRow, l
  <2> HIDE DEF l
  <2> QED
    BY <2>8, <2>9 DEF ObjectStore!Next
<1> QED
  BY <1>2, <1>3

LEMMA StoreCopied ==
    ASSUME StoreFacts, StoreFacts', KeepsContent, ~MoveCopyRace,
           NEW l \in Locations, FinishCopyObject(l)
    PROVE  [ObjectStore!Next]_Shown
<1> USE DEF StoreFacts
<1> DEFINE r == begun["copy"]
           D == ReadDestination(r, l)
           s == r.stream
<1>0. TypeInv /\ TypeInv' /\ now' = now
  BY DEF DataInv, FamilyInv, FinishCopyObject
<1>1. PICK P, onlyInline : CopyTables(nextStream, r, D, P, onlyInline)
  BY CopyWrites
<1>2. PICK n : n = nextStream
  OBVIOUS
<1>3. /\ DOMAIN objects' = (DOMAIN objects \ D) \cup {n}
      /\ RowsKept(DOMAIN objects' \ {n})
      /\ s \in DOMAIN objects /\ Committed(s) /\ s \notin D /\ s < n
      /\ objects'[n].loc = l /\ objects'[n].status = "committed"
      /\ objects'[n].expires = objects[s].expires
      /\ n \notin DOMAIN objects /\ n \in Int
      /\ ~SourceMissing(r)
  <2>1. objects'[n].loc = l /\ ~SourceMissing(r)
    BY <1>0, <1>2, CopiedRow
  <2>2. n \notin DOMAIN objects /\ n \in Int
    BY <1>0, <1>2 DEF TypeInv, Fresh, TypeOK
  <2> QED
    BY <1>1, <1>2, <2>1, <2>2 DEF CopyTables
<1>4. D = CommittedAt(l)
  BY <1>0, <1>3, NewestIsAll DEF ReadDestination
<1>5. objects[s].loc = r.loc
  <2>1. ReadSource(r, l) = {s} /\ ReadSource(r, l) = SourceRow(r)
    BY <1>3 DEF FinishCopyObject, ReadSource
  <2> QED
    BY <2>1 DEF SourceRow, CommittedAt, At
<1>6. CASE n \notin Visible'
  <2>0. PICK S : S = {n}
    OBVIOUS
  <2>1. RowsKept(DOMAIN objects' \ S) /\ \A t \in S : t \notin Visible'
    BY <1>3, <1>6, <2>0
  <2>2. \A t \in Visible' : t \in Visible /\ objects'[t].loc = objects[t].loc
    BY <1>0, <2>1, VisibleRemain
  <2> QED
    BY <2>2, StoreKeeps
<1>7. CASE n \in Visible'
  <2>1. s \in Visible
    BY <1>0, <1>3, <1>7 DEF Visible, Unexpired
  <2>2. ASSUME NEW t \in Visible', t # n
        PROVE  /\ t \in Visible /\ objects'[t].loc = objects[t].loc /\ objects[t].loc # l
               /\ ContentOf(t)' = ContentOf(t)
    <3>1. t \in DOMAIN objects /\ objects'[t] = objects[t] /\ t \notin D
      BY <1>3, <2>2 DEF Visible, RowsKept
    <3>2. t \in Visible
      BY <1>0, <2>2, <3>1 DEF Visible, Committed, Unexpired
    <3>3. objects[t].loc # l
      BY <1>4, <3>1, <3>2 DEF Visible, CommittedAt, At
    <3>4. SameRows(t) /\ SamePieces(t)
      BY <2>2, <3>2 DEF ContentsAre, KeepsContent
    <3> QED
      BY <2>2, <3>1, <3>2, <3>3, <3>4, ContentKept
  <2>3. ASSUME NEW t \in Visible, objects[t].loc # l
        PROVE  t \in Visible' /\ t # n
    <3>1. t # n /\ t \notin D /\ t \in DOMAIN objects
      BY <1>3, <1>4, <2>3 DEF Visible, CommittedAt, At
    <3>2. t \in DOMAIN objects' /\ objects'[t] = objects[t]
      BY <1>3, <3>1 DEF RowsKept
    <3> QED
      BY <1>0, <3>1, <3>2 DEF Visible, Committed, Unexpired
  <2> HIDE DEF D
  <2>4. /\ Shown' = [m \in DOMAIN Shown \cup {l} |->
                       IF m = l THEN ContentOf(n)' ELSE Shown[m]]
        /\ l \in DOMAIN Shown' /\ Shown'[l] = ContentOf(n)'
    BY <1>3, <1>7, <2>2, <2>3, StoreHolds
  <2>5. ContentOf(n)' = ContentOf(s)
    <3>1. CopyTables(n, r, D, P, onlyInline) /\ P \in Promotions(D) /\ D \in SUBSET DOMAIN objects
      BY <1>1, <1>2 DEF CopyTables
    <3>2. SegmentsOf(n)' = SegmentsOf(s)
      <4>1. \A p : <<n, p>> \notin DOMAIN SegmentsWithout(D, P)
        BY <1>0, <1>2, <1>3, RowKept DEF TypeInv, Fresh
      <4>2. \A p \in Positions : <<n, p>> \in DOMAIN segments' <=> p \in SegmentsOf(s)
        BY <3>1, <4>1 DEF CopyTables
      <4> QED
        BY <4>2 DEF SegmentsOf
    <3>3. ASSUME NEW p \in SegmentsOf(s)
          PROVE  /\ segments'[<<n, p>>].root = segments[<<s, p>>].root
                 /\ segments'[<<n, p>>].inline = segments[<<s, p>>].inline
      BY <3>1 DEF CopyTables
    <3>4. ASSUME NEW p \in SegmentsOf(s), ~segments[<<s, p>>].inline,
                 NEW t, t = Leader(n)'
          PROVE  segments'[<<t, p>>].pieces = segments[<<Leader(s), p>>].pieces
      <4>1. t = LeaderLeft(D, P, s)
        <5>1. ~onlyInline
          BY <3>1, <3>4 DEF CopyTables
        <5> QED
          BY <3>1, <3>4, <5>1, CopyLeaders
      <4>2. PICK k : k = <<s, p>>
        OBVIOUS
      <4>3. k \in DOMAIN SegmentsWithout(D, P) /\ Kept(k[1]) /\ ~segments[k].inline
        BY <1>3, <2>1, <3>4, <4>2 DEF SegmentsOf, SegmentsWithout, Kept, ContentsAre
      <4>4. PICK o : o = <<t, p>>
        OBVIOUS
      <4>5. o = <<LeaderLeft(D, P, k[1]), k[2]>> /\ k[1] = s /\ k[2] = p
        BY <4>1, <4>2, <4>4
      <4>6. /\ o \in DOMAIN SegmentsWithout(D, P)
            /\ SegmentsWithout(D, P)[o].pieces = segments[<<Leader(k[1]), k[2]>>].pieces
        BY <3>1, <4>3, <4>5, OwnedLeft
      <4>7. segments'[o] = SegmentsWithout(D, P)[o]
        BY <3>1, <4>6 DEF CopyTables
      <4> QED
        BY <4>4, <4>5, <4>6, <4>7
    <3> QED
      BY <1>7, <2>1, <3>2, <3>3, <3>4, ContentTaken
  <2>6. r.loc \in DOMAIN Shown /\ Shown[r.loc] = ContentOf(s)
    BY <1>5, <2>1 DEF ShownIs
  <2>7. ObjectStore!Copy(r.loc, l)
    BY <2>4, <2>5, <2>6 DEF ObjectStore!Copy, ObjectStore!Holds
  <2>8. r.loc \in Locations
    <3>1. objects[s].loc \in Locations
      BY <1>0, <1>3 DEF TypeInv, TypeOK, ObjectRow
    <3> QED
      BY <1>5, <3>1
  <2> QED
    BY <2>7, <2>8 DEF ObjectStore!Next
<1> QED
  BY <1>6, <1>7

LEMMA StoreMoved ==
    ASSUME StoreFacts, StoreFacts', KeepsContent, NEW l \in Locations, FinishMoveObject(l)
    PROVE  [ObjectStore!Next]_Shown
<1> USE DEF StoreFacts
<1> DEFINE u == begun["move"].stream
           from == objects[u].loc
<1>0. TypeInv /\ TypeInv' /\ now' = now
  BY DEF DataInv, FamilyInv, FinishMoveObject
<1>1. /\ DOMAIN objects' = DOMAIN objects /\ u \in DOMAIN objects
      /\ RowsKept(DOMAIN objects' \ {u})
      /\ CommittedAt(l) = {}
      /\ objects'[u].loc = l
      /\ objects'[u].expires = objects[u].expires
      /\ objects'[u].status = objects[u].status
  BY <1>0, MovedRow
<1> HIDE DEF u
<1>2. CASE u \notin Visible
  <2>0. PICK S : S = {u}
    OBVIOUS
  <2>1. RowsKept(DOMAIN objects' \ S) /\ \A t \in S : t \notin Visible'
    BY <1>0, <1>1, <1>2, <2>0 DEF Visible, Committed, Unexpired
  <2>2. \A t \in Visible' : t \in Visible /\ objects'[t].loc = objects[t].loc
    BY <1>0, <2>1, VisibleRemain
  <2> QED
    BY <2>2, StoreKeeps
<1>3. CASE u \in Visible
  <2>1. l \notin DOMAIN Shown
    BY <1>1 DEF ShownIs, Visible, CommittedAt, At
  <2>2. u \in Visible' /\ from \in DOMAIN Shown /\ Shown[from] = ContentOf(u) /\ from # l
    BY <1>0, <1>1, <1>3, <2>1 DEF ShownIs, Visible, Committed, Unexpired
  <2>3. \A t : t # u => (t \in Visible' <=> t \in Visible)
    BY <1>0, <1>1 DEF RowsKept, Visible, Committed, Unexpired
  <2>4. ASSUME NEW t \in Visible, t # u
        PROVE  objects'[t].loc = objects[t].loc /\ objects[t].loc # from
    BY <1>1, <1>3, <2>4 DEF RowsKept, OneCommittedPerLocation, Visible
  <2>5. ASSUME NEW t \in Visible
        PROVE  ContentOf(t)' = ContentOf(t)
    <3>1. t \in Visible'
      BY <2>2, <2>3
    <3>2. SameRows(t) /\ SamePieces(t)
      BY <3>1 DEF ContentsAre, KeepsContent
    <3> QED
      BY <3>1, <3>2, ContentKept
  <2> HIDE DEF from
  <2>6. l \in DOMAIN Shown' /\ Shown'[l] = Shown[from]
    BY <1>1, <1>3, <2>2, <2>5 DEF ShownIs
  <2>7. ASSUME NEW m, m # l
        PROVE  /\ m \in DOMAIN Shown' <=> m \in DOMAIN Shown \ {from}
               /\ m \in DOMAIN Shown' => Shown'[m] = Shown[m]
    <3>1. ASSUME m \in DOMAIN Shown'
          PROVE  m \in DOMAIN Shown \ {from} /\ Shown'[m] = Shown[m]
      <4>1. PICK t \in Visible' : objects'[t].loc = m
        BY <3>1 DEF ShownIs
      <4>2. t # u /\ t \in Visible
        BY <1>1, <2>3, <2>7, <4>1
      <4>3. objects[t].loc = m /\ m # from /\ ContentOf(t)' = ContentOf(t)
        BY <2>4, <2>5, <4>1, <4>2
      <4>4. Shown'[m] = ContentOf(t)'
        BY <4>1 DEF ShownIs
      <4> QED
        BY <4>2, <4>3, <4>4 DEF ShownIs
    <3>2. ASSUME m \in DOMAIN Shown \ {from}
          PROVE  m \in DOMAIN Shown'
      <4>1. PICK t \in Visible : objects[t].loc = m
        BY <3>2 DEF ShownIs
      <4>2. t # u
        BY <3>2, <4>1 DEF from
      <4>3. t \in Visible' /\ objects'[t].loc = m
        BY <2>3, <2>4, <4>1, <4>2
      <4> QED
        BY <4>3 DEF ShownIs
    <3> QED
      BY <3>1, <3>2
  <2>8. Shown' = [m \in DOMAIN Shown' |-> Shown'[m]]
    BY DEF ShownIs
  <2>9. DOMAIN Shown' = (DOMAIN Shown \ {from}) \cup {l}
    BY <2>6, <2>7
  <2>10. Shown' = [m \in (DOMAIN Shown \ {from}) \cup {l} |->
                     IF m = l THEN Shown[from] ELSE Shown[m]]
    BY <2>6, <2>7, <2>8, <2>9
  <2>11. ObjectStore!Move(from, l)
    BY <2>1, <2>2, <2>10 DEF ObjectStore!Move
  <2>12. from \in Locations
    BY <1>0, <1>1 DEF TypeInv, TypeOK, ObjectRow, from
  <2> QED
    BY <2>11, <2>12 DEF ObjectStore!Next
<1> QED
  BY <1>2, <1>3

LEMMA StoreRepaired ==
    ASSUME StoreFacts, StoreFacts', NEW r \in repair, UpdateSegmentPieces(r)
    PROVE  [ObjectStore!Next]_Shown
<1> USE DEF StoreFacts
<1>0. /\ objects' = objects /\ copies' = copies /\ now' = now
      /\ \A t : t \in Visible' <=> t \in Visible
      /\ \A t : SegmentsOf(t) \subseteq Positions
  BY DEF UpdateSegmentPieces, Visible, Committed, Unexpired, SegmentsOf
<1>1. PICK k : k = <<r.stream, r.pos>>
  OBVIOUS
<1>2. CASE ~(k \in DOMAIN segments /\ segments[k].pieces = r.pieces)
  <2>1. segments' = segments
    BY <1>1, <1>2 DEF UpdateSegmentPieces
  <2>2. KeepsContent
    BY <1>0, <2>1, ContentUntouched
  <2> QED
    BY <1>0, <2>2, StoreKeeps
<1>3. CASE k \in DOMAIN segments /\ segments[k].pieces = r.pieces
  <2>1. /\ r.pieces \in Nat /\ r.pieces > 0 /\ r.pieces + 1 \in 1..MaxPieces
        /\ ~segments[k].inline
        /\ DOMAIN segments' = DOMAIN segments
        /\ \A m \in DOMAIN segments :
              /\ segments'[m].root = segments[m].root
              /\ segments'[m].inline = segments[m].inline
              /\ segments'[m].pieces = IF m = k THEN r.pieces + 1 ELSE segments[m].pieces
    BY <1>1, <1>3, RepairedRow
  <2>2. segments[k].root \in Roots /\ segments[k].root # NoRoot
    BY <1>3, <2>1, SegmentKey
       DEF DataInv, RowsInv, RowsFormed, FamilyInv, TypeInv, SegmentRow
  <2>3. Leader(k[1]) = k[1]
    BY <1>3, <2>1 DEF DataInv, RowsInv, CopiesOwnNothing, Leader, NoPieces
  <2> DEFINE d == [root |-> segments[k].root, pieces |-> r.pieces]
             e == [root |-> segments[k].root, pieces |-> r.pieces + 1]
  <2>4. d # InlineData /\ d.root = e.root /\ e \in [root : Roots, pieces : 1..MaxPieces]
    <3>1. d.root # InlineData.root
      BY <2>2 DEF InlineData
    <3> QED
      BY <2>1, <2>2, <3>1
  <2>5. ASSUME NEW t \in Visible, NEW p \in SegmentsOf(t)
        PROVE  /\ SegmentsOf(t)' = SegmentsOf(t)
               /\ ContentOf(t)'[p] = IF ContentOf(t)[p] = d THEN e ELSE ContentOf(t)[p]
    <3>1. SegmentsOf(t)' = SegmentsOf(t)
      BY <2>1 DEF SegmentsOf
    <3>2. PICK m : m = <<t, p>>
      OBVIOUS
    <3>3. m \in DOMAIN segments /\ m[1] = t /\ m[2] = p
      BY <3>2 DEF SegmentsOf
    <3>4. PICK o : o = <<Leader(t), p>>
      OBVIOUS
    <3>5. ContentOf(t)[p] = IF segments[m].inline THEN InlineData
                            ELSE [root |-> segments[m].root, pieces |-> segments[o].pieces]
      BY <3>2, <3>4 DEF ContentsAre
    <3>6. ContentOf(t)'[p] = IF segments[m].inline THEN InlineData
                             ELSE [root |-> segments[m].root, pieces |-> segments'[o].pieces]
      <4>1. PICK x : x = Leader(t)'
        OBVIOUS
      <4>2. x = Leader(t)
        BY <1>0, <4>1 DEF Leader
      <4>3. t \in Visible' /\ p \in SegmentsOf(t)'
        BY <1>0, <3>1
      <4>4. ContentOf(t)'[p] = IF segments'[m].inline THEN InlineData'
                               ELSE [root |-> segments'[m].root, pieces |-> segments'[<<x, p>>].pieces]
        BY <3>2, <4>1, <4>3 DEF ContentsAre
      <4>5. InlineData' = InlineData
        BY DEF InlineData
      <4> QED
        BY <2>1, <3>3, <3>4, <4>2, <4>4, <4>5
    <3>7. CASE segments[m].inline
      BY <2>4, <3>1, <3>5, <3>6, <3>7
    <3>8. CASE ~segments[m].inline /\ o = k
      <4>1. k[1] = Leader(t) /\ k[2] = p
        BY <3>4, <3>8
      <4>2. segments[m].root = segments[k].root
        BY <1>3, <2>3, <3>3, <4>1 DEF DataInv, RowsInv, FamilyAgrees
      <4>3. ContentOf(t)[p] = d
        BY <1>3, <3>5, <3>8, <4>2
      <4>4. ContentOf(t)'[p] = e
        BY <1>3, <2>1, <3>6, <3>8, <4>2
      <4> QED
        BY <3>1, <4>3, <4>4
    <3>9. CASE ~segments[m].inline /\ o # k
      <4>1. o \in DOMAIN segments
        BY <3>3, <3>4, <3>9 DEF DataInv, LiveInv, PiecesOwned, Kept, ContentsAre
      <4>2. ContentOf(t)'[p] = ContentOf(t)[p]
        BY <2>1, <3>5, <3>6, <3>9, <4>1
      <4>3. segments[m].root # segments[k].root
        <5> SUFFICES ASSUME segments[m].root = segments[k].root
                     PROVE  FALSE
          OBVIOUS
        <5>1. m[2] = k[2] /\ Leader(m[1]) = Leader(k[1])
          BY <1>3, <2>2, <3>3 DEF DataInv, RowsInv, RootsApart
        <5>2. o = k
          BY <1>1, <2>3, <3>3, <3>4, <5>1
        <5> QED
          BY <3>9, <5>2
      <4>4. ContentOf(t)[p].root = segments[m].root
        BY <3>5, <3>9
      <4>5. ContentOf(t)[p] # d
        BY <4>3, <4>4
      <4> QED
        BY <3>1, <4>2, <4>5
    <3> QED
      BY <3>7, <3>8, <3>9
  <2> HIDE DEF d, e
  <2>6. ASSUME NEW l \in DOMAIN Shown
        PROVE  /\ Shown[l] = [p \in DOMAIN Shown[l] |-> Shown[l][p]]
               /\ Shown'[l] = [p \in DOMAIN Shown[l] |->
                                 IF Shown[l][p] = d THEN e ELSE Shown[l][p]]
    <3>1. PICK t \in Visible : objects[t].loc = l
      BY DEF ShownIs
    <3>2. t \in Visible' /\ objects'[t].loc = l
      BY <1>0, <3>1
    <3>3. PICK old : old = ContentOf(t)
      OBVIOUS
    <3>4. PICK new : new = ContentOf(t)'
      OBVIOUS
    <3>5. Shown[l] = old /\ old = [p \in SegmentsOf(t) |-> old[p]]
      BY <3>1, <3>3 DEF ShownIs, ContentsAre
    <3>6. Shown'[l] = new /\ new = [p \in SegmentsOf(t)' |-> new[p]]
      BY <3>2, <3>4 DEF ShownIs, ContentsAre
    <3>7. SegmentsOf(t)' = SegmentsOf(t)
      BY <2>1 DEF SegmentsOf
    <3>8. \A p \in SegmentsOf(t) : new[p] = IF old[p] = d THEN e ELSE old[p]
      BY <2>5, <3>1, <3>3, <3>4
    <3> QED
      BY <3>5, <3>6, <3>7, <3>8
  <2>7. DOMAIN Shown' = DOMAIN Shown
    BY <1>0 DEF ShownIs
  <2>8. Shown' = [l \in DOMAIN Shown |-> Shown'[l]] /\ Shown = [l \in DOMAIN Shown |-> Shown[l]]
    BY <2>7 DEF ShownIs
  <2>9. CASE d \in ObjectStore!DataUsed
    <3>1. Shown' = [l \in DOMAIN Shown |-> [p \in DOMAIN Shown[l] |->
                      IF Shown[l][p] = d THEN e ELSE Shown[l][p]]]
      BY <2>6, <2>8
    <3>2. ObjectStore!Repair(d, e)
      BY <2>4, <3>1 DEF ObjectStore!Repair
    <3> QED
      BY <2>4, <2>9, <3>2 DEF ObjectStore!Next
  <2>10. CASE d \notin ObjectStore!DataUsed
    <3>1. ASSUME NEW l \in DOMAIN Shown
          PROVE  Shown'[l] = Shown[l]
      <4>1. \A p \in DOMAIN Shown[l] : Shown[l][p] # d
        BY <2>4, <2>10 DEF ObjectStore!DataUsed, ObjectStore!DataOf
      <4> QED
        BY <2>6, <4>1
    <3> QED
      BY <2>8, <3>1
  <2> QED
    BY <2>9, <2>10
<1> QED
  BY <1>2, <1>3

\* Uploads, deletes and the first halves of copies and moves show nothing new.
LEMMA StoreNext ==
    ASSUME Orderly, StoreFacts, StoreFacts', [Next]_vars
    PROVE  [ObjectStore!Next]_Shown
<1> USE DEF StoreFacts
<1>0. TypeInv
  BY DEF DataInv, FamilyInv
<1>1. ASSUME KeepsContent, RowsKept(DOMAIN objects'), now' \in {now, now + 1}
      PROVE  [ObjectStore!Next]_Shown
  <2>0. PICK S : S = {}
    OBVIOUS
  <2>1. RowsKept(DOMAIN objects' \ S) /\ \A t \in S : t \notin Visible'
    BY <1>1, <2>0
  <2>2. \A t \in Visible' : t \in Visible /\ objects'[t].loc = objects[t].loc
    BY <1>0, <1>1, <2>1, VisibleRemain
  <2> QED
    BY <1>1, <2>2, StoreKeeps
<1>2. ASSUME objects' = objects
      PROVE  RowsKept(DOMAIN objects')
  BY <1>2 DEF RowsKept
<1>3. CASE Upload
  <2>1. KeepsContent
    BY <1>3, ContentUpload DEF Orderly
  <2>2. ASSUME NEW l \in Locations, BeginObjectNextVersion(l)
        PROVE  [ObjectStore!Next]_Shown
    <3>0. PICK S : S = {nextStream}
      OBVIOUS
    <3>1. RowsKept(DOMAIN objects' \ S) /\ \A t \in S : t \notin Visible'
      BY <1>0, <2>2, <3>0, BegunRow DEF Visible, Committed
    <3>2. now' = now
      BY <2>2 DEF BeginObjectNextVersion
    <3>3. \A t \in Visible' : t \in Visible /\ objects'[t].loc = objects[t].loc
      BY <1>0, <3>1, <3>2, VisibleRemain
    <3> QED
      BY <2>1, <3>3, StoreKeeps
  <2>3. ASSUME NEW s \in DOMAIN objects, NEW p \in Positions,
               CommitSegment(s, p) \/ CommitInlineSegment(s, p)
        PROVE  [ObjectStore!Next]_Shown
    BY <1>1, <1>2, <2>1, <2>3 DEF CommitSegment, CommitInlineSegment, UpsertSegment
  <2>4. ASSUME NEW s \in DOMAIN objects, CommitObject(s)
        PROVE  [ObjectStore!Next]_Shown
    BY <2>1, <2>4, StoreCommit
  <2>5. ASSUME NEW s \in DOMAIN objects, AbortCommitObject(s)
        PROVE  [ObjectStore!Next]_Shown
    BY <1>1, <1>2, <2>1, <2>5 DEF AbortCommitObject, tables
  <2> QED
    BY <1>3, <2>2, <2>3, <2>4, <2>5 DEF Upload
<1>4. CASE Delete
  <2>1. now' = now
    BY <1>4 DEF Delete, DeletePendingObject, DeleteObjectLastCommitted,
                DeleteObjectExactVersion, DeleteBucketBatch
  <2> QED
    BY <1>1, <1>4, <2>1, OnlyRemoved, ContentDelete
<1>5. CASE CopyMove
  <2>1. KeepsContent
    BY <1>5, ContentCopyMove DEF Orderly
  <2>2. ASSUME NEW op, NEW l, BeginMoveCopyObject(op, l)
        PROVE  [ObjectStore!Next]_Shown
    BY <1>1, <1>2, <2>1, <2>2 DEF BeginMoveCopyObject, tables
  <2> QED
    BY <1>5, <2>1, <2>2, StoreCopied, StoreMoved DEF CopyMove, Orderly
<1>6. CASE Repair
  <2>1. ASSUME NEW s, NEW p, ReadForRepair(s, p)
        PROVE  [ObjectStore!Next]_Shown
    <3>1. objects' = objects /\ segments' = segments /\ copies' = copies /\ now' = now
      BY <2>1 DEF ReadForRepair, tables
    <3> QED
      BY <1>1, <1>2, <3>1, ContentUntouched
  <2> QED
    BY <1>6, <2>1, StoreRepaired DEF Repair
<1>7. CASE Chores
  <2>1. now' = now
    BY <1>7 DEF Chores, SelectZombieObjects, SelectExpiredObjects,
                DeleteInactiveObjectsAndSegments, DeleteObjectsAndSegments
  <2> QED
    BY <1>1, <1>7, <2>1, OnlyRemoved, ContentChores
<1>8. CASE Tick \/ UNCHANGED vars
  <2>1. /\ objects' = objects /\ segments' = segments /\ copies' = copies
        /\ now' \in {now, now + 1}
    BY <1>8 DEF Tick, vars, tables
  <2> QED
    BY <1>1, <1>2, <2>1, ContentUntouched
<1> QED
  BY <1>3, <1>4, <1>5, <1>6, <1>7, <1>8 DEF Next

\* The metabase implements the object store (ImplementsObjectStore): every step of every
\* request and chore puts, copies, moves, deletes or repairs what the locations it names
\* show, or changes nothing that a client sees.
THEOREM StoreCorrect == Orderly => (Spec => ImplementsObjectStore)
<1>1. Init => ObjectStore!Init
  <2>1. Init => DOMAIN objects = {}
    BY DEF Init
  <2>2. ASSUME Init
        PROVE  ShownIs /\ Visible = {}
    <3>1. OneCommittedPerLocation /\ Visible = {}
      BY <2>1, <2>2 DEF OneCommittedPerLocation, Visible
    <3> QED
      BY <3>1, ShowsVisible
  <2>3. ASSUME Init
        PROVE  Shown = [l \in {} |-> 0]
    BY <2>2, <2>3 DEF ShownIs
  <2> QED
    BY <2>3 DEF ObjectStore!Init
<1>2. ASSUME Orderly
      PROVE  Spec => []StoreInv
  <2>1. Orderly => ~MoveCopyRace
    BY DEF Orderly
  <2> QED
    BY <1>2, <2>1, DataAlways, OneCommittedCorrect, PTL DEF StoreInv
<1>3. ASSUME Orderly
      PROVE  StoreFacts /\ StoreFacts' /\ [Next]_vars => [ObjectStore!Next]_Shown
  BY <1>3, StoreNext
<1>4. ASSUME Orderly
      PROVE  Spec => ObjectStore!Init /\ [][ObjectStore!Next]_Shown
  BY <1>1, <1>2, <1>3, <1>4, StoreFactsHold, PTL DEF Spec
<1>5. ImplementsObjectStore <=> (ObjectStore!Init /\ [][ObjectStore!Next]_Shown)
  BY DEF ImplementsObjectStore, ObjectStore!Spec
<1> QED
  BY <1>4, <1>5
=============================================================================
