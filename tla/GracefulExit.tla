--------------------------- MODULE GracefulExit ----------------------------
(***************************************************************************)
(* Graceful exit on the satellite (satellite/gracefulexit), composed with  *)
(* the workers of the exiting nodes.  The chore, or the observer of the    *)
(* ranged loop, queues the pieces of exiting nodes.  A session             *)
(* (Endpoint.Process) has a sender, which hands queued pieces out, and a   *)
(* receiver, which takes the answers; they share the pending map and run   *)
(* concurrently.  Segments, the queue, the progress and the exit status    *)
(* are in databases and are written by separate statements.                *)
(*                                                                         *)
(* A session that returns, for whatever reason, may do so between any two  *)
(* of its statements: the stream is then broken and the node reconnects.   *)
(***************************************************************************)
EXTENDS ExitWorker

CONSTANTS
    InitialPieces,  \* [Segments -> [Numbers -> Nodes or None]]
    Lost,           \* pieces that exiting nodes have lost
    Optimal,        \* [Segments -> OptimalShares]
    MaxFailures,    \* MaxFailuresPerPiece
    MaxSends,       \* MaxOrderLimitSendCount
    MaxPercentage,  \* OverallMaxFailuresPercentage
    Ranged,         \* UseRangedLoop
    Sleepers,       \* nodes whose progress may get older than MaxInactiveTimeFrame
    Flaky,          \* whether a read of a segment may fail
    MaxRepairs      \* bound: segments that are repaired or deleted

None == "none"

ASSUME GracefulExitAssumption ==
    /\ InitialPieces \in [Segments -> [Numbers -> Nodes \union {None}]]
    /\ \A s \in Segments, k, l \in Numbers :
          InitialPieces[s][k] = InitialPieces[s][l] => k = l \/ InitialPieces[s][k] = None
    /\ Lost \subseteq {p \in Piece : InitialPieces[p[1]][p[2]] \in Exiting}
    /\ Optimal \in [Segments -> Nat]
    /\ {MaxFailures, MaxSends, MaxPercentage, MaxRepairs} \subseteq Nat
    /\ MaxFailures > 0
    /\ {Ranged, Flaky} \subseteq BOOLEAN
    /\ Sleepers \subseteq Exiting
    /\ None \notin Nodes

VARIABLES
    pieces,     \* metabase: who holds the pieces of a segment
    status,     \* overlay: the exit status of a node
    queue,      \* graceful_exit_segment_transfer_queue, of a node
    progress,   \* graceful_exit_progress, of a node
    dormant,    \* nodes whose progress is older than MaxInactiveTimeFrame
    session,    \* Endpoint.Process, of a node
    sender,
    receiver,
    pending,    \* PendingMap: the new nodes of the pieces that were sent
    loop,       \* Chore or Observer
    repairs,
    exhausted   \* pieces of a node that were given up

sessionVars == <<session, sender, receiver, pending>>
tables == <<pieces, status, queue, progress, dormant>>
vars == <<workerVars, tables, sessionVars, loop, repairs, exhausted>>

Held(segment) == {segment[k] : k \in Numbers} \ {None}
Holders(s) == Held(pieces[s])
Exists(s) == Holders(s) # {}
HoldsPiece(n, p) == pieces[p[1]][p[2]] = n


\* What the two ends of a session are doing.
NotSending == [at |-> "idle", batch |-> <<>>, piece |-> None, to |-> None,
               seen |-> <<>>]
NotReceiving == [at |-> "idle", type |-> None, piece |-> None, seen |-> <<>>]
NoExit == [initiated |-> FALSE, looped |-> FALSE, finished |-> FALSE,
           success |-> FALSE, disqualified |-> FALSE]
NotLooping == [at |-> "idle", nodes |-> {}, todo |-> {}, buffer |-> {}]

TypeOK ==
    /\ pieces \in [Segments -> [Numbers -> Nodes \union {None}]]
    /\ status \in [Exiting -> [initiated : BOOLEAN, looped : BOOLEAN, finished : BOOLEAN,
                               success : BOOLEAN, disqualified : BOOLEAN]]
    /\ \A n \in Exiting :
          /\ DOMAIN queue[n] \subseteq Piece
          /\ \A p \in DOMAIN queue[n] :
                /\ queue[n][p].failed \in 0 .. MaxFailures
                /\ queue[n][p].sent \in 0 .. MaxSends
          /\ DOMAIN pending[n] \subseteq Piece
          /\ session[n] = "closed" => /\ sender[n] = NotSending
                                      /\ receiver[n] = NotReceiving
                                      /\ pending[n] = <<>>
    /\ blobs \in [Nodes -> SUBSET Piece]

Init ==
    /\ faults = 0
    /\ blobs = [n \in Nodes |-> {p \in Piece : InitialPieces[p[1]][p[2]] = n}
                                 \ Lost]
    /\ record = [n \in Exiting |-> "exiting"]
    /\ worker = [n \in Exiting |-> "idle"]
    /\ jobs = [n \in Exiting |-> {}]
    /\ linked = [n \in Exiting |-> FALSE]
    /\ toNode = [n \in Exiting |-> <<>>]
    /\ toSat = [n \in Exiting |-> <<>>]
    /\ pieces = InitialPieces
    /\ status = [n \in Exiting |-> NoExit]
    /\ queue = [n \in Exiting |-> <<>>]
    /\ progress = [n \in Exiting |-> [row |-> FALSE, moved |-> 0, failed |-> 0]]
    /\ dormant = {}
    /\ session = [n \in Exiting |-> "closed"]
    /\ sender = [n \in Exiting |-> NotSending]
    /\ receiver = [n \in Exiting |-> NotReceiving]
    /\ pending = [n \in Exiting |-> <<>>]
    /\ loop = NotLooping
    /\ repairs = 0
    /\ exhausted = [n \in Exiting |-> {}]
-----------------------------------------------------------------------------
\* Statements.

Without(f, x) == [y \in DOMAIN f \ {x} |-> f[y]]
With(f, x, v) == [y \in DOMAIN f \union {x} |-> IF y = x THEN v ELSE f[y]]

\* Mutant: exit_success is left alone.
UpdatedTime(st, time, success) == [st EXCEPT ![time] = TRUE]

\* UpdateExitStatus of a node sets one time, and exit_success in any case.
Updated(st, time, success) == [st EXCEPT ![time] = TRUE, !.success = success]

\* UpdatePiecesCheckDuplicates, of the segment of p as it was read.
Moved(p, to) == [pieces EXCEPT ![p[1]][p[2]] = to]
Unchanged(p, seen) == pieces[p[1]] = seen

IncrementProgress(n, moved, failed) ==
    /\ progress' = [progress EXCEPT ![n] = [row |-> TRUE,
                                            moved |-> @.moved + moved,
                                            failed |-> @.failed + failed]]
    /\ dormant' = dormant \ {n}

DeleteTransferQueueItem(n, p) ==
    queue' = [queue EXCEPT ![n] = Without(@, p)]
DeleteTransferQueueItems(n) == queue' = [queue EXCEPT ![n] = <<>>]

\* Stream.Send does not fail before the stream is known to be broken.
SendMessages(n, ms) ==
    toNode' = IF linked[n] THEN [toNode EXCEPT ![n] = @ \o ms] ELSE toNode
Send(n, m) == SendMessages(n, <<m>>)

\* Process returns, after it has sent ms.  Nothing more is received.
ReturnWith(n, ms) ==
    /\ SendMessages(n, ms)
    /\ session' = [session EXCEPT ![n] = "closed"]
    /\ sender' = [sender EXCEPT ![n] = NotSending]
    /\ receiver' = [receiver EXCEPT ![n] = NotReceiving]
    /\ pending' = [pending EXCEPT ![n] = <<>>]
    /\ linked' = [linked EXCEPT ![n] = FALSE]
    /\ toSat' = [toSat EXCEPT ![n] = <<>>]
Return(n) == ReturnWith(n, <<>>)

Bare(type) == Message(type, None, None)
Finished(success) == Bare(IF success THEN "completed" ELSE "failed")

streamVars == <<linked, toNode, toSat>>
OfNode == <<faults, blobs, record, worker, jobs>>
OfLoop == <<loop, repairs>>
-----------------------------------------------------------------------------
\* A session.

\* The chore of the node starts a worker, and Process checks the status of
\* the node.  There is at most one session of a node.
Connect(n) ==
    /\ worker[n] = "idle" /\ record[n] = "exiting"
    /\ session[n] = "closed"
    /\ worker' = [worker EXCEPT ![n] = "running"]
    /\ toSat' = [toSat EXCEPT ![n] = <<>>]
    /\ LET st == status[n]
           Opened(as) == /\ session' = [session EXCEPT ![n] = as]
                         /\ linked' = [linked EXCEPT ![n] = TRUE]
                         /\ toNode' = [toNode EXCEPT ![n] = <<>>]
           Answered(m) == /\ toNode' = [toNode EXCEPT ![n] = <<m>>]
                          /\ UNCHANGED <<sessionVars, linked>>
       IN \/ /\ st.disqualified
             /\ status' = [status EXCEPT ![n] = Updated(st, "finished", FALSE)]
             /\ DeleteTransferQueueItems(n)
             /\ Answered(Bare("refused"))
          \/ /\ ~st.disqualified /\ st.finished
             /\ status' = [status EXCEPT ![n].disqualified = ~st.success]
             /\ Answered(Finished(st.success))
             /\ UNCHANGED queue
          \/ /\ ~st.disqualified /\ ~st.initiated
             /\ status' = [status EXCEPT ![n] = Updated(st, "initiated", FALSE)]
             /\ Opened("initiated")
             /\ UNCHANGED <<queue, sender, receiver, pending>>
          \/ /\ ~st.disqualified /\ st.initiated /\ ~st.finished
             /\ IF st.looped
                THEN /\ Opened("open")
                     /\ sender' = [sender EXCEPT ![n].at = "list"]
                     /\ receiver' = [receiver EXCEPT ![n].at = "wait"]
                     /\ UNCHANGED pending
                ELSE Answered(Bare("not ready"))
             /\ UNCHANGED <<status, queue>>
    /\ UNCHANGED <<faults, blobs, record, jobs, pieces, progress, dormant,
                   OfLoop, exhausted>>

\* checkExitStatus has initiated the exit; now the row of the progress.
FirstProgress(n) ==
    /\ session[n] = "initiated"
    /\ IncrementProgress(n, 0, 0)
    /\ ReturnWith(n, <<Bare("not ready")>>)
    /\ UNCHANGED <<OfNode, pieces, status, queue, OfLoop, exhausted>>

\* The satellite stops, or the stream breaks and both ends notice.
SessionFails(n) ==
    /\ session[n] # "closed"
    /\ Fault
    /\ Return(n)
    /\ UNCHANGED <<blobs, record, worker, jobs, tables, OfLoop, exhausted>>

\* The node's end is gone: Recv and Send give an error.
SessionNotices(n) ==
    /\ session[n] # "closed"
    /\ ~linked[n]
    /\ Return(n)
    /\ UNCHANGED <<OfNode, tables, OfLoop, exhausted>>

\* The node does not answer for RecvTimeout.  Transfers are shorter than that.
RecvTimeout(n) ==
    /\ receiver[n].at = "recv"
    /\ toSat[n] = <<>> /\ toNode[n] = <<>> /\ jobs[n] = {}
    /\ Return(n)
    /\ UNCHANGED <<OfNode, tables, OfLoop, exhausted>>
-----------------------------------------------------------------------------
\* The sender, and processIncomplete.

\* Mutant: pieces that failed are not sent again.
IncompleteFresh(items) == {p \in DOMAIN items : items[p].failed = 0}

\* GetIncompleteNotFailed, or else GetIncompleteFailed.
Incomplete(items) ==
    LET fresh == {p \in DOMAIN items : items[p].failed = 0}
        again == {p \in DOMAIN items : items[p].failed < MaxFailures}
    IN IF fresh # {} THEN fresh ELSE again

List(n) ==
    /\ sender[n].at = "list"
    /\ pending[n] = <<>>
    /\ LET ps == Incomplete(queue[n])
       IN sender' = [sender EXCEPT
             ![n].at = IF ps = {} THEN "done" ELSE "batch",
             ![n].batch = [p \in ps |-> queue[n][p]]]
    /\ UNCHANGED <<OfNode, streamVars, tables, session, receiver, pending,
                   OfLoop, exhausted>>

At(n, at) == sender[n].at = at
Pick(n, p, at) == sender' = [sender EXCEPT ![n].at = at, ![n].piece = p]
\* Piece p of the batch is done with.
NextOf(n, p) ==
    sender' = [sender EXCEPT
       ![n] = [NotSending EXCEPT !.batch = Without(sender[n].batch, p),
                                 !.at = IF DOMAIN sender[n].batch = {p}
                                        THEN "list" ELSE "batch"]]

Incoming(n, p) == At(n, "batch") /\ p \in DOMAIN sender[n].batch

\* Mutant: one order limit too many.
UsableOnceMore(n, p) == sender[n].batch[p].sent <= MaxSends

Usable(n, p) == sender[n].batch[p].sent < MaxSends

\* The order limits of the piece are used up.
GiveUp(n, p) ==
    /\ Incoming(n, p) /\ ~Usable(n, p)
    /\ IncrementProgress(n, 0, 1)
    /\ exhausted' = [exhausted EXCEPT ![n] = @ \union {p}]
    /\ Pick(n, p, "discard")
    /\ UNCHANGED <<OfNode, streamVars, pieces, status, queue, session,
                   receiver, pending, OfLoop>>

\* getValidSegment gives an error: the segment is gone, or was not read.
InvalidSegment(n, p) ==
    /\ Incoming(n, p) /\ Usable(n, p)
    /\ ~Exists(p[1]) \/ Flaky
    /\ Pick(n, p, "discard")
    /\ UNCHANGED <<OfNode, streamVars, tables, session, receiver, pending,
                   OfLoop, exhausted>>

Discard(n) ==
    /\ At(n, "discard")
    /\ DeleteTransferQueueItem(n, sender[n].piece)
    /\ NextOf(n, sender[n].piece)
    /\ UNCHANGED <<OfNode, streamVars, pieces, status, progress, dormant,
                   session, receiver, pending, OfLoop, exhausted>>

\* Mutant: the item stays in the queue.
PieceGoneKept(n, p) ==
    /\ Incoming(n, p) /\ Usable(n, p)
    /\ Exists(p[1]) /\ ~HoldsPiece(n, p)
    /\ Return(n)
    /\ UNCHANGED <<OfNode, tables, OfLoop, exhausted>>

\* getNodePiece: the node no longer has the piece.  The session ends.
PieceGone(n, p) ==
    /\ Incoming(n, p) /\ Usable(n, p)
    /\ Exists(p[1]) /\ ~HoldsPiece(n, p)
    /\ DeleteTransferQueueItem(n, p)
    /\ Return(n)
    /\ UNCHANGED <<OfNode, pieces, status, progress, dormant, OfLoop, exhausted>>

Surplus(s) == Cardinality(Holders(s)) > Optimal[s]

\* Above the optimal threshold the piece is not needed.
ReadSurplus(n, p) ==
    /\ Incoming(n, p) /\ Usable(n, p)
    /\ HoldsPiece(n, p) /\ Surplus(p[1])
    /\ sender' = [sender EXCEPT ![n].at = "trim", ![n].piece = p,
                                ![n].seen = pieces[p[1]]]
    /\ UNCHANGED <<OfNode, streamVars, tables, session, receiver, pending,
                   OfLoop, exhausted>>

Trim(n) ==
    /\ At(n, "trim")
    /\ LET p == sender[n].piece
       IN IF Unchanged(p, sender[n].seen)
          THEN /\ pieces' = Moved(p, None)
               /\ sender' = [sender EXCEPT ![n].at = "discard"]
               /\ UNCHANGED <<streamVars, session, receiver, pending>>
          ELSE Return(n) /\ UNCHANGED pieces
    /\ UNCHANGED <<OfNode, status, queue, progress, dormant, OfLoop, exhausted>>

\* FindStorageNodesForGracefulExit; nodes that exit are not chosen.
Replacements(s) == (Nodes \ Exiting) \ Holders(s)

SendTransfer(n, p) ==
    /\ Incoming(n, p) /\ Usable(n, p)
    /\ HoldsPiece(n, p) /\ ~Surplus(p[1])
    /\ \/ \E x \in Replacements(p[1]) :
             /\ Send(n, Message("transfer", p, x))
             /\ sender' = [sender EXCEPT ![n].at = "count", ![n].piece = p,
                                         ![n].to = x]
             /\ UNCHANGED <<linked, toSat, session, receiver, pending>>
       \/ Replacements(p[1]) = {} /\ Return(n)
    /\ UNCHANGED <<OfNode, tables, OfLoop, exhausted>>

\* IncrementOrderLimitSendCount.
CountSend(n) ==
    /\ At(n, "count")
    /\ LET p == sender[n].piece
       IN queue' = IF p \in DOMAIN queue[n]
                   THEN [queue EXCEPT ![n][p].sent = @ + 1] ELSE queue
    /\ sender' = [sender EXCEPT ![n].at = "put"]
    /\ UNCHANGED <<OfNode, streamVars, pieces, status, progress, dormant,
                   session, receiver, pending, OfLoop, exhausted>>

\* PendingMap.Put.
Put(n) ==
    /\ At(n, "put")
    /\ pending' = [pending EXCEPT ![n] = With(@, sender[n].piece, sender[n].to)]
    /\ NextOf(n, sender[n].piece)
    /\ UNCHANGED <<OfNode, streamVars, tables, session, receiver, OfLoop,
                   exhausted>>
-----------------------------------------------------------------------------
\* The receiver.

Rcv(n, at) == receiver[n].at = at
Goto(n, at) == receiver' = [receiver EXCEPT ![n].at = at]
Back(n) == receiver' = [receiver EXCEPT ![n] = [NotReceiving EXCEPT !.at = "wait"]]

\* The promise of PendingMap: there is work, or the sender is done.
Wait(n) ==
    /\ Rcv(n, "wait")
    /\ IF pending[n] # <<>> THEN Goto(n, "recv")
       ELSE sender[n].at = "done" /\ Goto(n, "judge")
    /\ UNCHANGED <<OfNode, streamVars, tables, session, sender, pending, OfLoop,
                   exhausted>>

\* Recv.  The piece of an answer is looked up in the pending map: a failure of
\* another piece is skipped, a success is an error.
Recv(n) ==
    /\ Rcv(n, "recv")
    /\ toSat[n] # <<>>
    /\ LET m == Head(toSat[n])
           known == m.piece \in DOMAIN pending[n]
       IN \/ /\ known
             /\ receiver' = [receiver EXCEPT
                   ![n] = [NotReceiving EXCEPT
                              !.at = IF m.type = "invalid" THEN "condemn"
                                     ELSE "read",
                              !.type = m.type, !.piece = m.piece]]
             /\ toSat' = [toSat EXCEPT ![n] = Tail(@)]
             /\ UNCHANGED <<linked, toNode, session, sender, pending>>
          \/ /\ ~known /\ m.type \in {"failed", "not found"}
             /\ Back(n)
             /\ toSat' = [toSat EXCEPT ![n] = Tail(@)]
             /\ UNCHANGED <<linked, toNode, session, sender, pending>>
          \/ /\ ~known /\ m.type \in {"succeeded", "invalid"}
             /\ Return(n)
    /\ UNCHANGED <<OfNode, tables, OfLoop, exhausted>>

RPiece(n) == receiver[n].piece
Forgotten(n) == pending' = [pending EXCEPT ![n] = Without(@, RPiece(n))]

\* Mutant: UpdatePiecesCheckDuplicates does not check duplicates.
HolderUnchecked(n, p) == FALSE

AlreadyHolder(n, p) == pending[n][p] \in Holders(p[1])

\* handleSucceeded: the item and the segment are read.
ReadSucceeded(n) ==
    /\ Rcv(n, "read") /\ receiver[n].type = "succeeded"
    /\ LET p == RPiece(n)
       IN \/ /\ p \notin DOMAIN queue[n] \/ ~HoldsPiece(n, p)
             /\ Return(n)
          \/ /\ p \in DOMAIN queue[n] /\ HoldsPiece(n, p)
             /\ IF AlreadyHolder(n, p)
                THEN Forgotten(n) /\ Back(n)    \* ErrNodeAlreadyExists
                ELSE /\ receiver' = [receiver EXCEPT ![n].at = "update",
                                                     ![n].seen = pieces[p[1]]]
                     /\ UNCHANGED pending
             /\ UNCHANGED <<streamVars, session, sender>>
    /\ UNCHANGED <<OfNode, tables, OfLoop, exhausted>>

\* handleFailed, TransferFailed_NOT_FOUND.
ReadNotFound(n) ==
    /\ Rcv(n, "read") /\ receiver[n].type = "not found"
    /\ LET p == RPiece(n)
       IN \/ /\ p \notin DOMAIN queue[n] \/ ~Exists(p[1])
             /\ Return(n)
          \/ /\ p \in DOMAIN queue[n] /\ Exists(p[1])
             /\ IF HoldsPiece(n, p)
                THEN receiver' = [receiver EXCEPT ![n].at = "update",
                                                  ![n].seen = pieces[p[1]]]
                ELSE Goto(n, "dequeue")
             /\ UNCHANGED <<streamVars, session, sender, pending>>
    /\ UNCHANGED <<OfNode, tables, OfLoop, exhausted>>

\* handleFailed, any other error.
ReadFailed(n) ==
    /\ Rcv(n, "read") /\ receiver[n].type = "failed"
    /\ LET p == RPiece(n)
       IN IF p \in DOMAIN queue[n]
          THEN LET count == queue[n][p].failed + 1
               IN /\ queue' = [queue EXCEPT ![n][p].failed = count]
                  /\ Goto(n, IF count = MaxFailures THEN "progress" ELSE "forget")
                  /\ exhausted' = IF count < MaxFailures THEN exhausted
                                  ELSE [exhausted EXCEPT ![n] = @ \union {p}]
                  /\ UNCHANGED <<streamVars, session, sender, pending>>
          ELSE Return(n) /\ UNCHANGED <<queue, exhausted>>
    /\ UNCHANGED <<OfNode, pieces, status, progress, dormant, OfLoop>>

\* UpdateSegmentPieces replaces the pieces that were read.
UpdateSegment(n) ==
    /\ Rcv(n, "update")
    /\ LET p == RPiece(n)
       IN IF Unchanged(p, receiver[n].seen)
          THEN /\ pieces' = [pieces EXCEPT ![p[1]] =
                    [receiver[n].seen EXCEPT ![p[2]] =
                       IF receiver[n].type = "succeeded" THEN pending[n][p]
                       ELSE None]]
               /\ receiver' = [receiver EXCEPT ![n].at = "progress",
                                               ![n].seen = <<>>]
               /\ UNCHANGED <<streamVars, session, sender, pending>>
          ELSE Return(n) /\ UNCHANGED pieces
    /\ UNCHANGED <<OfNode, status, queue, progress, dormant, OfLoop, exhausted>>

CountProgress(n) ==
    /\ Rcv(n, "progress")
    /\ LET succeeded == receiver[n].type = "succeeded"
           p == RPiece(n)
           again == p \in DOMAIN queue[n] /\ queue[n][p].failed >= MaxFailures
       IN IncrementProgress(n, IF succeeded THEN 1 ELSE 0,
                            IF ~succeeded THEN 1 ELSE IF again THEN -1 ELSE 0)
    /\ Goto(n, IF receiver[n].type = "failed" THEN "forget" ELSE "dequeue")
    /\ UNCHANGED <<OfNode, streamVars, pieces, status, queue, session, sender,
                   pending, OfLoop, exhausted>>

Dequeue(n) ==
    /\ Rcv(n, "dequeue")
    /\ DeleteTransferQueueItem(n, RPiece(n))
    /\ Goto(n, "forget")
    /\ UNCHANGED <<OfNode, streamVars, pieces, status, progress, dormant,
                   session, sender, pending, OfLoop, exhausted>>

\* Mutant: whatever the answer was.
DeletableAny(n) == TRUE

Deletable(n) == receiver[n].type = "succeeded"

\* The piece leaves the pending map, and a moved one may be deleted.
Forget(n) ==
    /\ Rcv(n, "forget")
    /\ Forgotten(n)
    /\ IF Deletable(n)
       THEN Send(n, Message("delete", RPiece(n), None))
       ELSE UNCHANGED toNode
    /\ Back(n)
    /\ UNCHANGED <<OfNode, linked, toSat, tables, session, sender, OfLoop,
                   exhausted>>
-----------------------------------------------------------------------------
\* How an exit ends.

\* handleDisqualifiedNode, and generateExitStatusRequest.
Failed(pr) == /\ pr.moved + pr.failed > 0
              /\ pr.failed * 100 >= MaxPercentage * (pr.moved + pr.failed)

Judge(n) ==
    /\ Rcv(n, "judge")
    /\ \/ /\ status[n].disqualified
          /\ status' = [status EXCEPT ![n] = Updated(@, "finished", FALSE)]
          /\ DeleteTransferQueueItems(n)
          /\ ReturnWith(n, <<Bare("refused")>>)
       \/ /\ ~status[n].disqualified /\ ~progress[n].row
          /\ Return(n)
          /\ UNCHANGED <<status, queue>>
       \/ /\ ~status[n].disqualified /\ progress[n].row
          /\ receiver' = [receiver EXCEPT
                ![n].type = IF Failed(progress[n]) THEN "failed" ELSE "completed",
                ![n].at = IF Failed(progress[n]) THEN "disqualify" ELSE "record"]
          /\ UNCHANGED <<streamVars, session, sender, pending, status, queue>>
    /\ UNCHANGED <<OfNode, pieces, progress, dormant, OfLoop, exhausted>>

\* An answer that does not pass the validation fails the exit.
Condemn(n) ==
    /\ Rcv(n, "condemn")
    /\ IncrementProgress(n, 0, 1)
    /\ Goto(n, "disqualify")
    /\ UNCHANGED <<OfNode, streamVars, pieces, status, queue, session, sender,
                   pending, OfLoop, exhausted>>

\* getFinishedMessage.
DisqualifyNode(n) ==
    /\ Rcv(n, "disqualify")
    /\ status' = [status EXCEPT ![n].disqualified = TRUE]
    /\ Goto(n, "record")
    /\ UNCHANGED <<OfNode, streamVars, pieces, queue, progress, dormant, session,
                   sender, pending, OfLoop, exhausted>>

Verdict(n) == receiver[n].type = "completed"

RecordOutcome(n) ==
    /\ Rcv(n, "record")
    /\ status' = [status EXCEPT ![n] = Updated(@, "finished", Verdict(n))]
    /\ Goto(n, "announce")
    /\ UNCHANGED <<OfNode, streamVars, pieces, queue, progress, dormant, session,
                   sender, pending, OfLoop, exhausted>>

Announce(n) ==
    /\ Rcv(n, "announce")
    /\ Send(n, Finished(Verdict(n)))
    /\ Goto(n, "clear")
    /\ UNCHANGED <<OfNode, linked, toSat, tables, session, sender, pending, OfLoop,
                   exhausted>>

\* After an invalid answer the loop of Process goes on.
ClearQueue(n) ==
    /\ Rcv(n, "clear")
    /\ DeleteTransferQueueItems(n)
    /\ IF receiver[n].type = "invalid"
       THEN Back(n) /\ UNCHANGED <<streamVars, session, sender, pending>>
       ELSE Return(n)
    /\ UNCHANGED <<OfNode, pieces, status, progress, dormant, OfLoop, exhausted>>
-----------------------------------------------------------------------------
\* Chore.Run, or a cycle of the ranged loop with its Observer.

ExitingNodes == {n \in Exiting : /\ status[n].initiated
                                 /\ ~status[n].finished
                                 /\ ~status[n].disqualified}

\* Mutant: every exiting node.
UnloopedAll == ExitingNodes

Unlooped == {n \in ExitingNodes : ~status[n].looped}

\* Nodes that were inactive for too long have failed.
FailInactive(ns) ==
    /\ status' = [n \in Exiting |-> IF n \in ns
                                    THEN Updated(status[n], "finished", FALSE)
                                    ELSE status[n]]
    /\ queue' = [n \in Exiting |-> IF n \in ns THEN <<>> ELSE queue[n]]

\* Observer.Start returns before it resets its fields if no node exits.
Start ==
    /\ loop.at = "idle"
    /\ ExitingNodes # {} \/ Ranged
    /\ FailInactive({n \in ExitingNodes : status[n].looped /\ n \in dormant})
    /\ loop' = [at |-> "collect", todo |-> Segments, buffer |-> {},
                nodes |-> IF ExitingNodes = {} THEN loop.nodes
                          ELSE Unlooped]
    /\ UNCHANGED <<workerVars, pieces, progress, dormant, sessionVars, repairs,
                   exhausted>>

\* PathCollector.handleRemoteSegment.
Collect(s) ==
    /\ loop.at = "collect" /\ s \in loop.todo
    /\ loop' = [loop EXCEPT
          !.todo = @ \ {s},
          !.buffer = @ \union {x \in loop.nodes \X ({s} \X Numbers) :
                                  HoldsPiece(x[1], x[2])}]
    /\ UNCHANGED <<workerVars, tables, sessionVars, repairs, exhausted>>

\* Enqueue keeps the items that are there.
Flush ==
    /\ loop.buffer # {}
    /\ queue' = [n \in Exiting |->
          LET new == {p \in Piece : <<n, p>> \in loop.buffer}
          IN [p \in DOMAIN queue[n] \union new |->
                IF p \in DOMAIN queue[n] THEN queue[n][p]
                ELSE [failed |-> 0, sent |-> 0]]]
    /\ loop' = [loop EXCEPT !.buffer = {}]
    /\ UNCHANGED <<workerVars, pieces, status, progress, dormant, sessionVars,
                   repairs, exhausted>>

\* The fields of an Observer stay.
LoopOver == loop' = [NotLooping EXCEPT !.nodes = IF Ranged THEN loop.nodes ELSE {}]

Collected == loop.todo = {} /\ loop.buffer = {}

Finish ==
    /\ loop.at = "collect" /\ Collected
    /\ status' = [n \in Exiting |-> IF n \in loop.nodes
                                    THEN Updated(status[n], "looped", FALSE)
                                    ELSE status[n]]
    /\ LoopOver
    /\ UNCHANGED <<workerVars, pieces, queue, progress, dormant, sessionVars,
                   repairs, exhausted>>

\* The loop ends with an error.
LoopFails ==
    /\ loop.at = "collect"
    /\ Fault
    /\ LoopOver
    /\ UNCHANGED <<blobs, record, worker, jobs, streamVars, tables, sessionVars,
                   repairs, exhausted>>
-----------------------------------------------------------------------------
\* Others.

\* Nothing was recorded of the exit for MaxInactiveTimeFrame.
Lapse(n) ==
    /\ n \in Sleepers \ dormant
    /\ status[n].looped /\ ~status[n].finished
    /\ dormant' = dormant \union {n}
    /\ UNCHANGED <<workerVars, pieces, status, queue, progress, sessionVars,
                   OfLoop, exhausted>>

\* A node loses a piece, and the repairer puts it to another node.
Repair(p, x) ==
    /\ repairs < MaxRepairs
    /\ pieces[p[1]][p[2]] # None
    /\ x \in Replacements(p[1])
    /\ pieces' = Moved(p, x)
    /\ blobs' = [blobs EXCEPT ![pieces[p[1]][p[2]]] = @ \ {p},
                              ![x] = @ \union {p}]
    /\ repairs' = repairs + 1
    /\ UNCHANGED <<faults, record, worker, jobs, streamVars, status, queue,
                   progress, dormant, sessionVars, loop, exhausted>>

DeleteSegment(s) ==
    /\ repairs < MaxRepairs
    /\ Exists(s)
    /\ pieces' = [pieces EXCEPT ![s] = [k \in Numbers |-> None]]
    /\ repairs' = repairs + 1
    /\ UNCHANGED <<workerVars, status, queue, progress, dormant, sessionVars,
                   loop, exhausted>>

\* Audits disqualify a node that is exiting.
AuditDisqualifies(n) ==
    /\ ~status[n].finished /\ ~status[n].disqualified
    /\ Fault
    /\ status' = [status EXCEPT ![n].disqualified = TRUE]
    /\ UNCHANGED <<blobs, record, worker, jobs, streamVars, pieces, queue,
                   progress, dormant, sessionVars, OfLoop, exhausted>>
-----------------------------------------------------------------------------
SenderStep(n) ==
    \/ List(n) \/ Discard(n) \/ Trim(n) \/ CountSend(n) \/ Put(n)
    \/ \E p \in DOMAIN sender[n].batch :
          \/ GiveUp(n, p) \/ InvalidSegment(n, p) \/ PieceGone(n, p)
          \/ ReadSurplus(n, p) \/ SendTransfer(n, p)

ReceiverStep(n) ==
    \/ Wait(n) \/ Recv(n) \/ RecvTimeout(n)
    \/ ReadSucceeded(n) \/ ReadNotFound(n) \/ ReadFailed(n)
    \/ UpdateSegment(n) \/ CountProgress(n) \/ Dequeue(n) \/ Forget(n)
    \/ Judge(n) \/ Condemn(n) \/ DisqualifyNode(n) \/ RecordOutcome(n)
    \/ Announce(n) \/ ClearQueue(n)

NodeStep(n) ==
    /\ WorkerStep(n)
    /\ UNCHANGED <<tables, sessionVars, OfLoop, exhausted>>

Next ==
    \/ \E n \in Exiting :
          \/ Connect(n) \/ FirstProgress(n) \/ SenderStep(n) \/ ReceiverStep(n)
          \/ SessionFails(n) \/ SessionNotices(n)
          \/ NodeStep(n)
          \/ NodeCrash(n) /\ UNCHANGED <<tables, sessionVars, OfLoop, exhausted>>
          \/ Lapse(n) \/ AuditDisqualifies(n)
    \/ Start \/ Flush \/ Finish \/ LoopFails
    \/ \E s \in Segments : Collect(s) \/ DeleteSegment(s)
    \/ \E p \in Piece, x \in Nodes : Repair(p, x)

Spec == Init /\ [][Next]_vars

\* An answer arrives before the piece is in the pending map.
Outrun(n) == /\ Recv(n)
             /\ Head(toSat[n]).piece \notin DOMAIN pending[n]

\* Everything goes on: chores and loops are cycles, the worker's chore starts
\* it again.  An answer comes after an upload to another node, and outruns two
\* steps of the satellite finitely often.  Nothing makes a node inactive.
Fairness ==
    /\ \A n \in Exiting :
          /\ WF_vars(Connect(n)) /\ WF_vars(FirstProgress(n))
          /\ WF_vars(SenderStep(n)) /\ WF_vars(ReceiverStep(n))
          /\ WF_vars(SessionNotices(n)) /\ WF_vars(NodeStep(n))
          /\ <>[][~Outrun(n)]_vars
    /\ WF_vars(Start) /\ WF_vars(Flush) /\ WF_vars(Finish)
    /\ \A s \in Segments : WF_vars(Collect(s))

FairSpec == Spec /\ Fairness
-----------------------------------------------------------------------------
\* Properties.

\* "The satellite should respond with an ExitCompleted message when all pieces
\* have finished processing" (docs/blueprints/storagenode-graceful-exit): an
\* exit succeeds only after every piece that the node still holds was given up,
\* and each other one was moved, trimmed or found to be gone.
NothingForgotten ==
    \A n \in Exiting : status[n].success =>
       \A p \in Piece : HoldsPiece(n, p) => p \in exhausted[n]

\* A piece that the satellite expects at an exiting node is there, unless the
\* node had lost it before, until its exit has succeeded (handleSucceeded
\* changes the segment before the node is told to delete).
KeptUntilMoved ==
    \A n \in Exiting, p \in Piece \ Lost :
       HoldsPiece(n, p) => p \in blobs[n] \/ status[n].success

\* Every other holder of a piece stores it, and holds no other piece of the
\* segment (updateSegment, against repairs and other exits).
HoldersStore ==
    \A s \in Segments :
       /\ \A k \in Numbers : pieces[s][k] \in Nodes \ Exiting
                                => <<s, k>> \in blobs[pieces[s][k]]
       /\ \A k, l \in Numbers : pieces[s][k] = pieces[s][l]
                                   => k = l \/ pieces[s][k] = None

\* What the node has recorded is what the satellite has recorded.
OutcomesAgree ==
    \A n \in Exiting :
       /\ record[n] = "completed" => status[n].finished /\ status[n].success
       /\ record[n] = "failed" => status[n].finished /\ ~status[n].success

\* The outcome of an exit is decided once.  The exception is a node that is
\* disqualified between the check of a session and its record of the success,
\* which the next session of the node takes back (handleDisqualifiedNode).
OutcomeKept ==
    [][\A n \in Exiting : status[n].finished =>
          /\ status'[n].finished
          /\ status'[n].success # status[n].success
                => status[n].success /\ status[n].disqualified]_vars

\* An exit ends, also for the node, whatever of it is lost or fails and without
\* the inactivity check: a node that is exiting learns a result and stops
\* (Process and Worker.Run).  The exception is an exit whose first session is
\* cut before it has written a row of progress: only inactivity ends that.
ExitEnds ==
    \A n \in Exiting :
       \/ []~progress[n].row
       \/ <>[](record[n] # "exiting" /\ session[n] = "closed" /\ worker[n] = "idle")

\* "Finish marks that the exit loop has been completed for newly exiting nodes
\* that were processed in this loop cycle" (observer.go).
OnlyNewlyExiting ==
    [][Finish => \A n \in loop.nodes : ~status[n].looped]_vars
=============================================================================
