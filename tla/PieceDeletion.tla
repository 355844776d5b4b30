--------------------------- MODULE PieceDeletion ---------------------------
(***************************************************************************)
(* Deletion of pieces from storage nodes (satellite/metainfo/              *)
(* piecedeletion).  A call of Delete makes one job for each node, hands    *)
(* the jobs to the combiner and waits until enough of them have succeeded. *)
(* The combiner has a chain of workers for each node: a job goes to the    *)
(* queue of the last worker or, when that queue takes no more, to a new    *)
(* worker that waits for the one before it.  A worker that has a slot of   *)
(* LimitedHandler dials the node and sends the jobs in batches while new   *)
(* ones are still being pushed to its queue.                               *)
(*                                                                         *)
(* A job is named by its call, since a call has one job for each node.     *)
(* Steps are what a mutex makes atomic (Enqueue, TryPush, PopAll), a       *)
(* blocking operation, or a remote call.  Finished workers are removed     *)
(* from the head of a chain, except the last one, which workerByID keeps.  *)
(***************************************************************************)
EXTENDS Integers, FiniteSets, Sequences, SequencesExt, Functions

CONSTANTS
    Calls,                \* calls of Delete that may be there at a time
    Nodes,
    Requests,             \* [Calls -> sets of nodes it may be for]
    Size,                 \* [Calls -> pieces of each of its jobs]
    MaxPiecesPerBatch,
    MaxPiecesPerRequest,
    MaxConcurrency,       \* slots of LimitedHandler
    MaxConcurrentPieces,
    SuccessPercent,       \* DeleteSuccessThreshold
    MaxWorkers,           \* bound: workers of a node that are there at a time
    Stops                 \* the satellite may stop

ASSUME DeletionAssumption ==
    /\ Requests \in [Calls -> SUBSET ((SUBSET Nodes) \ {{}})]
    /\ Size \in [Calls -> Nat \ {0}]
    /\ {MaxPiecesPerBatch, MaxPiecesPerRequest, MaxConcurrency, MaxConcurrentPieces,
        MaxWorkers}
          \subseteq Nat \ {0}
    /\ SuccessPercent \in 1..100
    /\ Stops \in BOOLEAN

VARIABLES
    call,       \* where a call is
    job,        \* job[c][n]: the job of call c for node n
    chain,      \* workers of a node, the last one is workerByID
    failed,     \* nodes in dialFailed for less than FailThreshold
    stopping,   \* the context of the combiner is canceled
    closed,     \* workers.Close was called
    twice       \* a job was resolved that had been resolved before

vars == <<call, job, chain, failed, stopping, closed, twice>>

-----------------------------------------------------------------------------
(* Calls of Delete *)

NodesOf(c) == {n \in Nodes : job[c][n] # "none"}
Resolved(c, n) == job[c][n] \in {"success", "failure"}

\* What the call takes of concurrentRequests.
Weight(c, N) ==
    IF Size[c] * Cardinality(N) > MaxConcurrentPieces THEN MaxConcurrentPieces
    ELSE Size[c] * Cardinality(N)

HeldBy(S) == FoldFunction(LAMBDA x, y : x + y, 0, [c \in S |-> Weight(c, NodesOf(c))])

\* Delete is called for the nodes N, once the jobs of the last call of that name
\* are through.
Begin(c, N) ==
    /\ call[c] = "idle" /\ \A n \in Nodes : job[c][n] # "queued"
    /\ ~stopping            \* bound: calls that are there go on while it stops
    /\ call' = [call EXCEPT ![c] = "acquiring"]
    /\ job' = [job EXCEPT ![c] = [n \in Nodes |-> IF n \in N THEN "new" ELSE "none"]]
    /\ UNCHANGED <<chain, failed, stopping, closed, twice>>

\* concurrentRequests.Acquire
Acquire(c) ==
    /\ call[c] = "acquiring"
    /\ HeldBy({d \in Calls : call[d] \in {"enqueuing", "waiting"}})
          + Weight(c, NodesOf(c)) <= MaxConcurrentPieces
    /\ call' = [call EXCEPT ![c] = "enqueuing"]
    /\ UNCHANGED <<job, chain, failed, stopping, closed, twice>>

\* SuccessThreshold: enough jobs have succeeded, or none is left.
ThresholdReached(c) ==
    \/ 100 * Cardinality({n \in Nodes : job[c][n] = "success"})
          >= SuccessPercent * Cardinality(NodesOf(c))
    \/ \A n \in NodesOf(c) : Resolved(c, n)

\* The threshold is reached, or the caller gives up and leaves its jobs behind; a
\* call that gives up Acquire or whose GetNodes fails has none.
Return(c) ==
    /\ \/ call[c] \in {"acquiring", "waiting"}
       \/ call[c] = "enqueuing" /\ \A n \in NodesOf(c) : job[c][n] = "new"
    /\ call' = [call EXCEPT ![c] = "idle"]
    /\ job' = [job EXCEPT ![c] = [n \in Nodes |->
                  IF job[c][n] = "queued" THEN "queued" ELSE "none"]]
    /\ UNCHANGED <<chain, failed, stopping, closed, twice>>

WaitEnds(c) == call[c] = "waiting" /\ ThresholdReached(c) /\ Return(c)

\* The promise of a call that has returned is of no interest any more.
Resolve(n, jobs, result) ==
    /\ job' = [c \in Calls |-> [m \in Nodes |->
                  IF m # n \/ c \notin ToSet(jobs) THEN job[c][m]
                  ELSE IF call[c] = "idle" THEN "none" ELSE result]]
    /\ twice' = (twice \/ \E c \in ToSet(jobs) : job[c][n] # "queued")

-----------------------------------------------------------------------------
(* Queues and workers *)

\* Mutant: a queue takes jobs for as long as its worker comes back for more.
FullNever(count) == FALSE

Full(count) == count >= MaxPiecesPerBatch

\* Mutant: TryPush looks at the capacity only.
AcceptsUntilFull(w) == ~Full(w.count)

Accepts(w) == ~w.done

Push(w, c) ==
    [w EXCEPT !.count = @ + Size[c], !.done = Full(w.count + Size[c]),
              !.queue = Append(@, c)]

NewWorker(waits) ==
    [pc |-> "waiting", waits |-> waits, queue |-> <<>>, count |-> 0, done |-> FALSE,
     jobs |-> <<>>]

\* What is left of workers that could not be started; one stands for all.
Unstarted == [NewWorker(TRUE) EXCEPT !.pc = "unstarted", !.done = TRUE]

LastOf(n) == Last(chain[n])

\* Enqueue, in any order of the nodes.  When the worker cannot be started the job
\* fails, and done of the worker is never closed.
Enqueue(c, n) ==
    /\ call[c] = "enqueuing" /\ job[c][n] = "new"
    /\ call' = [call EXCEPT ![c] =
                   IF \E m \in Nodes \ {n} : job[c][m] = "new" THEN @ ELSE "waiting"]
    /\ IF chain[n] # <<>> /\ Accepts(LastOf(n))
       THEN /\ chain' = [chain EXCEPT ![n][Len(chain[n])] = Push(@, c)]
            /\ job' = [job EXCEPT ![c][n] = "queued"]
       ELSE IF ~closed
       THEN /\ Len(chain[n]) < MaxWorkers
            /\ chain' = [chain EXCEPT ![n] = Append(@, Push(NewWorker(@ # <<>>), c))]
            /\ job' = [job EXCEPT ![c][n] = "queued"]
       ELSE /\ chain' = [chain EXCEPT ![n] =
                  IF @ # <<>> /\ LastOf(n).pc = "unstarted" THEN @ ELSE Append(@, Unstarted)]
            /\ job' = [job EXCEPT ![c][n] = "failure"]
    /\ UNCHANGED <<failed, stopping, closed, twice>>

\* Workers that are done are forgotten, up to the last one.
Trim(workers) ==
    LET Kept == {i \in 1..Len(workers) : i = Len(workers) \/ workers[i].pc # "gone"}
    IN SubSeq(workers, Min(Kept), Len(workers))

SetWorker(n, i, w) == chain' = [chain EXCEPT ![n] = Trim([@ EXCEPT ![i] = w])]

\* Mutant: a worker starts without waiting for the one before it.
ReadyAtOnce(n, i) == TRUE

Ready(n, i) == i > 1 => chain[n][i - 1].pc = "gone"

\* The worker's turn has come, or it returns because the satellite stops.
Start(n, i) ==
    LET w == chain[n][i] IN
    /\ w.pc = "waiting"
    /\ \/ Ready(n, i) /\ SetWorker(n, i, [w EXCEPT !.pc = "acquiring"])
       \/ w.waits /\ stopping /\ SetWorker(n, i, [w EXCEPT !.pc = "failing"])
    /\ UNCHANGED <<call, job, failed, stopping, closed, twice>>

WorkerIndex == 1..(MaxWorkers + 1)
InHandler == {"dialing", "popping", "sending", "closing"}
Handlers == {h \in Nodes \X WorkerIndex :
                h[2] <= Len(chain[h[1]]) /\ chain[h[1]][h[2]].pc \in InHandler}

\* LimitedHandler.Handle
AcquireSlot(n, i) ==
    LET w == chain[n][i] IN
    /\ w.pc = "acquiring"
    /\ \/ Cardinality(Handlers) < MaxConcurrency
            /\ SetWorker(n, i, [w EXCEPT !.pc = "dialing"])
       \/ stopping /\ SetWorker(n, i, [w EXCEPT !.pc = "failing"])
    /\ UNCHANGED <<call, job, failed, stopping, closed, twice>>

-----------------------------------------------------------------------------
(* Dialer.Handle *)

\* recentlyFailed and dialPieceStore, which may fail.
Dial(n, i) ==
    LET w == chain[n][i] IN
    /\ w.pc = "dialing"
    /\ \/ n \in failed /\ SetWorker(n, i, [w EXCEPT !.pc = "closing"])
             /\ failed' = failed
       \/ n \notin failed /\ SetWorker(n, i, [w EXCEPT !.pc = "closing"])
             /\ failed' = failed \cup {n}
       \/ n \notin failed /\ SetWorker(n, i, [w EXCEPT !.pc = "popping"])
             /\ failed' = failed
    /\ UNCHANGED <<call, job, stopping, closed, twice>>

\* Mutant: what has been popped does not count any more.
CountAfterPopReset(w) == 0

\* count is what was ever pushed.
CountAfterPop(w) == w.count

\* ctx.Err and PopAll, which closes an empty queue; the jobs are being sent.
Pop(n, i) ==
    LET w == chain[n][i] IN
    /\ w.pc = "popping"
    /\ SetWorker(n, i,
          IF stopping THEN [w EXCEPT !.pc = "closing"]
          ELSE IF w.queue = <<>> THEN [w EXCEPT !.pc = "closing", !.done = TRUE]
          ELSE [w EXCEPT !.pc = "sending", !.jobs = w.queue, !.queue = <<>>,
                            !.count = CountAfterPop(w)])
    /\ UNCHANGED <<call, job, failed, stopping, closed, twice>>

\* batchJobs: jobs are added while the request has less than MaxPiecesPerRequest.
PiecesOf(jobs) == FoldSeq(LAMBDA c, sum : sum + Size[c], 0, jobs)
BatchLength(jobs) ==
    Min({k \in 1..Len(jobs) :
            k = Len(jobs) \/ PiecesOf(SubSeq(jobs, 1, k)) >= MaxPiecesPerRequest})
Batch(jobs) == SubSeq(jobs, 1, BatchLength(jobs))

Rest(jobs) == SubSeq(jobs, BatchLength(jobs) + 1, Len(jobs))

\* DeletePieces succeeds; what was pushed meanwhile is sent next.
RequestSucceeds(n, i) ==
    LET w == chain[n][i]
        jobs == Rest(w.jobs) \o w.queue IN
    /\ w.pc = "sending"
    /\ Resolve(n, Batch(w.jobs), "success")
    /\ SetWorker(n, i, [w EXCEPT !.pc = IF jobs = <<>> THEN "popping" ELSE "sending",
                                 !.jobs = jobs, !.queue = <<>>,
                                 !.count = CountAfterPop(w)])
    /\ UNCHANGED <<call, failed, stopping, closed>>

\* DeletePieces fails, by a timeout or on the network (then the node is marked) or
\* otherwise: all jobs at hand fail, those in the queue are tried again.
RequestFails(n, i) ==
    LET w == chain[n][i] IN
    /\ w.pc = "sending"
    /\ Resolve(n, Batch(w.jobs) \o Rest(w.jobs), "failure")
    /\ SetWorker(n, i, [w EXCEPT !.pc = "popping", !.jobs = <<>>])
    /\ failed' \in {failed, failed \cup {n}}
    /\ UNCHANGED <<call, stopping, closed>>

\* A worker that has closed done.
Ended == "gone"

\* FailPending, in Handle and in the worker: one PopAll.  An empty queue is closed,
\* the slot is released and done is closed; the count of a closed queue is never
\* read again, and is forgotten.
FailPending(n, i) ==
    LET w == chain[n][i] IN
    /\ w.pc \in {"closing", "failing"}
    /\ Resolve(n, w.queue, "failure")
    /\ SetWorker(n, i, IF w.queue # <<>> THEN [w EXCEPT !.queue = <<>>]
                       ELSE [w EXCEPT !.pc = Ended, !.done = TRUE, !.count = 0])
    /\ UNCHANGED <<call, failed, stopping, closed>>

FailThresholdPasses(n) ==
    /\ n \in failed
    /\ failed' = failed \ {n}
    /\ UNCHANGED <<call, job, chain, stopping, closed, twice>>

-----------------------------------------------------------------------------
(* Combiner.Close *)

Cancel ==
    /\ Stops /\ ~stopping
    /\ stopping' = TRUE
    /\ UNCHANGED <<call, job, chain, failed, closed, twice>>

CloseWorkers ==
    /\ stopping /\ ~closed
    /\ closed' = TRUE
    /\ UNCHANGED <<call, job, chain, failed, stopping, twice>>

-----------------------------------------------------------------------------

Init ==
    /\ call = [c \in Calls |-> "idle"]
    /\ job = [c \in Calls |-> [n \in Nodes |-> "none"]]
    /\ chain = [n \in Nodes |-> <<>>]
    /\ failed = {} /\ stopping = FALSE /\ closed = FALSE /\ twice = FALSE

Request(n, i) == RequestSucceeds(n, i) \/ RequestFails(n, i)
Worker(n, i) ==
    Start(n, i) \/ Dial(n, i) \/ Pop(n, i) \/ Request(n, i) \/ FailPending(n, i)

Next ==
    \/ \E c \in Calls :
        \/ \E N \in Requests[c] : Begin(c, N)
        \/ Acquire(c) \/ Return(c)
        \/ \E n \in Nodes : Enqueue(c, n)
    \/ \E n \in Nodes : \E i \in 1..Len(chain[n]) :
          Worker(n, i) \/ AcquireSlot(n, i)
    \/ \E n \in Nodes : FailThresholdPasses(n)
    \/ Cancel \/ CloseWorkers

Spec == Init /\ [][Next]_vars

(* Fairness.  Goroutines that are not blocked go on, a dial and a request end by
   their timeouts, and both semaphores serve their waiters in order, so that one
   that can be served again and again is served.  Callers need not give up, and
   the satellite need not stop. *)
Fairness ==
    /\ \A c \in Calls :
        /\ SF_vars(Acquire(c))
        /\ WF_vars(WaitEnds(c) \/ \E n \in Nodes : Enqueue(c, n))
    /\ \A n \in Nodes :
        /\ WF_vars(\E i \in 1..Len(chain[n]) : Worker(n, i))
        /\ SF_vars(\E i \in 1..Len(chain[n]) : AcquireSlot(n, i))

FairSpec == Spec /\ Fairness

-----------------------------------------------------------------------------
(* Properties *)

WorkerRecord ==
    [pc : InHandler \cup {"waiting", "acquiring", "failing", "gone", "unstarted"},
     waits : BOOLEAN, queue : Seq(Calls), count : Nat, done : BOOLEAN, jobs : Seq(Calls)]

\* The shape of the state.  A queue overflows its limit by one job at most.
TypeOK ==
    /\ call \in [Calls -> {"idle", "acquiring", "enqueuing", "waiting"}]
    /\ job \in [Calls -> [Nodes -> {"none", "new", "queued", "success", "failure"}]]
    /\ chain \in [Nodes -> Seq(WorkerRecord)]
    /\ \A n \in Nodes : Len(chain[n]) <= MaxWorkers + 1
        /\ \A i \in 1..Len(chain[n]) :
              chain[n][i].count = 0
              \/ \E c \in Calls : chain[n][i].count < MaxPiecesPerBatch + Size[c]
    /\ failed \subseteq Nodes
    /\ {stopping, closed, twice} \subseteq BOOLEAN

\* Every promise is resolved once, whatever fails and whenever the satellite stops.
ResolvedOnce == ~twice

\* A job that is not resolved is in the hands of a worker that is going to look at
\* it: it was not pushed to the queue of a worker that is through with its queue.
NoJobLost ==
    \A c \in Calls, n \in Nodes : job[c][n] = "queued" =>
        \E i \in 1..Len(chain[n]) :
            /\ chain[n][i].pc \notin {"gone", "unstarted"}
            /\ c \in ToSet(chain[n][i].queue) \cup ToSet(chain[n][i].jobs)

\* No job is resolved twice, and none never.
JobsResolvedOnce == ResolvedOnce /\ NoJobLost

\* Until the satellite stops, one worker of a node asks for a slot or has one:
\* workers take their turns, and a node never keeps the others out with a long chain.
OneHandlerPerNode ==
    ~stopping => \A n \in Nodes :
        Cardinality({i \in 1..Len(chain[n]) :
                        chain[n][i].pc \in InHandler \cup {"acquiring"}}) <= 1

\* Every call of Delete returns, even one that asks for more pieces than the limit,
\* and all of its jobs are resolved, though nodes fail, other nodes and other calls
\* keep the slots busy, or the satellite stops.
CallsSettle ==
    \A c \in Calls :
        call[c] # "idle" \/ (\E n \in Nodes : job[c][n] = "queued")
          ~> call[c] = "idle" /\ \A n \in Nodes : job[c][n] # "queued"

Sending(n) == \E i \in 1..Len(chain[n]) : chain[n][i].pc = "sending"

\* "don't try to send to this storage node a bit, when the deletion times out": no
\* request is begun while the node is marked as failed.
NoRequestAfterTimeout ==
    [][\A n \in Nodes : ~Sending(n) /\ Sending(n)' => n \notin failed]_vars
=============================================================================
