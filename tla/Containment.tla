---------------------------- MODULE Containment ----------------------------
(***************************************************************************)
(* Containment of storage nodes (satellite/audit).  An audit that a node   *)
(* does not answer in time queues its piece for reverification and marks   *)
(* the node as contained.  Reverification workers take jobs from the queue *)
(* with a lease, download the whole piece, have the verdict counted by the *)
(* reputation service and remove the job, and unmark the node when it has  *)
(* no other job.  ContainmentSyncChore repairs the marks.                  *)
(*                                                                         *)
(* The queue (table reverification_audits), the marks (table nodes) and    *)
(* the reputation are written by separate statements, and each of them may *)
(* fail.  Time is kept as ages, which stop at the oldest one that matters. *)
(* A statement takes effect before the deadline of its context or never.   *)
(***************************************************************************)
EXTENDS Integers, Sequences, SequencesExt, FiniteSets

CONSTANTS
    Pieces,           \* (stream, position) of a segment at a node
    Nodes, NodeOf,
    Auditors,         \* concurrent audits of audit.Worker
    Workers,          \* slots of the limiter of audit.ReverifyWorker
    RetryInterval,    \* ticks
    MaxReverifyCount,
    MaxRetries,       \* of RecordAudits
    MaxFaults,        \* bound: failed statements and crashes
    Followed          \* bound: pieces whose verdicts are counted

None == "none"

ASSUME ContainmentAssumption ==
    /\ NodeOf \in [Pieces -> Nodes]
    /\ {RetryInterval, MaxReverifyCount, MaxRetries, MaxFaults} \subseteq Nat
    /\ RetryInterval > 0
    /\ Auditors \intersect Workers = {}
    /\ None \notin Pieces
    /\ Followed \subseteq Pieces

VARIABLES
    faults,
    queue,      \* reverification_audits, in the order of inserted_at
    contained,  \* nodes with nodes.contained set
    puller,     \* the loop of ReverifyWorker.process
    proc,       \* audits and reverifications that are under way
    sync,       \* ContainmentSyncChore
    counted,    \* verdicts counted for the job of a piece, up to two
    excused     \* pieces whose job met a fault or a late worker

vars == <<faults, queue, contained, puller, proc, sync, counted, excused>>
ghosts == <<counted, excused>>

Procs == Auditors \union Workers

\* A verdict is OutcomeSuccess, OutcomeFailure or OutcomeUnknownError: they
\* are handled alike.
Outcomes == {"Verdict", "NotPerformed", "NotNecessary", "TimedOut",
             "NodeOffline"}

Idle == [pc |-> "idle", age |-> 0, piece |-> None, count |-> 0,
         outcome |-> None, tries |-> 0]

OldestAge == RetryInterval + 1
Job(p) == [piece |-> p, age |-> 0, count |-> 0]

Queued(p) == \E i \in DOMAIN queue : queue[i].piece = p
QueuedAt(n) == \E p \in Pieces : NodeOf[p] = n /\ Queued(p)

\* The steps of a worker whose job may still be in the queue, and all steps.
Busy == {"reverify", "insert", "flag", "apply", "delete"}
Steps == Busy \union {"still", "unflag"}

TypeOK ==
    /\ faults \in 0 .. MaxFaults
    /\ \A i \in DOMAIN queue :
          queue[i] \in [piece : Pieces, age : 0 .. OldestAge,
                        count : 0 .. MaxReverifyCount]
    /\ \A i, j \in DOMAIN queue : queue[i].piece = queue[j].piece => i = j
    /\ contained \subseteq Nodes
    /\ puller.pc \in {"idle", "pull", "wait", "drain"}
    /\ puller.pc = "wait" => puller.piece \in Pieces
    /\ \A x \in Procs : /\ proc[x].pc \in Steps \union {"idle"}
                        /\ proc[x].pc # "idle" => proc[x].piece \in Pieces
                        /\ proc[x].tries \in 0 .. MaxRetries
    /\ sync.nodes \subseteq Nodes
    /\ counted \in [Pieces -> 0 .. 2]
    /\ excused \subseteq Pieces

Init ==
    /\ faults = 0
    /\ queue = <<>>
    /\ contained = {}
    /\ puller = Idle
    /\ proc = [x \in Procs |-> Idle]
    /\ sync = [pc |-> "idle", nodes |-> {}]
    /\ counted = [p \in Pieces |-> 0]
    /\ excused = {}
-----------------------------------------------------------------------------
\* Deadlines and faults.

\* The context of a reverification ends with the retry interval; an audit has
\* no deadline.
Expired(r) == r.age >= RetryInterval

Fault == faults < MaxFaults /\ faults' = faults + 1

\* A statement of process x fails.
Fails(x) == Fault \/ (Expired(proc[x]) /\ UNCHANGED faults)

\* Pieces of the jobs of processes X, and that they are not handled as
\* planned.
JobsOf(X) == {p \in Followed : Queued(p) /\ \E x \in X : proc[x].piece = p}
Excuse(X) == excused' = excused \union JobsOf(X \intersect Workers)

\* What a process keeps for its next step, of a report or of a removal.
Kept(r, pc) == [pc |-> pc, age |-> r.age, piece |-> r.piece, count |-> 0,
                outcome |-> None, tries |-> IF pc = "flag" THEN r.tries ELSE 0]
Goto(x, pc) == proc' = [proc EXCEPT ![x] = Kept(proc[x], pc)]
Again(r, pc) == [r EXCEPT !.pc = pc, !.tries = @ + 1]
Over(x) == proc' = [proc EXCEPT ![x] = Idle]

Older(r, oldest) == IF r.age < oldest THEN [r EXCEPT !.age = @ + 1] ELSE r

\* A worker ages with its context, from before its job was taken.
Aged(r) == IF r.pc = "idle" THEN r ELSE Older(r, RetryInterval)

Late(w) == proc[w].pc \in Busy /\ Expired(Aged(proc[w]))

Tick ==
    /\ queue' = [i \in DOMAIN queue |-> Older(queue[i], OldestAge)]
    /\ puller' = IF puller.pc \in {"pull", "wait"} THEN Aged(puller)
                 ELSE puller
    /\ proc' = [x \in Procs |-> IF x \in Workers THEN Aged(proc[x])
                                ELSE proc[x]]
    /\ Excuse({w \in Workers : Late(w)})
    /\ UNCHANGED <<faults, contained, sync, counted>>
-----------------------------------------------------------------------------
\* audit.Worker: an audit of a segment that ends with piece p pending, with a
\* reverify count of zero.  Other results leave containment alone.

\* IdentifyContainedNodes: a node with a job is not audited.  When its jobs
\* cannot be read it is.
Audit(x, p) ==
    /\ proc[x].pc = "idle"
    /\ \/ ~QueuedAt(NodeOf[p]) /\ UNCHANGED faults
       \/ QueuedAt(NodeOf[p]) /\ Fault
    /\ proc' = [proc EXCEPT ![x] = [Idle EXCEPT !.pc = "insert", !.piece = p]]
    /\ UNCHANGED <<queue, contained, puller, sync, ghosts>>
-----------------------------------------------------------------------------
\* RecordAudits and ReportReverificationNeeded, which audits and workers call.

\* Mutant: a job that is there is inserted again.
InsertedTwice(p) == Append(queue, Job(p))

\* ON CONFLICT DO NOTHING.
Inserted(p) == IF Queued(p) THEN queue ELSE Append(queue, Job(p))

\* Late workers are busy with the job of piece p that was there before.
MetLate(p) == \E w \in Workers : /\ proc[w].pc \in Busy /\ proc[w].piece = p
                                 /\ Expired(proc[w])

Insert(x) ==
    /\ proc[x].pc = "insert"
    /\ ~Expired(proc[x])
    /\ queue' = Inserted(proc[x].piece)
    /\ Goto(x, "flag")
    /\ excused' = excused \union {p \in Followed : /\ p = proc[x].piece
                                                  /\ MetLate(p)}
    /\ UNCHANGED <<faults, contained, puller, sync, counted>>

\* SetNodeContained(true).
Flag(x) ==
    /\ proc[x].pc = "flag"
    /\ ~Expired(proc[x])
    /\ contained' = contained \union {NodeOf[proc[x].piece]}
    /\ Over(x)
    /\ UNCHANGED <<faults, queue, puller, sync, ghosts>>

\* After an error in one of the two RecordAudits tries again from the first,
\* a limited number of times.
ReportFails(x) ==
    /\ proc[x].pc \in {"insert", "flag"}
    /\ Fails(x)
    /\ Excuse({x})
    /\ IF proc[x].tries = MaxRetries THEN Over(x)
       ELSE proc' = [proc EXCEPT ![x] = Again(@, "insert")]
    /\ UNCHANGED <<queue, contained, puller, sync, counted>>
-----------------------------------------------------------------------------
\* audit.ReverifyWorker: taking a job.

\* A round of the cycle, or of the loop in it: the deadline of the job is set
\* before the job is taken.
StartTimer == [Idle EXCEPT !.pc = "pull"]

Cycle ==
    /\ puller.pc = "idle"
    /\ puller' = StartTimer
    /\ UNCHANGED <<faults, queue, contained, proc, sync, ghosts>>

\* Mutant: a job is due whether or not somebody has taken it.
DueTaken(job) == TRUE

Due(job) == job.age > RetryInterval

DueJobs == {i \in DOMAIN queue : Due(queue[i])}

\* Mutant: the last attempt is not written down.
TakenUnmarked(job) == [job EXCEPT !.count = IF @ < MaxReverifyCount THEN @ + 1
                                            ELSE @]

\* The count is only compared with its maximum and stays there.
Taken(job) == [job EXCEPT !.age = 0,
                          !.count = IF @ < MaxReverifyCount THEN @ + 1 ELSE @]

\* Index i is the due job that was inserted first.
Oldest(i) == i \in DueJobs /\ \A j \in DueJobs : i <= j

GetNextJob(p) ==
    \E i \in DOMAIN queue :
       /\ puller.pc = "pull"
       /\ ~Expired(puller)
       /\ Oldest(i)
       /\ queue[i].piece = p
       /\ queue' = [queue EXCEPT ![i] = Taken(@)]
       /\ puller' = [puller EXCEPT !.pc = "wait", !.piece = p,
                                   !.count = Taken(queue[i]).count]
       /\ UNCHANGED <<faults, contained, proc, sync, ghosts>>

\* The job is taken, but its taker does not learn of it.
GetNextJobLost ==
    \E i \in DOMAIN queue :
       /\ puller.pc = "pull"
       /\ Fault
       /\ Oldest(i)
       /\ queue' = [queue EXCEPT ![i] = Taken(@)]
       /\ puller' = [Idle EXCEPT !.pc = "drain"]
       /\ UNCHANGED <<contained, proc, sync, ghosts>>

\* ErrEmptyQueue, or an error.
EndRound ==
    /\ puller.pc = "pull"
    /\ DueJobs = {} \/ Expired(puller)
    /\ puller' = [Idle EXCEPT !.pc = "drain"]
    /\ UNCHANGED <<faults, queue, contained, proc, sync, ghosts>>

\* limiter.Go waits for a free slot until the deadline.  The loop goes on with
\* a new deadline.
HandOver(w) ==
    /\ puller.pc = "wait"
    /\ proc[w].pc = "idle"
    /\ proc' = [proc EXCEPT ![w] = [puller EXCEPT !.pc = "reverify"]]
    /\ puller' = StartTimer
    /\ excused' = IF Expired(puller) /\ Queued(puller.piece)
                  THEN excused \union ({puller.piece} \intersect Followed)
                  ELSE excused
    /\ UNCHANGED <<faults, queue, contained, sync, counted>>

NotStarted ==
    /\ puller.pc = "wait"
    /\ Expired(puller)
    /\ puller' = [Idle EXCEPT !.pc = "drain"]
    /\ UNCHANGED <<faults, queue, contained, proc, sync, ghosts>>

\* limiter.Wait.
Drain ==
    /\ puller.pc = "drain"
    /\ \A w \in Workers : proc[w].pc = "idle"
    /\ puller' = Idle
    /\ UNCHANGED <<faults, queue, contained, proc, sync, ghosts>>
-----------------------------------------------------------------------------
\* audit.ReverifyWorker: working on a job.

\* RecordReverificationResult, up to its first statement.
Follow(r, outcome) ==
    CASE outcome = "NotPerformed" -> "idle"
      [] outcome = "NotNecessary" -> "delete"
      [] outcome = "TimedOut" /\ r.count < MaxReverifyCount -> "insert"
      [] OTHER -> "apply"

\* When the context has ended, DoReverifyPiece may return any outcome: a
\* segment that it cannot read again is taken for an altered one.
Reverify(w, outcome) ==
    LET pc == Follow(proc[w], outcome) IN
    /\ proc[w].pc = "reverify"
    /\ CASE pc = "idle" -> Over(w)
         [] pc = "apply" ->
               proc' = [proc EXCEPT ![w] = [@ EXCEPT !.pc = pc, !.count = 0,
                                                     !.outcome = outcome]]
         [] OTHER -> Goto(w, pc)
    /\ UNCHANGED <<faults, queue, contained, puller, sync, ghosts>>

\* The verdict of a job: a failure, too, when it timed out too often.
IsVerdict(r) == r.outcome \in {"Verdict", "TimedOut"}

Counted(r) ==
    counted' = IF IsVerdict(r) /\ Queued(r.piece) /\ r.piece \in Followed
               THEN [counted EXCEPT ![r.piece] = IF @ < 2 THEN @ + 1 ELSE @]
               ELSE counted

\* Mutant: a job is kept whatever came out.
AfterApplyKept(r) == "idle"

\* The job of a node that is offline is kept.
AfterApply(r) == IF IsVerdict(r) THEN "delete" ELSE "idle"

\* reputation.Service.ApplyAudit: the reputation may be in a cache, which has
\* no use for the context.
ApplyAudit(w) ==
    /\ proc[w].pc = "apply"
    /\ Counted(proc[w])
    /\ IF AfterApply(proc[w]) = "idle" THEN Over(w)
       ELSE Goto(w, AfterApply(proc[w]))
    /\ UNCHANGED <<faults, queue, contained, puller, sync, excused>>

\* It fails before the reputation was updated, or after that when the overlay
\* is.  RecordAudits tries again and in the end throws the error away:
\* the job is removed nevertheless, unless it timed out.
ApplyFails(w) ==
    LET r == proc[w] IN
    /\ r.pc = "apply"
    /\ Fails(w)
    /\ Excuse({w})
    /\ Counted(r) \/ UNCHANGED counted
    /\ IF r.tries < MaxRetries
       THEN proc' = [proc EXCEPT ![w] = Again(@, "apply")]
       ELSE IF r.outcome = "Verdict" THEN Goto(w, "delete")
       ELSE Over(w)
    /\ UNCHANGED <<queue, contained, puller, sync>>

\* A piece has one job at most: node, stream and position are the primary key.
Without(p) ==
    IF Queued(p)
    THEN RemoveAt(queue, CHOOSE i \in DOMAIN queue : queue[i].piece = p)
    ELSE queue

\* containment.Delete: the job is removed by node, stream and position, ...
RemoveJob(w) ==
    /\ proc[w].pc = "delete"
    /\ ~Expired(proc[w])
    /\ queue' = Without(proc[w].piece)
    /\ counted' = [counted EXCEPT ![proc[w].piece] = 0]
    /\ excused' = excused \ {proc[w].piece}
    /\ Goto(w, "still")
    /\ UNCHANGED <<faults, contained, puller, sync>>

\* ... and GetByNodeID looks for another one of the node.
Still(w) ==
    /\ proc[w].pc = "still"
    /\ ~Expired(proc[w])
    /\ IF QueuedAt(NodeOf[proc[w].piece]) THEN Over(w) ELSE Goto(w, "unflag")
    /\ UNCHANGED <<faults, queue, contained, puller, sync, ghosts>>

\* SetNodeContained(false).
Unflag(w) ==
    /\ proc[w].pc = "unflag"
    /\ ~Expired(proc[w])
    /\ contained' = contained \ {NodeOf[proc[w].piece]}
    /\ Over(w)
    /\ UNCHANGED <<faults, queue, puller, sync, ghosts>>

\* Errors are logged.
RemoveFails(w) ==
    /\ proc[w].pc = "delete"
    /\ Fails(w)
    /\ Excuse({w})
    /\ Over(w)
    /\ UNCHANGED <<queue, contained, puller, sync, counted>>

UnflagFails(w) ==
    /\ proc[w].pc \in {"still", "unflag"}
    /\ Fails(w)
    /\ Over(w)
    /\ UNCHANGED <<queue, contained, puller, sync, ghosts>>
-----------------------------------------------------------------------------
\* ContainmentSyncChore.

\* GetAllContainedNodes.
ReadAllContained ==
    /\ sync.pc = "idle"
    /\ sync' = [pc |-> "set", nodes |-> {n \in Nodes : QueuedAt(n)}]
    /\ UNCHANGED <<faults, queue, contained, puller, proc, ghosts>>

\* Mutant: marks are only set.
ContainedAfterUnion == contained \union sync.nodes

ContainedAfter == sync.nodes

SetAllContainedNodes ==
    /\ sync.pc = "set"
    /\ contained' = ContainedAfter
    /\ sync' = [pc |-> "idle", nodes |-> {}]
    /\ UNCHANGED <<faults, queue, puller, proc, ghosts>>

SyncFails ==
    /\ sync.pc = "set"
    /\ Fault
    /\ sync' = [pc |-> "idle", nodes |-> {}]
    /\ UNCHANGED <<queue, contained, puller, proc, ghosts>>

\* The auditor stops and starts; the chore is in another process.
Crash ==
    /\ Fault
    /\ puller' = Idle
    /\ proc' = [x \in Procs |-> Idle]
    /\ Excuse(Workers)
    /\ UNCHANGED <<queue, contained, sync, counted>>

ReporterStep(x) == Insert(x) \/ Flag(x) \/ ReportFails(x)

WorkerStep(w) ==
    \/ \E outcome \in Outcomes : Reverify(w, outcome)
    \/ ApplyAudit(w) \/ ApplyFails(w)
    \/ RemoveJob(w) \/ Still(w) \/ Unflag(w) \/ RemoveFails(w)
    \/ UnflagFails(w)

PullerStep ==
    \/ Cycle \/ EndRound \/ NotStarted \/ Drain \/ GetNextJobLost
    \/ \E p \in Pieces : GetNextJob(p)
    \/ \E w \in Workers : HandOver(w)

Next ==
    \/ Tick
    \/ \E x \in Auditors, p \in Pieces : Audit(x, p)
    \/ \E x \in Procs : ReporterStep(x)
    \/ PullerStep
    \/ \E w \in Workers : WorkerStep(w)
    \/ ReadAllContained \/ SetAllContainedNodes \/ SyncFails
    \/ Crash

Spec == Init /\ [][Next]_vars

\* Who has a job, and may still do something about it.
Holds(r) == r.pc \in Busy \union {"wait"} /\ ~Expired(r)

\* The deadline of a job that was taken passes.
Overrun == Tick /\ \/ Holds(puller) /\ ~Holds(puller')
                   \/ \E w \in Workers : Holds(proc[w]) /\ ~Holds(proc'[w])

\* Everything goes on.  The retry interval is hours and what a worker does is
\* minutes, so from some time on no job overruns it.  A job that is due again
\* and again is taken, and a node gives a verdict if it is asked for ever.
Fairness ==
    /\ WF_vars(Tick) /\ <>[][~Overrun]_vars
    /\ WF_vars(Cycle) /\ WF_vars(EndRound) /\ WF_vars(NotStarted)
    /\ WF_vars(Drain)
    /\ \A x \in Procs : WF_vars(ReporterStep(x))
    /\ \A w \in Workers : WF_vars(HandOver(w)) /\ WF_vars(WorkerStep(w))
    /\ \A p \in Pieces :
          /\ SF_vars(GetNextJob(p))
          /\ \A w \in Workers :
                SF_vars(proc[w].piece = p /\ Reverify(w, "Verdict"))
    /\ WF_vars(ReadAllContained) /\ WF_vars(SetAllContainedNodes)

FairSpec == Spec /\ Fairness
-----------------------------------------------------------------------------
\* Properties.

\* A job that is being reverified in time stays in the queue: nobody else
\* removes it, or a job that was queued for the piece after it (GetNextJob and
\* process, which sets the deadline before it takes the job).
HeldJobQueued ==
    /\ Holds(puller) => Queued(puller.piece)
    /\ \A w \in Workers : Holds(proc[w]) => Queued(proc[w].piece)

\* One job is in the hands of one worker until the deadline of that worker.
OneHolder ==
    /\ \A v, w \in Workers :
          Holds(proc[v]) /\ Holds(proc[w]) /\ proc[v].piece = proc[w].piece
             => v = w
    /\ \A w \in Workers :
          ~(Holds(puller) /\ Holds(proc[w]) /\ puller.piece = proc[w].piece)

\* Until its deadline a job has one worker and stays in the queue.
LeaseHeld == HeldJobQueued /\ OneHolder

\* While nothing fails and nobody who was given a job of the piece is late a
\* job is counted once, whatever becomes of it (ApplyAudit, and then Delete).
CountedOnce == \A p \in Pieces : p \notin excused => counted[p] <= 1

\* "If another worker does take over the job before this worker has been
\* cleaned up, it is ok; the downside should only be duplication of work and
\* monkit stats": then no job is counted twice (reverifyworker.go).
JobCountedOnce == \A p \in Pieces : counted[p] <= 1

\* The mark of a node follows the queue, whichever statements fail and however
\* audits, workers and the chore race: it is not wrong for ever.
MarkFollowsQueue ==
    \A n \in Nodes :
       /\ QueuedAt(n) ~> (n \in contained \/ ~QueuedAt(n))
       /\ ~QueuedAt(n) ~> (n \notin contained \/ QueuedAt(n))

\* Every job is resolved, and a node does not stay contained for ever.
JobResolved == \A p \in Pieces : Queued(p) ~> ~Queued(p)
=============================================================================
