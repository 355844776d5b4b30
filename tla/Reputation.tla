----------------------------- MODULE Reputation -----------------------------
(***************************************************************************)
(* How the result of an audit becomes the reputation and the status of a   *)
(* node.  Every process of a satellite that audits or repairs keeps a      *)
(* write-behind cache of reputations (satellite/reputation/writecache.go): *)
(* ApplyAudit adds a result to the mutations of the cached entry and to    *)
(* its estimate of the reputation, a goroutine (Manage) applies the        *)
(* mutations to the reputations table (satellitedb/reputations.go) now and *)
(* then and when it is asked to, and the estimate decides at once what the *)
(* nodes table of the overlay says of the node.                            *)
(*                                                                         *)
(* One node.  Scores are exact: both lambdas are 1 and AuditWeight is 1,   *)
(* so that alpha and beta count results.  The clock is left out: a retry   *)
(* after an error may be due or not, and a node that was vetted earlier    *)
(* may have been in the same second.                                       *)
(***************************************************************************)
EXTENDS Integers, FiniteSets, Functions

CONSTANTS
    Processes,      \* of the satellite, each with a cache
    Calls,          \* of ApplyAudit
    ProcessesOf,    \* [Calls -> SUBSET Processes], where a call may be made
    Informed,       \* those of a reporter that passes on the node's status
    TimeLimited,    \* those of a repair or a reverification, which may time out
    Reported,       \* outcomes that audits have, a subset of Outcomes
    InitialAlpha, InitialBeta,
    AuditDQ, UnknownAuditDQ, \* cut-offs, in percent
    AuditCount,     \* audits until a node is vetted
    MaxRetries,     \* of the reporter
    MaxFaults       \* bound: failed or uncertain requests, restarts

Outcomes == {"success", "failure", "unknown", "offline"}
None == "none"

ASSUME ReputationAssumption ==
    /\ IsFiniteSet(Processes)
    /\ ProcessesOf \in [Calls -> SUBSET Processes]
    /\ Informed \subseteq Calls /\ TimeLimited \subseteq Calls
    /\ Reported \subseteq Outcomes
    /\ {InitialAlpha, InitialBeta, AuditDQ, UnknownAuditDQ, AuditCount,
        MaxRetries, MaxFaults} \subseteq Nat

VARIABLES
    row,       \* the node's row of reputations
    nodes,     \* its row of nodes: disqualified, suspended, vetted
    exited,    \* its row of nodes: exit_finished_at is set
    entry,     \* [Processes -> the cached entry]
    manager,   \* [Processes -> the goroutine of Manage]
    call,      \* [Calls -> ApplyAudit]
    recorded,  \* no state of the program: results the caches took
    lost,      \* no state of the program: results that were dropped
    faults

vars == <<row, nodes, exited, entry, manager, call, recorded, lost, faults>>

NoResults == [o \in Outcomes |-> 0]
One(outcome) == [o \in Outcomes |-> IF o = outcome THEN 1 ELSE 0]
Plus(r, more) == [o \in Outcomes |-> r[o] + more[o]]

\* TotalAuditCount.  The audit history holds as many, so that it tells two
\* versions of a row apart.
Total(r) == r["success"] + r["failure"] + r["unknown"] + r["offline"]

\* Info and the row of the database: what was counted, and the status.
Info == [exists : BOOLEAN, results : [Outcomes -> Nat], vetted : BOOLEAN,
         disqualified : BOOLEAN, suspended : BOOLEAN]

\* No row, and what one is made from.
NewNode == [exists |-> FALSE, results |-> NoResults, vetted |-> FALSE,
            disqualified |-> FALSE, suspended |-> FALSE]

\* alpha / (alpha + beta) is at most the cut-off.
AtMost(alpha, beta, percent) == alpha * 100 <= percent * (alpha + beta)

AuditScoreLow(r) ==
    AtMost(InitialAlpha + r["success"], InitialBeta + r["failure"], AuditDQ)

UnknownScoreLow(r) == AtMost(1 + r["success"], r["unknown"], UnknownAuditDQ)

\* populateUpdateNodeStats, and what ApplyUpdates does to the estimate: nobody
\* is unvetted or requalified, and a suspension follows the score.
After(info, more) ==
    LET r == Plus(info.results, more) IN
    [exists |-> TRUE,
     results |-> r,
     vetted |-> info.vetted \/ Total(r) >= AuditCount,
     disqualified |-> info.disqualified \/ AuditScoreLow(r),
     suspended |-> UnknownScoreLow(r)]

\* An entry as insertNode makes it; holder is who has its lock, sync how far
\* the holder is in syncEntry, and read the row it read there.
NoEntry == [there |-> FALSE, holder |-> None, sync |-> None, read |-> NewNode,
            info |-> NewNode, error |-> "not populated", mutations |-> NoResults]

Selecting == [pc |-> "select", request |-> None, timer |-> TRUE]

\* The status that callers pass on, and that the overlay keeps.
Status(info) == [disqualified |-> info.disqualified,
                 suspended |-> info.suspended, vetted |-> info.vetted]

\* A call: the status it goes by, what Update answered, whether the estimate
\* became vetted with it, and whether the context of the job is canceled.
Idle == [pc |-> "idle", process |-> None, outcome |-> None, tries |-> 0,
         status |-> Status(NewNode), answer |-> Status(NewNode), newly |-> FALSE,
         canceled |-> FALSE]

Init ==
    /\ row = NewNode
    /\ nodes = Status(NewNode)
    /\ exited = FALSE
    /\ entry = [p \in Processes |-> NoEntry]
    /\ manager = [p \in Processes |-> Selecting]
    /\ call = [c \in Calls |-> Idle]
    /\ recorded = NoResults
    /\ lost = NoResults
    /\ faults = 0

Fault == faults < MaxFaults /\ faults' = faults + 1

Step(c, pc) == call' = [call EXCEPT ![c] = [@ EXCEPT !.pc = pc]]
-----------------------------------------------------------------------------
\* syncEntry, by whoever holds the lock: ApplyUpdates of the database reads the
\* row, and writes it if its audit history is still the one that was read.

Get(p) ==
    /\ entry[p].sync = "get"
    /\ entry' = [entry EXCEPT ![p] = [@ EXCEPT !.read = row, !.sync = "write"]]
    /\ UNCHANGED <<row, nodes, exited, manager, call, recorded, lost, faults>>

\* Mutant: the audit history is not compared.
UnchangedSinceAny(read) == TRUE

\* The row is there with the history that was read, or is still missing.
UnchangedSince(read) ==
    row.exists = read.exists /\ Total(row.results) = Total(read.results)

\* Nothing to change: the row that was read is the answer.
ReadsOnly(p) == entry[p].read.exists /\ entry[p].mutations = NoResults

Written(p) == After(entry[p].read, entry[p].mutations)

\* The end of syncEntry: the mutations are dropped, applied or not.
Synced(p, info, error) ==
    entry' = [entry EXCEPT ![p] =
                [@ EXCEPT !.sync = "done", !.read = NewNode, !.info = info,
                          !.error = error, !.mutations = NoResults]]

Update(p) ==
    LET e == entry[p] IN
    /\ e.sync = "write"
    /\ \/ /\ ReadsOnly(p)
          /\ Synced(p, e.read, None)
          /\ UNCHANGED row
       \/ /\ ~ReadsOnly(p) /\ UnchangedSince(e.read)
          /\ row' = Written(p)
          /\ Synced(p, Written(p), None)
       \/ /\ ~ReadsOnly(p) /\ ~UnchangedSince(e.read)
          /\ entry' = [entry EXCEPT ![p] = [@ EXCEPT !.sync = "get"]]
          /\ UNCHANGED row
    /\ UNCHANGED <<nodes, exited, manager, call, recorded, lost, faults>>

\* The database fails, or it writes and the answer is lost.
SyncFails(p) ==
    LET e == entry[p] IN
    /\ Fault
    /\ e.sync \in {"get", "write"}
    /\ Synced(p, NewNode, "failed")
    /\ \/ /\ UNCHANGED row
          /\ lost' = Plus(lost, e.mutations)
       \/ /\ e.sync = "write" /\ ~ReadsOnly(p) /\ UnchangedSince(e.read)
          /\ row' = Written(p)
          /\ UNCHANGED lost
    /\ UNCHANGED <<nodes, exited, manager, call, recorded>>
-----------------------------------------------------------------------------
\* ApplyAudit.

\* The call becomes x; getEntry finds or inserts the entry for one that goes on.
Begin(c, p, x) ==
    /\ call' = [call EXCEPT ![c] = x]
    /\ entry' = [entry EXCEPT ![p].there = @ \/ x.pc = "entry"]
    /\ UNCHANGED <<row, nodes, exited, manager, recorded, lost>>

\* An audit of the node is not to be applied.
Gone == nodes.disqualified \/ exited

\* Without a status from the reporter the overlay is asked for one, which may
\* fail; a node that was disqualified or has exited by then is left alone.
ReadStatus(c, p, x) ==
    \/ /\ ~x.canceled /\ ~Gone
       /\ Begin(c, p, [x EXCEPT !.pc = "entry", !.status = nodes])
       /\ UNCHANGED faults
    \/ /\ ~x.canceled /\ Gone
       /\ Begin(c, p, [Idle EXCEPT !.pc = "done"])
       /\ UNCHANGED faults
    \/ /\ (x.canceled /\ UNCHANGED faults) \/ (~x.canceled /\ Fault)
       /\ Begin(c, p, [x EXCEPT !.pc = "failed"])

\* A reporter has the status of a node that an order limit was made for, as it
\* was then: neither disqualified nor exited.
BeginAudit(c, p, outcome) ==
    LET x == [Idle EXCEPT !.process = p, !.outcome = outcome] IN
    /\ call[c].pc = "idle"
    /\ \/ /\ c \in Informed /\ ~Gone
          /\ Begin(c, p, [x EXCEPT !.pc = "entry", !.status = nodes])
          /\ UNCHANGED faults
       \/ c \notin Informed /\ ReadStatus(c, p, x)

\* The entry is locked.  An error is retried when it is due, as that of a new
\* entry is.  With a context that is canceled the retry fails at once: an entry
\* with an error has no mutations to lose, and keeps the error.
Lock(c) ==
    LET p == call[c].process IN
    /\ call[c].pc = "entry"
    /\ entry[p].holder = None
    /\ \E sync \in {"get", "done"} :
          /\ entry[p].error = None \/ call[c].canceled => sync = "done"
          /\ entry[p].error = "not populated" => sync = "get"
          /\ entry' = [entry EXCEPT ![p] = [@ EXCEPT !.holder = c, !.sync = sync]]
    /\ Step(c, "locked")
    /\ UNCHANGED <<row, nodes, exited, manager, recorded, lost, faults>>

\* The entry after its lock is released.
Unlocked(e) == [e EXCEPT !.holder = None, !.sync = None]

\* The entry has an error: the result is refused.
Refuse(c) ==
    LET p == call[c].process IN
    /\ call[c].pc = "locked"
    /\ entry[p].sync = "done"
    /\ entry[p].error # None
    /\ entry' = [entry EXCEPT ![p] = Unlocked(@)]
    /\ Step(c, "failed")
    /\ UNCHANGED <<row, nodes, exited, manager, recorded, lost, faults>>

\* Mutant: a sync is requested while the entry is locked.
AfterRecordLocked(e, newly) == IF newly THEN e ELSE Unlocked(e)

\* The lock is released before a sync is requested.
AfterRecord(e, newly) == Unlocked(e)

\* The estimate with the result of a call.
Estimate(c) == After(entry[call[c].process].info, One(call[c].outcome))

NewlyVetted(c) == Estimate(c).vetted /\ ~entry[call[c].process].info.vetted

NewlyDisqualified(c) ==
    Estimate(c).disqualified /\ ~entry[call[c].process].info.disqualified

\* A node that seems newly vetted or disqualified is to be synced.
WantsSync(c) == NewlyVetted(c) \/ NewlyDisqualified(c)

\* The result is added to the mutations and to the estimate, which is what the
\* call is answered.
Record(c) ==
    LET p == call[c].process
        e == entry[p]
        result == One(call[c].outcome)
    IN
    /\ call[c].pc = "locked"
    /\ e.sync = "done"
    /\ e.error = None
    /\ entry' = [entry EXCEPT ![p] =
                   AfterRecord([e EXCEPT !.mutations = Plus(@, result),
                                         !.info = Estimate(c)], WantsSync(c))]
    /\ call' = [call EXCEPT ![c] =
                  [@ EXCEPT !.pc = IF WantsSync(c) THEN "request" ELSE "decide",
                            !.answer = Status(Estimate(c)),
                            !.newly = NewlyVetted(c)]]
    /\ recorded' = Plus(recorded, result)
    /\ UNCHANGED <<row, nodes, exited, manager, lost, faults>>

\* hasReputationChanged, of the status the call began with; recent: the node
\* was vetted in the second in which the call began.
Changed(c, recent) ==
    LET was == call[c].status
        is == call[c].answer
    IN
    \/ is.disqualified /\ ~was.disqualified
    \/ is.suspended # was.suspended
    \/ is.vetted /\ recent

\* Mutant: UPDATE without the condition on disqualified.
UpdatesAlways == TRUE

\* UpdateReputation of the overlay writes a node that is not disqualified and
\* whose exit has not finished.
Updates == ~nodes.disqualified /\ ~exited

\* The end of ApplyAudit: the overlay is told of a change, unless the context is
\* canceled.
Decide(c) ==
    /\ call[c].pc = "decide"
    /\ \E recent \in BOOLEAN :
          /\ call[c].newly => recent
          /\ ~(call[c].canceled /\ Changed(c, recent))
          /\ nodes' = IF Changed(c, recent) /\ Updates
                      THEN call[c].answer ELSE nodes
    /\ call' = [call EXCEPT ![c] =
                  [Idle EXCEPT !.pc = "done", !.answer = call[c].answer]]
    /\ UNCHANGED <<row, exited, entry, manager, recorded, lost, faults>>

\* The nodes table cannot be written, or it is and the answer is lost.
DecideFails(c) ==
    /\ Fault
    /\ call[c].pc = "decide"
    /\ ~call[c].canceled
    /\ \E recent \in BOOLEAN : Changed(c, recent)
    /\ nodes' \in {nodes, IF Updates THEN call[c].answer ELSE nodes}
    /\ Step(c, "failed")
    /\ UNCHANGED <<row, exited, entry, manager, recorded, lost>>

\* Nor can it be with a context that is canceled.
DecideCanceled(c) ==
    /\ call[c].pc = "decide"
    /\ call[c].canceled
    /\ \E recent \in BOOLEAN : (call[c].newly => recent) /\ Changed(c, recent)
    /\ Step(c, "failed")
    /\ UNCHANGED <<row, nodes, exited, entry, manager, recorded, lost, faults>>

\* The reporter tries again, with the same status or the same lack of one; or it
\* gives up.
Retry(c) ==
    LET x == [call[c] EXCEPT !.tries = @ + 1, !.answer = Idle.answer, !.newly = FALSE]
        p == call[c].process
    IN
    /\ call[c].pc = "failed" /\ call[c].tries < MaxRetries
    /\ \/ /\ c \in Informed
          /\ Begin(c, p, [x EXCEPT !.pc = "entry"])
          /\ UNCHANGED faults
       \/ c \notin Informed /\ ReadStatus(c, p, x)
-----------------------------------------------------------------------------
\* Manage.

\* RequestSync: the request is received, and answered when its sync is over.
ReceiveRequest(c) ==
    LET p == call[c].process IN
    /\ call[c].pc = "request"
    /\ manager[p].pc = "select"
    /\ manager' = [manager EXCEPT ![p] = [@ EXCEPT !.pc = "lock", !.request = c]]
    /\ Step(c, "wait")
    /\ UNCHANGED <<row, nodes, exited, entry, recorded, lost, faults>>

\* The time limit of the job ends the wait for a sync, whether the request was
\* received or not; ApplyUpdates goes on without it.
RequestCanceled(c) ==
    /\ c \in TimeLimited
    /\ call[c].pc \in {"request", "wait"}
    /\ (call[c].canceled /\ UNCHANGED faults) \/ (~call[c].canceled /\ Fault)
    /\ call' = [call EXCEPT ![c] = [@ EXCEPT !.pc = "decide", !.canceled = TRUE]]
    /\ UNCHANGED <<row, nodes, exited, entry, manager, recorded, lost>>

\* A sync would change the entry or the row.
OutOfDate(p) ==
    LET e == entry[p] IN
    e.mutations # NoResults \/ e.error # None \/ e.info # row

\* The timer fires, and the entry is due: syncDueEntries.  The syncs that change
\* nothing are left out.
TimerFires(p) ==
    /\ manager[p].pc = "select"
    /\ manager[p].timer
    /\ entry[p].there /\ OutOfDate(p)
    /\ manager' = [manager EXCEPT ![p] = [@ EXCEPT !.pc = "lock", !.timer = FALSE]]
    /\ UNCHANGED <<row, nodes, exited, entry, call, recorded, lost, faults>>

ManagerLocks(p) ==
    /\ manager[p].pc = "lock"
    /\ entry[p].holder = None
    /\ entry' = [entry EXCEPT ![p] = [@ EXCEPT !.holder = "manager", !.sync = "get"]]
    /\ manager' = [manager EXCEPT ![p] = [@ EXCEPT !.pc = "sync"]]
    /\ UNCHANGED <<row, nodes, exited, call, recorded, lost, faults>>

\* The loop of Manage goes on; updateTimer has set the timer again.
Again(m) == Selecting

\* The sync is over: the lock is released and the request is answered, if its
\* call still waits.
ManagerUnlocks(p) ==
    LET c == manager[p].request IN
    /\ manager[p].pc = "sync"
    /\ entry[p].sync = "done"
    /\ entry' = [entry EXCEPT ![p] = Unlocked(@)]
    /\ manager' = [manager EXCEPT ![p] = Again(@)]
    /\ call' = [d \in Calls |-> IF d = c /\ call[d].pc = "wait"
                               THEN [call[d] EXCEPT !.pc = "decide"] ELSE call[d]]
    /\ UNCHANGED <<row, nodes, exited, recorded, lost, faults>>

\* The process stops and starts again: Manage returns, and what its cache
\* holds is gone.
Restart(p) ==
    /\ Fault
    /\ entry[p].there
    /\ lost' = Plus(lost, entry[p].mutations)
    /\ entry' = [entry EXCEPT ![p] = NoEntry]
    /\ manager' = [manager EXCEPT ![p] = Selecting]
    /\ call' = [c \in Calls |->
                  IF call[c].process = p
                  THEN [Idle EXCEPT !.pc = "stopped"] ELSE call[c]]
    /\ UNCHANGED <<row, nodes, exited, recorded>>

\* The graceful exit of the node finishes: UpdateExitStatus of the overlay.
ExitFinishes ==
    /\ ~exited
    /\ exited' = TRUE
    /\ UNCHANGED <<row, nodes, entry, manager, call, recorded, lost, faults>>

DatabaseStep(p) == Get(p) \/ Update(p)

AuditStep(c) ==
    Lock(c) \/ Refuse(c) \/ Record(c) \/ Decide(c) \/ DecideCanceled(c)

ManagerStep(p) ==
    \/ TimerFires(p) \/ ManagerLocks(p) \/ ManagerUnlocks(p)
    \/ \E c \in Calls : call[c].process = p /\ ReceiveRequest(c)

Next ==
    \/ \E c \in Calls :
          \/ \E p \in ProcessesOf[c], o \in Reported : BeginAudit(c, p, o)
          \/ AuditStep(c) \/ DecideFails(c) \/ RequestCanceled(c) \/ Retry(c)
    \/ \E p \in Processes :
          DatabaseStep(p) \/ SyncFails(p) \/ ManagerStep(p) \/ Restart(p)
    \/ ExitFinishes

Spec == Init /\ [][Next]_vars
-----------------------------------------------------------------------------
Statuses == [disqualified : BOOLEAN, suspended : BOOLEAN, vetted : BOOLEAN]

Entries == [there : BOOLEAN, holder : Calls \union {"manager", None},
            sync : {None, "get", "write", "done"}, read : Info, info : Info,
            error : {None, "not populated", "failed"},
            mutations : [Outcomes -> Nat]]

Managers == [pc : {"select", "lock", "sync"}, request : Calls \union {None},
             timer : BOOLEAN]

Away == {"idle", "done", "stopped"}

CallStates ==
    [pc : Away \union {"entry", "locked", "request", "wait", "decide", "failed"},
     process : Processes \union {None}, outcome : Outcomes \union {None},
     tries : Nat, status : Statuses, answer : Statuses,
     newly : BOOLEAN, canceled : BOOLEAN]

TypeOK ==
    /\ row \in Info
    /\ nodes \in Statuses
    /\ exited \in BOOLEAN
    /\ entry \in [Processes -> Entries]
    /\ manager \in [Processes -> Managers]
    /\ call \in [Calls -> CallStates]
    /\ recorded \in [Outcomes -> Nat]
    /\ lost \in [Outcomes -> Nat]
    /\ faults \in Nat

Cached(o) ==
    SumFunction([p \in Processes |-> entry[p].mutations[o]])

\* Every result that a cache took is in the database once, waits in one cache,
\* or was lost with an error or a restart: of two processes that write the row
\* together neither undoes the other, and a retry of the write does not repeat
\* it.
ResultsAccounted ==
    \A o \in Outcomes :
        recorded[o] = row.results[o] + Cached(o) + lost[o]

\* Once a call has returned that found the node disqualified, the overlay says so
\* for good, whatever older estimates other calls still bring to it, or counts the
\* node as exited: nothing but an exit that finished meanwhile keeps a
\* disqualification from the overlay.
DisqualificationTold ==
    \A c \in Calls :
        call[c].pc = "done" /\ call[c].answer.disqualified =>
            nodes.disqualified \/ exited

\* Processes that go on, and a timer that fires.
FairSpec ==
    /\ Spec
    /\ \A p \in Processes : WF_vars(DatabaseStep(p) \/ ManagerStep(p))
    /\ \A c \in Calls : WF_vars(AuditStep(c))

\* Every call of ApplyAudit returns, nobody waits for a sync that waits for him,
\* and what a cache holds leaves it, without another audit of the node.
AuditsSettle ==
    /\ \A c \in Calls :
          call[c].pc = "entry" ~> call[c].pc \in {"done", "failed", "stopped"}
    /\ \A p \in Processes :
          entry[p].mutations # NoResults ~> entry[p].mutations = NoResults

\* Not true of the code: a node that the overlay disqualified is disqualified
\* in the database, once everything is written.
DisqualifiedForCause ==
    nodes.disqualified /\ (\A p \in Processes : entry[p].mutations = NoResults)
        => row.disqualified

\* Nor this: the overlay never takes back that a node is vetted.
VettedForGood == [][nodes.vetted => nodes'.vetted]_vars
=============================================================================
