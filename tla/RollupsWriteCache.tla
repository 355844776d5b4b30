------------------------- MODULE RollupsWriteCache -------------------------
(***************************************************************************)
(* The write-behind cache of bucket bandwidth that every API process of a  *)
(* satellite keeps (satellite/orders/rollups_write_cache.go).  An update   *)
(* adds an amount to the pending rollup of its key; a full cache is        *)
(* flushed by a goroutine, a chore flushes it now and then, and            *)
(* CloseAndFlush when the process ends.  Only what settling adds is        *)
(* modelled: inline and allocated amounts take the same way.               *)
(*                                                                         *)
(* lost is no state of the program: it counts what the code reports as     *)
(* "MONEY LOST!", refuses with an error, or loses with its process.        *)
(***************************************************************************)
EXTENDS Integers, FiniteSets, Functions

CONSTANTS Keys,       \* bucket, action and hour: the key of a rollup
          BatchSize,  \* FlushBatchSize, how many keys fill the cache
          Flushers    \* who empties it: the goroutine updateCacheValue
                      \* starts, the chore's Flush, CloseAndFlush

ASSUME CacheAssumption ==
    /\ BatchSize \in Nat \ {0}
    /\ "worker" \in Flushers
    /\ Flushers \subseteq {"worker", "chore", "close"}

VARIABLES pendingRollups,  \* RollupData: a function on the keys present
          stopped,
          flushing,
          flusher,         \* [Flushers -> what it is doing]
          batch,           \* [Flushers -> the RollupData it writes]
          rollups,         \* bucket_bandwidth_rollups, the settled column
          lost

cacheVars == <<pendingRollups, stopped, flushing, flusher, batch, rollups,
               lost>>

NoData == [k \in {} |-> 0]

Amount(data, k) == IF k \in DOMAIN data THEN data[k] ELSE 0

\* The data with that of a key increased.
Added(data, k, n) ==
    [x \in DOMAIN data \union {k} |->
        Amount(data, x) + IF x = k THEN n ELSE 0]

Plus(table, data) == [k \in Keys |-> table[k] + Amount(data, k)]

\* What of a key waits in memory.
InCache(k) ==
    Amount(pendingRollups, k)
      + SumFunction([f \in Flushers |-> Amount(batch[f], k)])

CacheTypeOK ==
    /\ DOMAIN pendingRollups \subseteq Keys
    /\ \A k \in DOMAIN pendingRollups : pendingRollups[k] \in Nat
    /\ stopped \in BOOLEAN
    /\ flushing \in BOOLEAN
    /\ flusher \in [Flushers -> {"idle", "stopping", "waiting", "flushing",
                                 "done"}]
    /\ DOMAIN batch = Flushers
    /\ \A f \in Flushers : DOMAIN batch[f] \subseteq Keys
    /\ rollups \in [Keys -> Nat]
    /\ lost \in [Keys -> Nat]

CacheInit ==
    /\ pendingRollups = NoData
    /\ stopped = FALSE
    /\ flushing = FALSE
    /\ flusher = [f \in Flushers |-> "idle"]
    /\ batch = [f \in Flushers |-> NoData]
    /\ rollups = [k \in Keys |-> 0]
    /\ lost = [k \in Keys |-> 0]
-----------------------------------------------------------------------------
Full(data) == Cardinality(DOMAIN data) >= BatchSize

\* A full cache takes amounts for the keys it holds, and no others.
Refuses(k) == k \notin DOMAIN pendingRollups /\ Full(pendingRollups)

\* Mutant: the cache does not look at stopped.
AcceptingAlways == TRUE

Accepting == ~stopped

\* Mutant: the flag is not looked at.
MayFlushAlways == TRUE

\* A flusher may empty the cache.
MayFlush == ~flushing

\* resetCache, and the start of flush by f.
Take(f, data) ==
    /\ flushing' = TRUE
    /\ flusher' = [flusher EXCEPT ![f] = "flushing"]
    /\ batch' = [batch EXCEPT ![f] = data]
    /\ pendingRollups' = NoData

Keep(data) ==
    /\ pendingRollups' = data
    /\ UNCHANGED <<flushing, flusher, batch>>

\* UpdateBucketBandwidthSettle: the amount is added, or lost when the cache
\* is full; whoever leaves the cache full starts a flush, unless one runs.
Update(k, n) ==
    LET data == IF Refuses(k) THEN pendingRollups
                              ELSE Added(pendingRollups, k, n)
    IN
    /\ Accepting
    /\ lost' = IF Refuses(k) THEN [lost EXCEPT ![k] = @ + n] ELSE lost
    /\ IF Full(data) /\ MayFlush THEN Take("worker", data) ELSE Keep(data)
    /\ UNCHANGED <<stopped, rollups>>

\* The same call after CloseAndFlush: an error the caller only logs.
UpdateStopped(k, n) ==
    /\ ~Accepting
    /\ lost' = [lost EXCEPT ![k] = @ + n]
    /\ UNCHANGED <<pendingRollups, stopped, flushing, flusher, batch,
                   rollups>>

\* Flush takes the data at once, or waits for the flush that is running.
Flush(f, from) ==
    /\ f \in Flushers
    /\ flusher[f] = from
    /\ IF MayFlush THEN Take(f, pendingRollups)
       ELSE /\ flusher' = [flusher EXCEPT ![f] = "waiting"]
            /\ UNCHANGED <<pendingRollups, flushing, batch>>
    /\ UNCHANGED <<stopped, rollups, lost>>

ChoreFlush == Flush("chore", "idle")

\* The fence is released: whoever waits tries again.
Retry(f) ==
    /\ MayFlush
    /\ Flush(f, "waiting")

\* The chore's context ends while its Flush waits.
AbandonFlush ==
    /\ "chore" \in Flushers
    /\ flusher["chore"] = "waiting"
    /\ flusher' = [flusher EXCEPT !["chore"] = "idle"]
    /\ UNCHANGED <<pendingRollups, stopped, flushing, batch, rollups, lost>>

\* Mutant: flushing is left set.
FlushOverLocked(f) ==
    /\ flusher[f] = "flushing"
    /\ flusher' = [flusher EXCEPT ![f] = IF f = "close" THEN "done"
                                                         ELSE "idle"]
    /\ batch' = [batch EXCEPT ![f] = NoData]
    /\ UNCHANGED <<pendingRollups, stopped, flushing>>

\* The end of flush: the fence is released and flushing reset.
FlushOver(f) ==
    /\ flusher[f] = "flushing"
    /\ flusher' = [flusher EXCEPT ![f] = IF f = "close" THEN "done"
                                                         ELSE "idle"]
    /\ batch' = [batch EXCEPT ![f] = NoData]
    /\ flushing' = FALSE
    /\ UNCHANGED <<pendingRollups, stopped>>

\* UpdateBandwidthBatch adds every amount to its row in one transaction ...
WriteBatch(f) ==
    /\ FlushOver(f)
    /\ rollups' = Plus(rollups, batch[f])
    /\ UNCHANGED lost

\* ... or fails, and the whole batch is lost.
LoseBatch(f) ==
    /\ FlushOver(f)
    /\ lost' = Plus(lost, batch[f])
    /\ UNCHANGED rollups

\* CloseAndFlush refuses updates, waits for the goroutine, and flushes.
Stop ==
    /\ "close" \in Flushers
    /\ flusher["close"] = "idle"
    /\ stopped' = TRUE
    /\ flusher' = [flusher EXCEPT !["close"] = "stopping"]
    /\ UNCHANGED <<pendingRollups, flushing, batch, rollups, lost>>

WorkerGone == flusher["worker"] = "idle"

CloseFlush ==
    /\ WorkerGone
    /\ Flush("close", "stopping")

Closed == "close" \in Flushers /\ flusher["close"] = "done"

\* The process ends, after CloseAndFlush or by a crash, and another starts;
\* extra is what its handlers still had to add.
NewProcess(extra) ==
    /\ pendingRollups' = NoData
    /\ stopped' = FALSE
    /\ flushing' = FALSE
    /\ flusher' = [f \in Flushers |-> "idle"]
    /\ batch' = [f \in Flushers |-> NoData]
    /\ lost' = [k \in Keys |-> lost[k] + InCache(k) + extra[k]]
    /\ UNCHANGED rollups

FlusherStep ==
    \/ ChoreFlush
    \/ AbandonFlush
    \/ CloseFlush
    \/ \E f \in {"chore", "close"} : Retry(f)
    \/ \E f \in Flushers : WriteBatch(f)
-----------------------------------------------------------------------------
\* The batches of two flushers are never written at the same time, and the
\* flag says whether one is: Flush and updateCacheValue both set it under the
\* mutex.
OneFlush ==
    /\ \A f, g \in Flushers :
          flusher[f] = "flushing" /\ flusher[g] = "flushing" => f = g
    /\ flushing <=> \E f \in Flushers : flusher[f] = "flushing"

\* When CloseAndFlush returns, nothing is left in memory: every update that
\* returned without an error was written or reported as lost before the
\* process ends.
ClosedEmpty == Closed => \A k \in Keys : InCache(k) = 0
=============================================================================
