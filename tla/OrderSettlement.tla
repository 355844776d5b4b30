-------------------------- MODULE OrderSettlement --------------------------
(***************************************************************************)
(* How a storage node is paid for bandwidth: it collects signed orders in  *)
(* one unsent file per hour (storagenode/orders), sends each file to the   *)
(* satellite once no order can be added to it, and archives it with the    *)
(* satellite's answer.  The satellite (satellite/orders, satellitedb)      *)
(* credits the node for the window in one transaction and then charges the *)
(* buckets through its RollupsWriteCache.                                  *)
(*                                                                         *)
(* One node, one satellite and one bucket.  Time is in ticks; a window is  *)
(* named by its first tick.  An order is its limit: what it says never     *)
(* changes, and its amount is what the uplink signed last.                 *)
(***************************************************************************)
EXTENDS RollupsWriteCache, Sequences

CONSTANTS
    Orders, CreatedAt, Amounts, ActionOf,
    Actions,      \* all actions; UserActions are charged to the bucket
    UserActions,
    Hour,         \* ticks in a window
    Grace,        \* OrderLimitGracePeriod of the node
    Lifetime,     \* of an order, until its OrderExpiration
    SenderTimeout, \* a call is over this long after it began
    ArchiveAge,   \* of a rollup that the satellite archives
    MaxTime,      \* bound: the clock
    MaxFaults     \* bound: crashes, lost calls and answers, failures

None == "none"

\* The satellite keeps the rows of a window until none of its orders can be
\* settled any more.  The defaults are 24 hours and 90 days.
ASSUME AgesAssumption ==
    /\ {Hour, Grace, Lifetime, SenderTimeout, ArchiveAge, MaxTime, MaxFaults}
          \subseteq Nat
    /\ Hour > 0
    /\ ArchiveAge >= Lifetime + Hour + SenderTimeout

Window(o) == CreatedAt[o] - (CreatedAt[o] % Hour)
Windows == {Window(o) : o \in Orders}
ExpiresAt(o) == CreatedAt[o] + Lifetime

ASSUME OrdersAssumption ==
    /\ IsFiniteSet(Orders)
    /\ CreatedAt \in [Orders -> Nat]
    /\ Amounts \in [Orders -> Nat \ {0}]
    /\ ActionOf \in [Orders -> Actions]
    /\ UserActions \subseteq Actions
    /\ Keys = UserActions \X Windows

Calls == 1 .. (MaxFaults + 1)
Statuses == {"ACCEPTED", "REJECTED"}

VARIABLES
    now,
    faults,
    usedSerials,  \* of the node, in memory: serials of the orders it took
    active,       \* orders between BeginEnqueue and its commit
    unsent,       \* the unsent files: a function on the windows with one
    archive,      \* the archived files, likewise, with the answer
    sender,       \* the node's SendOrders
    calls,        \* SettlementWithWindow on the satellite: a function on ids
    rows,         \* storagenode_bandwidth_rollups of the node, by window
    rowArchive    \* storagenode_bandwidth_rollup_archives, summed

nodeVars == <<usedSerials, active, unsent, archive>>
dbVars == <<rows, rowArchive>>
vars == <<now, faults, nodeVars, sender, calls, dbVars, cacheVars>>

Idle == [pc |-> "idle", now |-> 0, window |-> 0, orders |-> <<>>,
         status |-> None]

ActiveIn(w) == {o \in active : Window(o) = w}

\* What the node has been credited for an action in a window.
Paid(w, a) == (IF w \in DOMAIN rows THEN Amount(rows[w], a) ELSE 0)
                + rowArchive[w][a]

TypeOK ==
    /\ CacheTypeOK
    /\ now \in 0 .. MaxTime
    /\ faults \in 0 .. MaxFaults
    /\ usedSerials \subseteq Orders
    /\ active \subseteq usedSerials
    /\ DOMAIN unsent \subseteq Windows
    /\ \A w \in DOMAIN unsent : Range(unsent[w]) \subseteq Orders
    /\ DOMAIN archive \subseteq Windows
    /\ \A w \in DOMAIN archive : archive[w].status \in Statuses
    /\ sender.pc \in {"idle", "list", "read", "send", "wait", "archive"}
    /\ DOMAIN calls \subseteq Calls
    /\ \A c \in DOMAIN calls :
          calls[c].pc \in {"receive", "settle", "charge"}
    /\ DOMAIN rows \subseteq Windows
    /\ rowArchive \in [Windows -> [Actions -> Nat]]

Init ==
    /\ CacheInit
    /\ now = 0
    /\ faults = 0
    /\ usedSerials = {}
    /\ active = {}
    /\ unsent = [w \in {} |-> <<>>]
    /\ archive = [w \in {} |-> <<>>]
    /\ sender = Idle
    /\ calls = [c \in {} |-> <<>>]
    /\ rows = [w \in {} |-> NoData]
    /\ rowArchive = [w \in Windows |-> [a \in Actions |-> 0]]

Fault == faults < MaxFaults /\ faults' = faults + 1
-----------------------------------------------------------------------------
\* The storage node: taking orders.

\* Function f with the value of x set, and with x removed.
With(f, x, v) == [y \in DOMAIN f \union {x} |-> IF y = x THEN v ELSE f[y]]
Without(f, x) == Restrict(f, DOMAIN f \ {x})

\* verifyOrderLimit and BeginEnqueue measure the same grace period.
Takes(o) ==
    /\ now <= ExpiresAt(o)
    /\ CreatedAt[o] - now <= Grace
    /\ now - CreatedAt[o] <= Grace
    /\ o \notin usedSerials

\* An upload or download begins; its window is busy until it ends.
BeginEnqueue(o) ==
    /\ Takes(o)
    /\ usedSerials' = usedSerials \union {o}
    /\ active' = active \union {o}
    /\ UNCHANGED <<now, faults, unsent, archive, sender, calls, dbVars,
                   cacheVars>>

File(w) == IF w \in DOMAIN unsent THEN unsent[w] ELSE <<>>

\* It ends with an order: the order is appended to the file of its window.
Commit(o) ==
    /\ o \in active
    /\ active' = active \ {o}
    /\ unsent' = With(unsent, Window(o), Append(File(Window(o)), o))
    /\ UNCHANGED <<now, faults, usedSerials, archive, sender, calls, dbVars,
                   cacheVars>>

\* It ends without one.
Abort(o) ==
    /\ o \in active
    /\ active' = active \ {o}
    /\ UNCHANGED <<now, faults, usedSerials, unsent, archive, sender, calls,
                   dbVars, cacheVars>>

\* The order cannot be written: the file exists, and an entry that cannot be
\* read is skipped when it is.
CommitFails(o) ==
    /\ Fault
    /\ o \in active
    /\ active' = active \ {o}
    /\ unsent' = With(unsent, Window(o), File(Window(o)))
    /\ UNCHANGED <<now, usedSerials, archive, sender, calls, dbVars,
                   cacheVars>>
-----------------------------------------------------------------------------
\* The storage node: sending the files.

\* ListUnsentBySatellite takes a file no order can be added to: the newest
\* order of the window is an hour younger than its name says.
GraceOver(w) == sender.now - (w + Hour) > Grace

\* Mutant: active uploads are not looked at.
NoneActiveUnchecked(w) == TRUE

NoneActive(w) == ActiveIn(w) = {}

Listed == {w \in DOMAIN unsent : GraceOver(w) /\ NoneActive(w)}

\* SendOrders keeps the time it began for all its rounds.
SendOrders ==
    /\ sender.pc = "idle"
    /\ sender' = [sender EXCEPT !.pc = "list", !.now = now]
    /\ UNCHANGED <<now, faults, nodeVars, calls, dbVars, cacheVars>>

\* One round takes the first file of the satellite, in the order of names.
List ==
    /\ sender.pc = "list"
    /\ \/ Listed = {} /\ sender' = Idle
       \/ \E w \in Listed :
             /\ \A v \in Listed : w <= v
             /\ sender' = [sender EXCEPT !.pc = "read", !.window = w]
    /\ UNCHANGED <<now, faults, nodeVars, calls, dbVars, cacheVars>>

\* The file is read without the lock that appending takes.
Read ==
    /\ sender.pc = "read"
    /\ sender' = [sender EXCEPT !.pc = "send",
                                !.orders = unsent[sender.window]]
    /\ UNCHANGED <<now, faults, nodeVars, calls, dbVars, cacheVars>>

\* settleWindow opens a stream and sends all orders.
Send ==
    /\ sender.pc = "send"
    /\ sender' = [sender EXCEPT !.pc = "wait"]
    /\ calls' = With(calls, CHOOSE c \in Calls \ DOMAIN calls : TRUE,
                     [pc |-> "receive", waited |-> TRUE,
                      rest |-> sender.orders, seen |-> {},
                      window |-> sender.window, settled |-> NoData,
                      charge |-> {}, status |-> None,
                      until |-> now + SenderTimeout])
    /\ UNCHANGED <<now, faults, nodeVars, dbVars, cacheVars>>

\* The calls after the node hung up on the one it waits for.
HungUp == [c \in DOMAIN calls |-> [calls[c] EXCEPT !.waited = FALSE]]

\* settleWindow fails: no connection, a timeout, or a lost answer.  The
\* satellite is left to the next cycle, which sends the file again.
SettleFails ==
    /\ Fault
    /\ sender.pc \in {"send", "wait"}
    /\ sender' = Idle
    /\ calls' = HungUp
    /\ UNCHANGED <<now, nodeVars, dbVars, cacheVars>>

\* The answer arrives.
Answer(c) ==
    /\ calls[c].pc = "charge"
    /\ calls[c].charge = {}
    /\ sender' = IF calls[c].waited
                 THEN [sender EXCEPT !.pc = "archive",
                                     !.status = calls[c].status]
                 ELSE sender
    /\ calls' = Without(calls, c)
    /\ UNCHANGED <<now, faults, nodeVars, dbVars, cacheVars>>

\* Archive moves the file, and the next round begins.
Archive ==
    LET w == sender.window IN
    /\ sender.pc = "archive"
    /\ archive' = With(archive, w, [status |-> sender.status,
                                    orders |-> unsent[w]])
    /\ unsent' = Without(unsent, w)
    /\ sender' = [Idle EXCEPT !.pc = "list", !.now = sender.now]
    /\ UNCHANGED <<now, faults, usedSerials, active, calls, dbVars,
                   cacheVars>>

\* Moving the file fails: the next round sends it again at once.
ArchiveFails ==
    /\ Fault
    /\ sender.pc = "archive"
    /\ sender' = [Idle EXCEPT !.pc = "list", !.now = sender.now]
    /\ UNCHANGED <<now, nodeVars, calls, dbVars, cacheVars>>

\* CleanArchive removes an archived file after its time.
CleanArchive(w) ==
    /\ w \in DOMAIN archive
    /\ archive' = Without(archive, w)
    /\ UNCHANGED <<now, faults, usedSerials, active, unsent, sender, calls,
                   dbVars, cacheVars>>

\* The node stops and starts: uploads end without an order, the serials it
\* saw are forgotten, the files stay.
NodeRestart ==
    /\ Fault
    /\ usedSerials' = {}
    /\ active' = {}
    /\ sender' = Idle
    /\ calls' = HungUp
    /\ UNCHANGED <<now, unsent, archive, dbVars, cacheVars>>
-----------------------------------------------------------------------------
\* The satellite: SettlementWithWindowFinal.

\* isValid, of what may change between two calls, and the serials seen in
\* this one.
Expired(o) == ExpiresAt(o) < now

\* Mutant: serials already seen are not remembered.
CountsAgain(call, o) == ~Expired(o)

Counts(call, o) == ~Expired(o) /\ o \notin call.seen

\* Recv of one order, or the end of the stream.
Receive(c) ==
    LET call == calls[c]
        o == Head(call.rest)
    IN
    /\ call.pc = "receive"
    /\ calls' =
          IF call.rest = <<>> THEN [calls EXCEPT ![c].pc = "settle"]
          ELSE IF ~Counts(call, o)
               THEN [calls EXCEPT ![c].rest = Tail(@)]
               ELSE [calls EXCEPT ![c] =
                       [call EXCEPT !.rest = Tail(call.rest), !.seen = call.seen \union {o},
                          !.settled = Added(call.settled, ActionOf[o], Amounts[o])]]
    /\ UNCHANGED <<now, faults, nodeVars, sender, dbVars, cacheVars>>

\* SettledAmountsMatch compares the sums of all actions.
SettledAmountsMatch(w, settled) == rows[w] = settled

\* Mutant: nothing settled leaves the status unset.
StatusOfUnset(call) ==
    IF call.settled = NoData THEN None
    ELSE IF call.window \in DOMAIN rows
         THEN IF SettledAmountsMatch(call.window, call.settled)
              THEN "ACCEPTED" ELSE "REJECTED"
         ELSE "ACCEPTED"

\* The answer to a window, and whether it was settled before.
StatusOf(call) ==
    IF call.settled = NoData THEN "REJECTED"
    ELSE IF call.window \in DOMAIN rows
         THEN IF SettledAmountsMatch(call.window, call.settled)
              THEN "ACCEPTED" ELSE "REJECTED"
         ELSE "ACCEPTED"

\* Mutant: alreadyProcessed is never set.
AlreadyProcessedNever(call) == FALSE

AlreadyProcessed(call) == call.window \in DOMAIN rows

ToCharge(call) == UserActions \intersect DOMAIN call.settled

\* UpdateStoragenodeBandwidthSettleWithWindow: one transaction; of two that
\* run together, one meets a constraint error and begins again.
Settle(c) ==
    LET call == calls[c]
        status == StatusOf(call)
        first == status = "ACCEPTED" /\ ~AlreadyProcessed(call)
    IN
    /\ call.pc = "settle"
    /\ rows' = IF first THEN With(rows, call.window, call.settled) ELSE rows
    /\ calls' = [calls EXCEPT ![c] =
                   [@ EXCEPT !.pc = "charge", !.status = status,
                             !.seen = {},
                             !.charge = IF first THEN ToCharge(call)
                                                 ELSE {}]]
    /\ UNCHANGED <<now, faults, nodeVars, sender, rowArchive, cacheVars>>

\* The handler returns an error: nobody waits for it, or the stream or the
\* database failed.
Failing(c) ==
    /\ calls[c].pc \in {"receive", "settle"}
    /\ IF calls[c].waited THEN Fault /\ sender' = Idle
                          ELSE UNCHANGED <<faults, sender>>
    /\ calls' = Without(calls, c)

HandlerFails(c) ==
    /\ Failing(c)
    /\ UNCHANGED <<now, nodeVars, dbVars, cacheVars>>

\* The transaction commits, and the handler sees an error all the same: the
\* node is credited, and nobody charges the bucket.
SettleUnknown(c) ==
    LET call == calls[c] IN
    /\ call.pc = "settle"
    /\ call.settled # NoData
    /\ ~AlreadyProcessed(call)
    /\ Failing(c)
    /\ rows' = With(rows, call.window, call.settled)
    /\ lost' = [k \in Keys |->
                  lost[k] + IF k[2] = call.window
                            THEN Amount(call.settled, k[1]) ELSE 0]
    /\ UNCHANGED <<now, nodeVars, rowArchive, pendingRollups, stopped,
                   flushing, flusher, batch, rollups>>

\* One bucket action is charged; a cache that stopped is only logged.
Charge(c, a) ==
    LET call == calls[c]
        key == <<a, call.window>>
    IN
    /\ call.pc = "charge"
    /\ a \in call.charge
    /\ Update(key, call.settled[a]) \/ UpdateStopped(key, call.settled[a])
    /\ calls' = [calls EXCEPT ![c].charge = @ \ {a}]
    /\ UNCHANGED <<now, faults, nodeVars, sender, dbVars>>
-----------------------------------------------------------------------------
\* ArchiveRollups moves the rows of the windows that are old enough.
Archivable(w) == w <= now - ArchiveAge

ArchiveRollups ==
    LET old == {w \in DOMAIN rows : Archivable(w)} IN
    /\ old # {}
    /\ rowArchive' = [w \in Windows |-> [a \in Actions |->
                        rowArchive[w][a] + IF w \in old
                                           THEN Amount(rows[w], a) ELSE 0]]
    /\ rows' = Restrict(rows, DOMAIN rows \ old)
    /\ UNCHANGED <<now, faults, nodeVars, sender, calls, cacheVars>>

\* What the calls of a process still had to charge.
Uncharged(k) ==
    LET of(call) == IF call.window = k[2] /\ k[1] \in call.charge
                    THEN call.settled[k[1]] ELSE 0
    IN SumFunction([c \in DOMAIN calls |-> of(calls[c])])

\* The API process of the satellite is told to end.
StopSatellite ==
    /\ Fault
    /\ Stop
    /\ UNCHANGED <<now, nodeVars, sender, calls, dbVars>>

\* It ends, in order or not, and another starts.
SatelliteRestart ==
    /\ IF Closed THEN UNCHANGED faults ELSE Fault
    /\ NewProcess([k \in Keys |-> Uncharged(k)])
    /\ calls' = [c \in {} |-> <<>>]
    /\ sender' = IF sender.pc = "wait" THEN Idle ELSE sender
    /\ UNCHANGED <<now, nodeVars, dbVars>>

Flusher == FlusherStep /\ UNCHANGED <<now, faults, nodeVars, sender, calls,
                                      dbVars>>

\* The database refuses a batch.
FlushFails ==
    /\ Fault
    /\ \E f \in Flushers : LoseBatch(f)
    /\ UNCHANGED <<now, nodeVars, sender, calls, dbVars>>

\* Calls end in time: the node cancels its stream, and with it the handler.
Tick ==
    /\ now < MaxTime
    /\ \A c \in DOMAIN calls : now < calls[c].until
    /\ now' = now + 1
    /\ UNCHANGED <<faults, nodeVars, sender, calls, dbVars, cacheVars>>

SenderStep ==
    \/ SendOrders \/ List \/ Read \/ Send \/ Archive

HandlerStep(c) ==
    \/ Receive(c) \/ Settle(c) \/ Answer(c)
    \/ \E a \in UserActions : Charge(c, a)

Next ==
    \/ \E o \in Orders : \/ BeginEnqueue(o) \/ Commit(o) \/ Abort(o)
                         \/ CommitFails(o)
    \/ SenderStep \/ SettleFails \/ ArchiveFails \/ NodeRestart
    \/ \E w \in Windows : CleanArchive(w)
    \/ \E c \in DOMAIN calls : \/ HandlerStep(c) \/ HandlerFails(c)
                               \/ SettleUnknown(c)
    \/ ArchiveRollups \/ StopSatellite \/ SatelliteRestart
    \/ Flusher \/ FlushFails \/ Tick

Spec == Init /\ [][Next]_vars
-----------------------------------------------------------------------------
\* While a file is sent, and after it was archived, no order is added to its
\* window: such an order would be settled in no call, or make a second file
\* the satellite rejects.  The grace period, the hour added to it and the
\* count of active uploads must work together for it; reading the file takes
\* no lock.
SentFileComplete ==
    /\ sender.pc \in {"send", "wait", "archive"} =>
          unsent[sender.window] = sender.orders
    /\ DOMAIN archive \intersect DOMAIN unsent = {}

\* The amounts of all orders of a window, whether the node took them or not.
Worth(w, a) ==
    SumFunctionOnSet(Amounts, {o \in Orders : Window(o) = w /\ ActionOf[o] = a})

\* A window is credited once, however often its file is sent, by whichever
\* calls, before or after its rows were archived, and an order that was
\* taken twice (the serials are forgotten when the node restarts) counts once.
NeverOverpaid ==
    \A w \in Windows, a \in Actions : Paid(w, a) <= Worth(w, a)

\* A call that answers ACCEPTED has counted exactly what the node was
\* credited, in this call or in an earlier one whose answer was lost.
AcceptedIsPaid ==
    \A c \in DOMAIN calls :
        calls[c].status = "ACCEPTED" =>
            \A a \in Actions :
                Paid(calls[c].window, a) = Amount(calls[c].settled, a)

\* A window is paid once, and the node is told so.
PaidOnce == NeverOverpaid /\ AcceptedIsPaid

\* What the node was credited for user actions is charged to the bucket,
\* waits in a call or in the cache, or was lost: nothing is charged twice,
\* and nothing disappears without an error, whatever calls and flushes run
\* at the same time.
Accounted ==
    \A k \in Keys :
        Paid(k[2], k[1]) = rollups[k] + InCache(k) + Uncharged(k) + lost[k]

\* "Batches are atomic, all orders are settled successfully or they all
\* fail" (satellite/orders/endpoint.go:206): a file that was archived as
\* accepted was credited with all of its orders.
AllOrNothing ==
    \A w \in DOMAIN archive :
        archive[w].status = "ACCEPTED" =>
            \A a \in Actions :
                Paid(w, a) =
                  SumFunctionOnSet(Amounts, {o \in Range(archive[w].orders) :
                                                ActionOf[o] = a})

\* The sender and the handlers go on, uploads end, time passes; a cycle comes
\* again and again, and so do the flushes.
FairSpec ==
    /\ Spec
    /\ WF_vars(SenderStep) /\ WF_vars(Tick)
    /\ \A o \in Orders : WF_vars(Commit(o) \/ Abort(o))
    /\ \A c \in Calls : WF_vars(c \in DOMAIN calls /\ HandlerStep(c))
    /\ WF_vars(Flusher /\ ChoreFlush)
    /\ WF_vars(Flusher /\ CloseFlush)
    /\ \A f \in {"chore", "close"} : SF_vars(Flusher /\ Retry(f))
    /\ WF_vars(Flusher /\ \E f \in Flushers : WriteBatch(f))

\* Every file is sent and archived in the end, whatever is lost on the way,
\* and although an older window is always listed first.
EveryFileArchived ==
    \A w \in Windows : w \in DOMAIN unsent ~> w \notin DOMAIN unsent

\* What is in the cache is written in the end: no flush waits for ever for
\* another one.
CacheEmptied ==
    \A k \in Keys : InCache(k) > 0 ~> InCache(k) = 0

\* What the node and the satellite keep for later is settled.
EverythingSettled == EveryFileArchived /\ CacheEmptied
=============================================================================
