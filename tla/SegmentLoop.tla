---------------------------- MODULE SegmentLoop ----------------------------
(***************************************************************************)
(* The segment loop of a satellite (satellite/metabase/segmentloop): one   *)
(* loop that reads all segments for every observer that joined before a    *)
(* pass began.  A call of Join or Monitor hands an observer to the loop    *)
(* over an unbuffered channel and waits, without a way out of its own, for *)
(* the answer on the channel `done` of the observer: nil when it is closed *)
(* after a full pass, an error otherwise.                                  *)
(*                                                                         *)
(* Run repeats RunOnce: wait for observers until the coalescing timer      *)
(* fires, then iterate.  A step of the loop is one case of its select or   *)
(* one callback of one observer.  An observer answered twice is a send on  *)
(* a closed channel, a panic.  When a call has returned, its name is used  *)
(* again for a later call.                                                 *)
(***************************************************************************)
EXTENDS Integers, Sequences, SequencesExt

CONSTANTS
    Observers,     \* calls of Join and Monitor that may be there at a time
    MaxSegments,   \* bound: segments a pass may find
    Failures       \* the database and the callbacks of observers may fail

ASSUME LoopAssumption ==
    MaxSegments \in Nat /\ Failures \in BOOLEAN

VARIABLES
    call,          \* where a call is, and what it returned
    kind,          \* Join, Monitor or Join triggered by hand
    canceled,      \* the context of the call is done
    seen,          \* what its observer was called with: 0 is LoopStarted
    phase,         \* of RunOnce
    timer,         \* coalesceTimer
    timerStarted,
    list,          \* observers of this RunOnce
    kept,          \* nextObservers of withObservers
    turn,          \* index in list of the observer to be called next
    row,           \* what it is called with: 0 is LoopStarted, then the segments
    rows,          \* segments the pass finds
    stopping,      \* the context of Run is done
    closed,        \* Close was called
    panicked       \* done was used after it had been closed

calls == <<call, kind, canceled, seen>>
waitState == <<timer, timerStarted>>
passState == <<kept, turn, row, rows>>
service == <<stopping, closed>>
vars == <<calls, phase, waitState, list, passState, service, panicked>>

Kinds == {"join", "monitor", "manual"}
Answers == {"nil", "error", "canceled", "closed"}

Triggers(o) == kind[o] # "monitor"
Unanswered(o) == call[o] \in {"joining", "waiting"}

-----------------------------------------------------------------------------
(* Calls of Join and Monitor *)

Join(o, k) ==
    /\ call[o] = "idle"
    /\ call' = [call EXCEPT ![o] = "joining"]
    /\ kind' = [kind EXCEPT ![o] = k]
    /\ UNCHANGED <<canceled, seen, phase, waitState, list, passState, service, panicked>>

\* The context of the caller is canceled.
Cancel(o) ==
    /\ Unanswered(o) /\ ~canceled[o]
    /\ canceled' = [canceled EXCEPT ![o] = TRUE]
    /\ UNCHANGED <<call, kind, seen, phase, waitState, list, passState, service, panicked>>

\* joinObserver leaves its select before the loop has received the observer.
JoinGivesUp(o) ==
    /\ call[o] = "joining"
    /\ \/ canceled[o] /\ call' = [call EXCEPT ![o] = "canceled"]
       \/ closed /\ call' = [call EXCEPT ![o] = "closed"]
    /\ UNCHANGED <<kind, canceled, seen, phase, waitState, list, passState, service, panicked>>

Return(o) ==
    /\ call[o] \in Answers /\ o \notin ToSet(list)
    /\ call' = [call EXCEPT ![o] = "idle"]
    /\ kind' = [kind EXCEPT ![o] = "join"]
    /\ canceled' = [canceled EXCEPT ![o] = FALSE]
    /\ seen' = [seen EXCEPT ![o] = <<>>]
    /\ UNCHANGED <<phase, waitState, list, passState, service, panicked>>

-----------------------------------------------------------------------------
(* RunOnce: waiting for observers *)

\* HandleError and Finish of the observers S: the channel is closed.
Answer(S, a) ==
    /\ call' = [o \in Observers |-> IF o \in S THEN a ELSE call[o]]
    /\ panicked' = (panicked \/ \E o \in S : call[o] # "waiting")
    /\ UNCHANGED <<kind, canceled, seen>>

\* RunOnce has returned and Run begins the next one, with a new timer.
NextRun(p) ==
    /\ phase' = p
    /\ timer' = "stopped" /\ timerStarted' = FALSE
    /\ list' = <<>> /\ kept' = <<>> /\ turn' = 1 /\ row' = 0 /\ rows' = 0

\* The pass begins: GetTableStats, Now, and the segments there are.
BeginPass ==
    /\ phase' = "iterating"
    /\ rows' \in 0..MaxSegments
    /\ timer' = "stopped" /\ timerStarted' = FALSE
    /\ UNCHANGED <<kept, turn, row>>

\* Mutant: only the first observer may start the timer.
StartsTimerFirst(o) == Triggers(o) /\ list = <<>>

StartsTimer(o) == Triggers(o) /\ ~timerStarted

\* Case obsctx := <-loop.join.  The first observer that triggers starts the timer;
\* one triggered by hand begins the pass.
Accept(o) ==
    /\ phase = "waiting" /\ call[o] = "joining"
    /\ call' = [call EXCEPT ![o] = "waiting"]
    /\ list' = Append(list, o)
    /\ IF kind[o] = "manual"
       THEN BeginPass
       ELSE /\ IF StartsTimer(o)
               THEN timer' = "running" /\ timerStarted' = TRUE
               ELSE UNCHANGED waitState
            /\ UNCHANGED <<phase, passState>>
    /\ UNCHANGED <<kind, canceled, seen, service, panicked>>

TimerFires ==
    /\ timer = "running"
    /\ timer' = "fired"
    /\ UNCHANGED <<calls, phase, timerStarted, list, passState, service, panicked>>

\* Case <-coalesceTimer.C.
Coalesced ==
    /\ phase = "waiting" /\ timer = "fired"
    /\ BeginPass
    /\ UNCHANGED <<calls, list, service, panicked>>

StopTimer == "stopped"

Position(o) == CHOOSE i \in 1..Len(list) : list[i] = o

\* Mutant: the observers after it go as well.
WithoutRest(o) == SubSeq(list, 1, Position(o) - 1)

Without(o) == RemoveAt(list, Position(o))

\* monitorEarlyExit: sends the observer once, when its context is done.
Leaves(o) == canceled[o] /\ call[o] = "waiting"

\* Case obsctx := <-earlyExit: an observer leaves.  The timer is stopped when
\* nobody is left who triggers the loop; timerStarted stays what it is.
EarlyExit(o) ==
    /\ phase = "waiting" /\ o \in ToSet(list) /\ Leaves(o)
    /\ list' = Without(o)
    /\ Answer({o}, "canceled")
    /\ timer' = IF timerStarted /\ ~\E x \in ToSet(list') : Triggers(x)
                THEN StopTimer ELSE timer
    /\ UNCHANGED <<timerStarted, phase, passState, service>>

\* Case <-ctx.Done().
StopWaiting ==
    /\ phase = "waiting" /\ stopping
    /\ Answer(ToSet(list), "canceled")
    /\ NextRun("stopped")
    /\ UNCHANGED service

-----------------------------------------------------------------------------
(* RunOnce: the pass.  withObservers calls the observers one after the other   *)
(* and keeps those that did not fail.                                          *)

\* After the observer at turn: the next one, or the next segment for those kept.
Advance(k) ==
    /\ IF turn < Len(list)
       THEN /\ kept' = k /\ turn' = turn + 1
            /\ UNCHANGED <<list, row>>
       ELSE /\ list' = k /\ kept' = <<>> /\ turn' = 1
            /\ row' = row + 1
    /\ UNCHANGED <<phase, waitState, rows, service>>

\* Mutant: the iteration runs past its last segment.
CallingPastEnd(o) ==
    /\ phase = "iterating" /\ list # <<>> /\ o = list[turn]
    /\ row > 0 /\ turn = 1 => ~stopping

\* An observer is called: always with LoopStarted, with a segment if the context
\* of Run was not done when the segment was read.
Calling(o) ==
    /\ phase = "iterating" /\ list # <<>> /\ o = list[turn]
    /\ row <= rows
    /\ row > 0 /\ turn = 1 => ~stopping

\* The callback returns nil and, after a segment, the caller has not left.
Handle(o) ==
    /\ Calling(o)
    /\ row > 0 => ~canceled[o]
    /\ seen' = [seen EXCEPT ![o] = Append(@, row)]
    /\ Advance(Append(kept, o))
    /\ UNCHANGED <<call, kind, canceled, panicked>>

\* The callback fails, or the caller has left: HandleError.
Drop(o) ==
    /\ Calling(o)
    /\ \/ Failures /\ Answer({o}, "error")
       \/ row > 0 /\ canceled[o] /\ Answer({o}, "canceled")
    /\ Advance(kept)

\* errNoObservers.
NoObservers ==
    /\ phase = "iterating" /\ list = <<>>
    /\ NextRun("waiting")
    /\ UNCHANGED <<calls, service, panicked>>

\* What the deferred function of iterateDatabase answers after an error.
\* Mutant: it finishes the observers (the error is shadowed).
PassErrorShadowed == "nil"

PassError == "error"

\* A query fails between two calls of withObservers, the context of Run is done,
\* or the number of processed segments is suspicious.
PassFails ==
    /\ phase = "iterating" /\ list # <<>> /\ turn = 1
    /\ Failures \/ stopping
    /\ Answer(ToSet(list), PassError)
    /\ NextRun(IF stopping THEN "stopped" ELSE "waiting")
    /\ UNCHANGED service

PassEnds ==
    /\ phase = "iterating" /\ list # <<>> /\ row = rows + 1
    /\ Answer(ToSet(list), "nil")
    /\ NextRun("waiting")
    /\ UNCHANGED service

-----------------------------------------------------------------------------
(* The satellite stops: the context of Run is canceled, then Close is called *)

Stop ==
    /\ ~stopping
    /\ stopping' = TRUE
    /\ UNCHANGED <<calls, phase, waitState, list, passState, closed, panicked>>

Close ==
    /\ stopping /\ ~closed
    /\ closed' = TRUE
    /\ UNCHANGED <<calls, phase, waitState, list, passState, stopping, panicked>>

-----------------------------------------------------------------------------

Init ==
    /\ call = [o \in Observers |-> "idle"]
    /\ kind = [o \in Observers |-> "join"]
    /\ canceled = [o \in Observers |-> FALSE]
    /\ seen = [o \in Observers |-> <<>>]
    /\ phase = "waiting" /\ timer = "stopped" /\ timerStarted = FALSE
    /\ list = <<>> /\ kept = <<>> /\ turn = 1 /\ row = 0 /\ rows = 0
    /\ stopping = FALSE /\ closed = FALSE /\ panicked = FALSE

Client(o) == (\E k \in Kinds : Join(o, k)) \/ Cancel(o) \/ JoinGivesUp(o) \/ Return(o)
Waiting(o) == Accept(o) \/ EarlyExit(o)
Iterating == (\E o \in Observers : Handle(o) \/ Drop(o)) \/ NoObservers \/ PassFails \/ PassEnds

Next ==
    \/ \E o \in Observers : Client(o) \/ Waiting(o)
    \/ TimerFires \/ Coalesced \/ StopWaiting
    \/ Iterating
    \/ Stop \/ Close

Spec == Init /\ [][Next]_vars

(* Fairness.  Callbacks and queries return and timers fire.  A select picks one of
   its ready cases at random and a channel serves blocked senders in order, so
   that a case that is ready again and again is taken: strong fairness.  A peer
   whose Run has ended is closed. *)
Fairness ==
    /\ WF_vars(TimerFires) /\ WF_vars(Iterating) /\ WF_vars(Close)
    /\ SF_vars(Coalesced) /\ SF_vars(StopWaiting)
    /\ \A o \in Observers :
        WF_vars(JoinGivesUp(o)) /\ SF_vars(Accept(o)) /\ SF_vars(EarlyExit(o))

FairSpec == Spec /\ Fairness

-----------------------------------------------------------------------------
(* Properties *)

\* Every variable keeps the shape the code gives it.
TypeOK ==
    /\ call \in [Observers -> {"idle", "joining", "waiting"} \cup Answers]
    /\ kind \in [Observers -> Kinds]
    /\ canceled \in [Observers -> BOOLEAN]
    /\ seen \in [Observers -> Seq(0..MaxSegments)]
    /\ phase \in {"waiting", "iterating", "stopped"}
    /\ timer \in {"stopped", "running", "fired"}
    /\ timerStarted \in BOOLEAN
    /\ list \in Seq(Observers) /\ kept \in Seq(Observers)
    /\ turn \in Nat \ {0} /\ row \in 0..(MaxSegments + 1) /\ rows \in 0..MaxSegments
    /\ {stopping, closed, panicked} \subseteq BOOLEAN

\* Whichever of an early exit, a failing callback, a failing pass, the end of the
\* pass and the end of the loop come first, no observer is answered twice.
OneAnswer == ~panicked

\* No call waits on a channel that nobody is going to write to: an observer the
\* loop has taken is in the list of the current RunOnce until it is answered.
NobodyForgotten ==
    \A o \in Observers :
        call[o] = "waiting" => o \in ToSet(kept) \cup ToSet(SubSeq(list, turn, Len(list)))

\* Every observer gets one answer, and none waits for an answer nobody will give.
AnsweredOnce == OneAnswer /\ NobodyForgotten

\* "Only on full complete iteration it will return nil": the observer was called
\* with LoopStarted and then with every segment once, in order.
NilOnlyAfterFullPass ==
    [][\A o \in Observers :
        call[o] # "nil" /\ call'[o] = "nil" => seen[o] = [i \in 1..(rows + 1) |-> i - 1]]_vars

\* A call that is canceled returns, and so does every call when the loop is closed.
LeaversReturn ==
    \A o \in Observers : (canceled[o] \/ closed) /\ Unanswered(o) ~> ~Unanswered(o)

\* The loop waits with a timer that was started and stopped again: the observer
\* that had started it left early.
TimerLost == phase = "waiting" /\ timerStarted /\ timer = "stopped"

\* A call that triggers the loop returns, unless the timer is lost.
JoinReturnsUnlessTimerLost ==
    \A o \in Observers : Unanswered(o) /\ Triggers(o) ~> ~Unanswered(o) \/ TimerLost

\* Calls return.
CallsReturn == LeaversReturn /\ JoinReturnsUnlessTimerLost

\* "Joining will trigger a new iteration after coalesce duration", and so returns.
JoinReturns == \A o \in Observers : Unanswered(o) /\ Triggers(o) ~> ~Unanswered(o)
=============================================================================
