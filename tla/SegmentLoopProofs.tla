------------------------- MODULE SegmentLoopProofs -------------------------
(***************************************************************************)
(* Every call gets one answer, and nil only after a full pass, for any     *)
(* number of calls and segments.  The observers of a pass stand in two     *)
(* places: those not yet called with the current segment, and those kept   *)
(* from before.  All of them, and nobody else, wait.                       *)
(***************************************************************************)
EXTENDS SegmentLoop, SequenceTheorems, TLAPS

Ahead == turn..Len(list)
Behind == 1..Len(kept)

\* LoopStarted and the first segments, k callbacks in all.
Begun(k) == [i \in 1..k |-> i - 1]

\* A segment is handed to one observer after the other, between two waits.
OrderInv ==
    /\ turn <= Len(list) \/ (list = <<>> /\ turn = 1)
    /\ Len(kept) < turn
    /\ phase # "iterating" => turn = 1 /\ row = 0
    /\ turn > 1 => row <= rows
    /\ row <= rows + 1

\* Whoever the loop holds waits, and has seen what was read so far.
HeldInv ==
    /\ \A i \in Ahead : call[list[i]] = "waiting" /\ seen[list[i]] = Begun(row)
    /\ \A i \in Behind : call[kept[i]] = "waiting" /\ seen[kept[i]] = Begun(row + 1)

\* Nobody is held twice.
OnceInv ==
    /\ \A i, j \in Ahead : list[i] = list[j] => i = j
    /\ \A i, j \in Behind : kept[i] = kept[j] => i = j
    /\ \A i \in Ahead, j \in Behind : list[i] # kept[j]

\* Whoever waits is held.
FoundInv ==
    \A o \in Observers : call[o] = "waiting" =>
        (\E i \in Ahead : list[i] = o) \/ (\E i \in Behind : kept[i] = o)

FreshInv == \A o \in Observers : call[o] \in {"idle", "joining"} => seen[o] = <<>>

Inv == TypeOK /\ OrderInv /\ HeldInv /\ OnceInv /\ FoundInv /\ FreshInv /\ ~panicked

-----------------------------------------------------------------------------

LEMMA BegunNothing == Begun(0) = <<>>
  BY DEF Begun

LEMMA BegunNext ==
  ASSUME NEW k \in Nat
  PROVE  Append(Begun(k), k) = Begun(k + 1)
<1>1. Begun(k) \in Seq(Int) /\ Begun(k + 1) \in Seq(Int)
  BY DEF Begun
<1>2. Len(Begun(k)) = k /\ Len(Begun(k + 1)) = k + 1
  BY DEF Begun
<1>3. /\ Append(Begun(k), k) \in Seq(Int)
      /\ Len(Append(Begun(k), k)) = k + 1
      /\ \A i \in 1..k : Append(Begun(k), k)[i] = Begun(k)[i]
      /\ Append(Begun(k), k)[k + 1] = k
  BY <1>1, <1>2, AppendProperties
<1>4. \A i \in 1..(k + 1) : Append(Begun(k), k)[i] = Begun(k + 1)[i]
  BY <1>3 DEF Begun
<1> QED
  BY <1>1, <1>2, <1>3, <1>4, SeqEqual

LEMMA InvInit == Init => Inv
<1> SUFFICES ASSUME Init PROVE Inv
  OBVIOUS
<1> USE LoopAssumption DEF Init
<1>1. TypeOK
  <2>1. <<>> \in Seq(Observers) /\ <<>> \in Seq(0..MaxSegments)
    BY EmptySeq
  <2>2. /\ call \in [Observers -> {"idle", "joining", "waiting"} \cup Answers]
        /\ kind \in [Observers -> Kinds]
        /\ canceled \in [Observers -> BOOLEAN]
        /\ seen \in [Observers -> Seq(0..MaxSegments)]
    BY <2>1 DEF Kinds
  <2>3. {stopping, closed, panicked} \subseteq BOOLEAN
    OBVIOUS
  <2>4. turn \in Nat \ {0} /\ row \in 0..(MaxSegments + 1) /\ rows \in 0..MaxSegments
    OBVIOUS
  <2> QED
    BY <2>1, <2>2, <2>3, <2>4 DEF TypeOK
<1>2. OrderInv /\ FoundInv /\ FreshInv /\ ~panicked
  BY DEF OrderInv, FoundInv, FreshInv
<1>3. Ahead = {} /\ Behind = {}
  BY DEF Ahead, Behind
<1>4. HeldInv /\ OnceInv
  BY <1>3 DEF HeldInv, OnceInv
<1> QED
  BY <1>1, <1>2, <1>4 DEF Inv

-----------------------------------------------------------------------------
(* Calls *)

LEMMA JoinStep ==
  ASSUME Inv, NEW o \in Observers, NEW k \in Kinds, Join(o, k)
  PROVE  Inv'
<1> USE DEF Join, calls, waitState, passState, service
<1>1. TypeOK'
  BY DEF Inv, TypeOK, Answers
<1>2. OrderInv' /\ FoundInv' /\ FreshInv' /\ ~panicked'
  BY DEF Inv, TypeOK, OrderInv, FoundInv, FreshInv, Ahead, Behind
<1>3. HeldInv' /\ OnceInv'
  <2>1. \A x : call[x] = "waiting" => call'[x] = "waiting"
    BY DEF Inv, TypeOK
  <2> QED
    BY <2>1 DEF Inv, HeldInv, OnceInv, Ahead, Behind, Begun
<1> QED
  BY <1>1, <1>2, <1>3 DEF Inv

LEMMA CancelStep ==
  ASSUME Inv, NEW o \in Observers, Cancel(o)
  PROVE  Inv'
<1> USE DEF Cancel, calls, waitState, passState, service
<1>1. TypeOK'
  BY DEF Inv, TypeOK
<1>2. OrderInv' /\ FoundInv' /\ FreshInv' /\ ~panicked'
  BY DEF Inv, OrderInv, FoundInv, FreshInv, Ahead, Behind
<1>3. HeldInv' /\ OnceInv'
  BY DEF Inv, HeldInv, OnceInv, Ahead, Behind, Begun
<1> QED
  BY <1>1, <1>2, <1>3 DEF Inv

LEMMA JoinGivesUpStep ==
  ASSUME Inv, NEW o \in Observers, JoinGivesUp(o)
  PROVE  Inv'
<1> USE DEF JoinGivesUp, calls, waitState, passState, service
<1>1. PICK a \in {"canceled", "closed"} : call' = [call EXCEPT ![o] = a]
  OBVIOUS
<1>2. TypeOK'
  BY <1>1 DEF Inv, TypeOK, Answers
<1>3. OrderInv' /\ FoundInv' /\ FreshInv' /\ ~panicked'
  BY <1>1 DEF Inv, TypeOK, OrderInv, FoundInv, FreshInv, Ahead, Behind
<1>4. HeldInv' /\ OnceInv'
  <2>1. \A x : call[x] = "waiting" => call'[x] = "waiting"
    BY <1>1 DEF Inv, TypeOK
  <2> QED
    BY <2>1 DEF Inv, HeldInv, OnceInv, Ahead, Behind, Begun
<1> QED
  BY <1>2, <1>3, <1>4 DEF Inv

LEMMA ReturnStep ==
  ASSUME Inv, NEW o \in Observers, Return(o)
  PROVE  Inv'
<1> USE DEF Return, calls, waitState, passState, service
<1>0. <<>> \in Seq(0..MaxSegments)
  BY EmptySeq
<1>1. TypeOK'
  BY <1>0 DEF Inv, TypeOK, Answers, Kinds
<1>2. call[o] # "waiting"
  BY DEF Answers
<1>3. OrderInv' /\ FoundInv' /\ FreshInv' /\ ~panicked'
  BY <1>2 DEF Inv, TypeOK, OrderInv, FoundInv, FreshInv, Ahead, Behind
<1>4. HeldInv' /\ OnceInv'
  <2>1. \A x : call[x] = "waiting" => call'[x] = "waiting" /\ seen'[x] = seen[x]
    BY <1>2 DEF Inv, TypeOK
  <2> QED
    BY <2>1 DEF Inv, HeldInv, OnceInv, Ahead, Behind, Begun
<1> QED
  BY <1>1, <1>3, <1>4 DEF Inv

-----------------------------------------------------------------------------
(* Steps of the loop that leave the lists alone *)

LEMMA QuietStep ==
  ASSUME Inv, UNCHANGED <<calls, panicked, list, kept, turn, row, rows>>,
         phase' = phase, TypeOK'
  PROVE  Inv'
<1> USE DEF calls
<1>1. OrderInv' /\ FoundInv' /\ FreshInv' /\ ~panicked'
  BY DEF Inv, OrderInv, FoundInv, FreshInv, Ahead, Behind
<1>2. HeldInv' /\ OnceInv'
  BY DEF Inv, HeldInv, OnceInv, Ahead, Behind, Begun
<1> QED
  BY <1>1, <1>2 DEF Inv

LEMMA TimerFiresStep == ASSUME Inv, TimerFires PROVE Inv'
<1>1. TypeOK'
  BY DEF Inv, TypeOK, TimerFires, calls, passState, service
<1> QED
  BY <1>1, QuietStep DEF TimerFires, passState

LEMMA StopStep == ASSUME Inv, Stop PROVE Inv'
<1>1. TypeOK'
  BY DEF Inv, TypeOK, Stop, calls, passState, waitState
<1> QED
  BY <1>1, QuietStep DEF Stop, passState

LEMMA CloseStep == ASSUME Inv, Close PROVE Inv'
<1>1. TypeOK'
  BY DEF Inv, TypeOK, Close, calls, passState, waitState
<1> QED
  BY <1>1, QuietStep DEF Close, passState

\* A pass begins with the observers that wait.
LEMMA BeginPassStep ==
  ASSUME Inv, phase = "waiting", BeginPass, UNCHANGED <<calls, list, service, panicked>>
  PROVE  Inv'
<1>1. TypeOK'
  BY LoopAssumption DEF Inv, TypeOK, BeginPass, calls, service
<1>2. /\ phase' = "iterating" /\ rows' \in Nat
      /\ UNCHANGED <<call, seen, list, kept, turn, row, panicked>>
  BY LoopAssumption DEF BeginPass, calls
<1>3. OrderInv'
  <2>1. turn = 1 /\ row = 0 /\ Len(kept) < turn
    BY DEF Inv, OrderInv
  <2>2. turn <= Len(list) \/ (list = <<>> /\ turn = 1)
    BY DEF Inv, OrderInv
  <2>3. PICK r \in Nat : rows' = r
    BY <1>2
  <2> QED
    BY <1>2, <2>1, <2>2, <2>3 DEF OrderInv
<1>4. FoundInv' /\ FreshInv' /\ ~panicked'
  BY <1>2 DEF Inv, FoundInv, FreshInv, Ahead, Behind
<1>5. HeldInv' /\ OnceInv'
  BY <1>2 DEF Inv, HeldInv, OnceInv, Ahead, Behind, Begun
<1> QED
  BY <1>1, <1>3, <1>4, <1>5 DEF Inv

LEMMA CoalescedStep == ASSUME Inv, Coalesced PROVE Inv'
  BY BeginPassStep DEF Coalesced

-----------------------------------------------------------------------------
(* The loop takes observers and lets them go *)

\* An observer that joins is held once, and has seen nothing yet.
LEMMA AcceptStep ==
  ASSUME Inv, NEW o \in Observers, Accept(o)
  PROVE  Inv'
<1>1. /\ phase = "waiting" /\ call[o] = "joining"
      /\ call' = [call EXCEPT ![o] = "waiting"] /\ list' = Append(list, o)
      /\ UNCHANGED <<kind, canceled, seen, kept, turn, row, service, panicked>>
      /\ rows' \in 0..MaxSegments
      /\ phase' \in {"waiting", "iterating"}
      /\ timer' \in {"stopped", "running", "fired"} /\ timerStarted' \in BOOLEAN
  BY DEF Accept, BeginPass, passState, waitState, Inv, TypeOK
<1>2. /\ list' \in Seq(Observers) /\ Len(list') = Len(list) + 1
      /\ \A i \in 1..Len(list) : list'[i] = list[i]
      /\ list'[Len(list) + 1] = o
  BY <1>1, AppendProperties DEF Inv, TypeOK
<1>3. TypeOK'
  BY <1>1, <1>2 DEF Inv, TypeOK, service
<1>4. turn = 1 /\ row = 0 /\ kept = <<>> /\ Behind = {} /\ Len(list) \in Nat
  <2>1. turn = 1 /\ row = 0 /\ Len(kept) < 1
    BY <1>1 DEF Inv, OrderInv
  <2>2. kept \in Seq(Observers) /\ list \in Seq(Observers)
    BY DEF Inv, TypeOK
  <2> QED
    BY <2>1, <2>2, EmptySeq, LenProperties DEF Behind
<1>5. OrderInv'
  <2>1. PICK r \in Nat : rows' = r
    BY <1>1, LoopAssumption
  <2>2. Len(kept) = 0
    BY <1>4, EmptySeq
  <2>3. PICK m \in Nat : Len(list') = m + 1
    BY <1>2, <1>4
  <2> QED
    BY <1>1, <1>4, <2>1, <2>2, <2>3 DEF OrderInv
<1>6. Ahead = 1..Len(list) /\ Ahead' = 1..(Len(list) + 1) /\ Behind' = {}
  BY <1>1, <1>2, <1>4 DEF Ahead, Behind
<1>7. \A i \in Ahead : call[list[i]] = "waiting" /\ list[i] \in Observers /\ list[i] # o
  BY <1>1, <1>6 DEF Inv, HeldInv, TypeOK
<1>8. HeldInv'
  <2>1. seen[o] = Begun(0)
    BY <1>1, BegunNothing DEF Inv, FreshInv
  <2>2. call'[o] = "waiting" /\ \A x \in Observers \ {o} : call'[x] = call[x]
    BY <1>1 DEF Inv, TypeOK
  <2>3. ASSUME NEW i \in Ahead'
        PROVE  call'[list'[i]] = "waiting" /\ seen'[list'[i]] = Begun(row')
    <3>1. CASE i = Len(list) + 1
      BY <3>1, <1>1, <1>2, <1>4, <2>1, <2>2
    <3>2. CASE i # Len(list) + 1
      <4>1. i \in Ahead /\ list'[i] = list[i]
        BY <3>2, <1>2, <1>4, <1>6
      <4>2. seen[list[i]] = Begun(row)
        BY <4>1 DEF Inv, HeldInv
      <4> QED
        BY <4>1, <4>2, <1>1, <1>7, <2>2
    <3> QED
      BY <3>1, <3>2
  <2> QED
    BY <2>3, <1>6 DEF HeldInv, Begun
<1>9. OnceInv'
  <2>1. ASSUME NEW i \in Ahead', NEW j \in Ahead', list'[i] = list'[j], i < j
        PROVE  FALSE
    <3>1. i \in Ahead /\ list'[i] = list[i]
      BY <2>1, <1>2, <1>4, <1>6
    <3>2. CASE j = Len(list) + 1
      BY <2>1, <3>1, <3>2, <1>2, <1>7
    <3>3. CASE j # Len(list) + 1
      <4>1. j \in Ahead /\ list'[j] = list[j]
        BY <3>3, <1>2, <1>4, <1>6
      <4>2. list[i] = list[j]
        BY <2>1, <3>1, <4>1
      <4>3. i = j
        BY <3>1, <4>1, <4>2 DEF Inv, OnceInv
      <4> QED
        BY <2>1, <4>3, <1>4, <1>6
    <3> QED
      BY <3>2, <3>3
  <2>2. Ahead' \subseteq Int
    BY <1>4, <1>6
  <2>3. \A i, j \in Ahead' : list'[i] = list'[j] => i = j
    <3>1. \A i, j \in Ahead' : i # j => i < j \/ j < i
      BY <2>2
    <3> QED
      BY <2>1, <3>1
  <2> QED
    BY <2>3, <1>6 DEF OnceInv
<1>10. FoundInv'
  <2>1. ASSUME NEW x \in Observers, call'[x] = "waiting"
        PROVE  \E i \in Ahead' : list'[i] = x
    <3>1. CASE x = o
      BY <3>1, <1>2, <1>4, <1>6
    <3>2. CASE x # o
      <4>1. call[x] = "waiting"
        BY <2>1, <3>2, <1>1 DEF Inv, TypeOK
      <4>2. PICK i \in Ahead : list[i] = x
        BY <4>1, <1>4 DEF Inv, FoundInv
      <4> QED
        BY <4>2, <1>2, <1>4, <1>6
    <3> QED
      BY <3>1, <3>2
  <2> QED
    BY <2>1 DEF FoundInv
<1>11. FreshInv' /\ ~panicked'
  BY <1>1 DEF Inv, FreshInv, TypeOK
<1> QED
  BY <1>3, <1>5, <1>8, <1>9, <1>10, <1>11 DEF Inv

\* Everybody is answered, and nobody waits when the next RunOnce begins.
LEMMA AnswerAllStep ==
  ASSUME Inv, turn = 1, NEW a \in Answers, Answer(ToSet(list), a),
         NEW p \in {"waiting", "stopped"}, NextRun(p), UNCHANGED service
  PROVE  Inv'
<1>1. Ahead = 1..Len(list) /\ Behind = {}
  <2>1. Len(kept) < 1 /\ kept \in Seq(Observers)
    BY DEF Inv, OrderInv, TypeOK
  <2> QED
    BY <2>1, LenProperties DEF Ahead, Behind
<1>2. ToSet(list) = {list[i] : i \in Ahead}
  <2>1. DOMAIN list = 1..Len(list)
    BY LenProperties DEF Inv, TypeOK
  <2> QED
    BY <1>1, <2>1 DEF ToSet
<1>3. \A x \in Observers : call[x] = "waiting" <=> x \in ToSet(list)
  BY <1>1, <1>2 DEF Inv, FoundInv, HeldInv
<1>4. ToSet(list) \subseteq Observers
  BY <1>1, <1>2, ElementOfSeq DEF Inv, TypeOK
<1>5. /\ call' = [x \in Observers |-> IF x \in ToSet(list) THEN a ELSE call[x]]
      /\ UNCHANGED <<kind, canceled, seen>>
      /\ panicked' = (panicked \/ \E x \in ToSet(list) : call[x] # "waiting")
  BY DEF Answer
<1>6. \A x \in Observers : call'[x] # "waiting"
  BY <1>3, <1>5 DEF Answers
<1>7. ~panicked'
  BY <1>3, <1>4, <1>5 DEF Inv
<1>8. /\ phase' = p /\ timer' = "stopped" /\ timerStarted' = FALSE
      /\ list' = <<>> /\ kept' = <<>> /\ turn' = 1 /\ row' = 0 /\ rows' = 0
  BY DEF NextRun
<1>9. TypeOK'
  <2>1. call' \in [Observers -> {"idle", "joining", "waiting"} \cup Answers]
    BY <1>5 DEF Inv, TypeOK
  <2>2. panicked' \in BOOLEAN
    <3>1. (panicked \/ \E x \in ToSet(list) : call[x] # "waiting") \in BOOLEAN
      OBVIOUS
    <3> QED
      BY <3>1, <1>5, Zenon
  <2>3. list' \in Seq(Observers) /\ kept' \in Seq(Observers)
    BY <1>8, EmptySeq
  <2>4. /\ turn' \in Nat \ {0} /\ row' \in 0..(MaxSegments + 1)
        /\ rows' \in 0..MaxSegments
    BY <1>8, LoopAssumption
  <2>5. {stopping', closed', panicked'} \subseteq BOOLEAN
    BY <2>2 DEF Inv, TypeOK, service
  <2> QED
    BY <1>5, <1>8, <2>1, <2>3, <2>4, <2>5 DEF Inv, TypeOK
<1>10. OrderInv' /\ FoundInv'
  BY <1>6, <1>8 DEF OrderInv, FoundInv
<1>11. HeldInv' /\ OnceInv'
  <2>1. Ahead' = {} /\ Behind' = {}
    BY <1>8 DEF Ahead, Behind
  <2> QED
    BY <2>1 DEF HeldInv, OnceInv
<1>12. FreshInv'
  <2>1. \A x \in Observers : call'[x] \in {"idle", "joining"} => call[x] = call'[x]
    BY <1>5 DEF Answers
  <2> QED
    BY <1>5, <2>1 DEF Inv, FreshInv
<1> QED
  BY <1>7, <1>9, <1>10, <1>11, <1>12 DEF Inv

LEMMA StopWaitingStep == ASSUME Inv, StopWaiting PROVE Inv'
<1>1. turn = 1
  BY DEF StopWaiting, Inv, OrderInv
<1> QED
  BY <1>1, AnswerAllStep DEF StopWaiting, Answers

LEMMA PassFailsStep == ASSUME Inv, PassFails PROVE Inv'
  BY AnswerAllStep DEF PassFails, PassError, Answers

LEMMA PassEndsStep == ASSUME Inv, PassEnds PROVE Inv'
<1>1. turn = 1
  <2>1. row = rows + 1 /\ rows \in Nat /\ turn \in Nat \ {0}
    BY LoopAssumption DEF PassEnds, Inv, TypeOK
  <2>2. turn > 1 => row <= rows
    BY DEF Inv, OrderInv
  <2> QED
    BY <2>1, <2>2
<1> QED
  BY <1>1, AnswerAllStep DEF PassEnds, Answers

LEMMA NoObserversStep == ASSUME Inv, NoObservers PROVE Inv'
<1>1. /\ list = <<>> /\ NextRun("waiting") /\ UNCHANGED <<calls, service, panicked>>
  BY DEF NoObservers
<1>2. turn = 1
  <2>1. turn \in Nat \ {0} /\ Len(list) = 0
    BY <1>1, EmptySeq DEF Inv, TypeOK
  <2> QED
    BY <2>1 DEF Inv, OrderInv
<1>3. ToSet(list) = {}
  BY <1>1 DEF ToSet
<1>4. call' = [x \in Observers |-> call[x]]
  BY <1>1 DEF calls, Inv, TypeOK
<1>5. panicked \in BOOLEAN
  BY DEF Inv, TypeOK
<1>6. Answer(ToSet(list), "nil")
  BY <1>1, <1>3, <1>4, <1>5 DEF Answer, calls
<1> QED
  BY <1>1, <1>2, <1>6, AnswerAllStep DEF Answers

LEMMA RemoveAtProperties ==
  ASSUME NEW S, NEW s \in Seq(S), NEW p \in 1..Len(s)
  PROVE  /\ RemoveAt(s, p) \in Seq(S)
         /\ Len(RemoveAt(s, p)) = Len(s) - 1
         /\ \A i \in 1..(Len(s) - 1) :
                RemoveAt(s, p)[i] = IF i < p THEN s[i] ELSE s[i + 1]
<1> DEFINE front == SubSeq(s, 1, p - 1)
           back == SubSeq(s, p + 1, Len(s))
<1>1. Len(s) \in Nat /\ \A i \in 1..Len(s) : s[i] \in S
  BY LenProperties, ElementOfSeq
<1>2. /\ front \in Seq(S) /\ Len(front) = p - 1
      /\ \A i \in 1..(p - 1) : front[i] = s[i]
  <2>1. \A i \in 1..(p - 1) : s[i] \in S
    BY <1>1
  <2>2. /\ front \in Seq(S)
        /\ Len(front) = IF 1 <= p - 1 THEN p - 1 - 1 + 1 ELSE 0
        /\ \A i \in 1..(p - 1 - 1 + 1) : front[i] = s[1 + i - 1]
    BY <1>1, <2>1, SubSeqProperties
  <2> QED
    BY <1>1, <2>2
<1>3. /\ back \in Seq(S) /\ Len(back) = Len(s) - p
      /\ \A i \in 1..(Len(s) - p) : back[i] = s[p + i]
  <2>1. \A i \in (p + 1)..Len(s) : s[i] \in S
    BY <1>1
  <2>2. /\ back \in Seq(S)
        /\ Len(back) = IF p + 1 <= Len(s) THEN Len(s) - (p + 1) + 1 ELSE 0
        /\ \A i \in 1..(Len(s) - (p + 1) + 1) : back[i] = s[p + 1 + i - 1]
    BY <1>1, <2>1, SubSeqProperties
  <2> QED
    BY <1>1, <2>2
<1> HIDE DEF front, back
<1>4. /\ front \o back \in Seq(S)
      /\ Len(front \o back) = Len(front) + Len(back)
      /\ \A i \in 1..(Len(front) + Len(back)) :
            (front \o back)[i] = IF i <= Len(front) THEN front[i] ELSE back[i - Len(front)]
  BY <1>2, <1>3, ConcatProperties
<1>5. RemoveAt(s, p) = front \o back
  BY DEF RemoveAt, front, back
<1>6. ASSUME NEW i \in 1..(Len(s) - 1)
      PROVE  (front \o back)[i] = IF i < p THEN s[i] ELSE s[i + 1]
  <2>1. CASE i < p
    BY <1>1, <1>2, <1>3, <1>4, <2>1
  <2>2. CASE ~(i < p)
    <3>1. i - (p - 1) \in 1..(Len(s) - p) /\ ~(i <= p - 1)
      BY <1>1, <2>2
    <3>2. back[i - (p - 1)] = s[p + (i - (p - 1))]
      BY <1>3, <3>1
    <3>3. p + (i - (p - 1)) = i + 1
      OBVIOUS
    <3> QED
      BY <1>1, <1>2, <1>3, <1>4, <2>2, <3>1, <3>2, <3>3
  <2> QED
    BY <2>1, <2>2
<1>7. Len(front \o back) = Len(s) - 1
  BY <1>1, <1>2, <1>3, <1>4
<1> QED
  BY <1>4, <1>5, <1>6, <1>7

\* An observer that leaves was held once; those after it move up.
LEMMA EarlyExitStep ==
  ASSUME Inv, NEW o \in Observers, EarlyExit(o)
  PROVE  Inv'
<1> DEFINE p == Position(o)
<1>1. /\ phase = "waiting" /\ o \in ToSet(list) /\ call[o] = "waiting"
      /\ list' = Without(o)
      /\ call' = [x \in Observers |-> IF x \in {o} THEN "canceled" ELSE call[x]]
      /\ panicked' = (panicked \/ \E x \in {o} : call[x] # "waiting")
      /\ UNCHANGED <<kind, canceled, seen, timerStarted, phase, kept, turn, row, rows, service>>
      /\ timer' \in {"stopped", "running", "fired"}
  BY DEF EarlyExit, Answer, Leaves, StopTimer, passState, Inv, TypeOK
<1>2. list \in Seq(Observers) /\ Len(list) \in Nat /\ DOMAIN list = 1..Len(list)
  BY LenProperties DEF Inv, TypeOK
<1>3. p \in 1..Len(list) /\ list[p] = o
  BY <1>1, <1>2 DEF ToSet, Position
<1>4. turn = 1 /\ row = 0 /\ kept = <<>> /\ Behind = {} /\ Len(kept) = 0
  <2>1. turn = 1 /\ row = 0 /\ Len(kept) < 1 /\ kept \in Seq(Observers)
    BY <1>1 DEF Inv, OrderInv, TypeOK
  <2> QED
    BY <2>1, EmptySeq, LenProperties DEF Behind
<1> HIDE DEF p
<1>5. list' = RemoveAt(list, p)
  BY <1>1 DEF p, Without
<1>6. /\ list' \in Seq(Observers) /\ Len(list') = Len(list) - 1
      /\ \A i \in 1..(Len(list) - 1) : list'[i] = IF i < p THEN list[i] ELSE list[i + 1]
  BY <1>2, <1>3, <1>5, RemoveAtProperties
<1>7. Ahead = 1..Len(list) /\ Ahead' = 1..(Len(list) - 1) /\ Behind' = {}
  BY <1>1, <1>4, <1>6 DEF Ahead, Behind
<1>8. ~panicked'
  BY <1>1 DEF Inv
<1>9. TypeOK'
  <2>1. panicked' \in BOOLEAN
    <3>1. (panicked \/ \E x \in {o} : call[x] # "waiting") \in BOOLEAN
      OBVIOUS
    <3> QED
      BY <3>1, <1>1, Zenon
  <2>2. {stopping', closed', panicked'} \subseteq BOOLEAN
    BY <1>1, <2>1 DEF Inv, TypeOK, service
  <2>3. call' \in [Observers -> {"idle", "joining", "waiting"} \cup Answers]
    BY <1>1 DEF Inv, TypeOK, Answers
  <2> QED
    BY <1>1, <1>6, <2>2, <2>3 DEF Inv, TypeOK
<1>10. OrderInv'
  <2>1. PICK m \in Nat : Len(list') = m
    BY <1>6, LenProperties
  <2>2. m = 0 => list' = <<>>
    BY <1>6, <2>1, EmptySeq
  <2>3. row <= rows + 1
    BY DEF Inv, OrderInv
  <2> QED
    BY <1>1, <1>4, <2>1, <2>2, <2>3 DEF OrderInv
\* The place of list'[i] in list.
<1> DEFINE From(i) == IF i < p THEN i ELSE i + 1
<1>11. \A i \in Ahead' : From(i) \in Ahead /\ From(i) # p /\ list'[i] = list[From(i)]
  BY <1>2, <1>3, <1>6, <1>7
<1>12. \A i, j \in Ahead' : From(i) = From(j) => i = j
  BY <1>2, <1>3, <1>7
<1> HIDE DEF From
<1>13. \A i, j \in Ahead : list[i] = list[j] => i = j
  BY DEF Inv, OnceInv
<1>14. \A i \in Ahead : i # p => list[i] # o
  BY <1>3, <1>7, <1>13
<1>15. \A x \in Observers : x # o => call'[x] = call[x]
  BY <1>1
<1>16. HeldInv'
  <2>1. ASSUME NEW i \in Ahead'
        PROVE  call'[list'[i]] = "waiting" /\ seen'[list'[i]] = Begun(row')
    <3>1. /\ From(i) \in Ahead /\ list'[i] = list[From(i)] /\ list[From(i)] # o
          /\ list[From(i)] \in Observers
      BY <1>2, <1>7, <1>11, <1>14, ElementOfSeq
    <3>2. call[list[From(i)]] = "waiting" /\ seen[list[From(i)]] = Begun(row)
      BY <3>1 DEF Inv, HeldInv
    <3> QED
      BY <1>1, <1>15, <3>1, <3>2
  <2> QED
    BY <2>1, <1>7 DEF HeldInv, Begun
<1>17. OnceInv'
  <2>1. \A i, j \in Ahead' : list'[i] = list'[j] => i = j
    BY <1>11, <1>12, <1>13
  <2> QED
    BY <2>1, <1>7 DEF OnceInv
<1>18. FoundInv'
  <2>1. ASSUME NEW x \in Observers, call'[x] = "waiting"
        PROVE  \E i \in Ahead' : list'[i] = x
    <3>1. x # o /\ call[x] = "waiting"
      BY <2>1, <1>1
    <3>2. PICK i \in Ahead : list[i] = x
      BY <3>1, <1>4 DEF Inv, FoundInv
    <3>3. i # p
      BY <3>1, <3>2, <1>3
    <3>4. CASE i < p
      BY <3>2, <3>4, <1>2, <1>3, <1>6, <1>7
    <3>5. CASE i > p
      <4>1. i - 1 \in Ahead' /\ ~(i - 1 < p) /\ (i - 1) + 1 = i
        BY <3>2, <3>5, <1>2, <1>3, <1>7
      <4>2. list'[i - 1] = list[(i - 1) + 1]
        BY <4>1, <1>6, <1>7
      <4> QED
        BY <4>1, <4>2, <3>2
    <3> QED
      BY <3>3, <3>4, <3>5, <1>2, <1>3, <1>7, <3>2
  <2> QED
    BY <2>1 DEF FoundInv
<1>19. FreshInv'
  BY <1>1 DEF Inv, FreshInv
<1> QED
  BY <1>8, <1>9, <1>10, <1>16, <1>17, <1>18, <1>19 DEF Inv

-----------------------------------------------------------------------------
(* The pass *)

\* One observer is called: it is kept in k or not, and the turn moves on.
LEMMA AdvanceStep ==
  ASSUME Inv, NEW o \in Observers, Calling(o), NEW k \in Seq(Observers), Advance(k),
         call' \in [Observers -> {"idle", "joining", "waiting"} \cup Answers],
         seen' \in [Observers -> Seq(0..MaxSegments)],
         UNCHANGED <<kind, canceled>>, panicked' = FALSE,
         call'[o] \notin {"idle", "joining"},
         \A x \in Observers : x # o => call'[x] = call[x] /\ seen'[x] = seen[x],
         \A i \in 1..Len(k) : call'[k[i]] = "waiting" /\ seen'[k[i]] = Begun(row + 1),
         \A i, j \in 1..Len(k) : k[i] = k[j] => i = j,
         \A i \in 1..Len(k) : k[i] = o \/ \E j \in Behind : k[i] = kept[j],
         \A j \in Behind : \E i \in 1..Len(k) : k[i] = kept[j],
         call'[o] = "waiting" => \E i \in 1..Len(k) : k[i] = o,
         Len(k) <= Len(kept) + 1
  PROVE  Inv'
<1>1. /\ list \in Seq(Observers) /\ Len(list) \in Nat /\ Len(kept) \in Nat /\ Len(k) \in Nat
      /\ turn \in Nat \ {0} /\ row \in Nat /\ rows \in 0..MaxSegments /\ row <= rows
      /\ phase = "iterating" /\ list # <<>> /\ o = list[turn]
  BY LenProperties, LoopAssumption DEF Inv, TypeOK, Calling
<1>2. turn <= Len(list) /\ Len(kept) < turn /\ turn \in Ahead
  BY <1>1 DEF Inv, OrderInv, Ahead
<1>3. UNCHANGED <<phase, waitState, rows, service>>
  BY DEF Advance
<1>4. \A i \in Ahead : i # turn => list[i] # o /\ list[i] \in Observers
  BY <1>1, <1>2, ElementOfSeq, SMTT(30) DEF Inv, OnceInv, Ahead
<1>5. {stopping', closed', panicked'} \subseteq BOOLEAN
  BY <1>3 DEF Inv, TypeOK, service
<1>6. FreshInv'
  BY DEF Inv, FreshInv
<1>7. CASE turn < Len(list)
  <2>1. kept' = k /\ turn' = turn + 1 /\ list' = list /\ row' = row
    BY <1>7 DEF Advance
  <2>2. TypeOK'
    BY <1>1, <1>3, <1>5, <2>1 DEF Inv, TypeOK, waitState
  <2>3. OrderInv'
    BY <1>1, <1>2, <1>3, <1>7, <2>1 DEF Inv, OrderInv
  <2>4. Ahead' = (turn + 1)..Len(list) /\ Behind' = 1..Len(k)
    BY <2>1 DEF Ahead, Behind
  <2>5. \A i \in Ahead' : i \in Ahead /\ i # turn
    <3>1. \A i \in (turn + 1)..Len(list) : i \in turn..Len(list) /\ i # turn
      BY <1>1
    <3> QED
      BY <2>4, <3>1 DEF Ahead
  <2>6. HeldInv'
    <3>1. ASSUME NEW i \in Ahead'
          PROVE  call'[list'[i]] = "waiting" /\ seen'[list'[i]] = Begun(row')
      <4>1. call[list[i]] = "waiting" /\ seen[list[i]] = Begun(row)
        BY <2>5 DEF Inv, HeldInv
      <4>2. list[i] \in Observers /\ list[i] # o
        BY <1>4, <2>5
      <4> QED
        BY <2>1, <4>1, <4>2
    <3>2. ASSUME NEW i \in Behind'
          PROVE  call'[kept'[i]] = "waiting" /\ seen'[kept'[i]] = Begun(row' + 1)
      BY <2>1, <2>4
    <3> QED
      BY <3>1, <3>2 DEF HeldInv, Begun
  <2>7. OnceInv'
    <3>1. \A i, j \in Ahead' : list'[i] = list'[j] => i = j
      BY <2>1, <2>5 DEF Inv, OnceInv
    <3>2. \A i, j \in Behind' : kept'[i] = kept'[j] => i = j
      BY <2>1, <2>4
    <3>3. ASSUME NEW i \in Ahead', NEW j \in Behind'
          PROVE  list'[i] # kept'[j]
      <4>1. list[i] # o /\ \A m \in Behind : list[i] # kept[m]
        BY <1>4, <2>5 DEF Inv, OnceInv
      <4>2. kept'[j] = o \/ \E m \in Behind : kept'[j] = kept[m]
        BY <2>1, <2>4
      <4> QED
        BY <2>1, <4>1, <4>2
    <3> QED
      BY <3>1, <3>2, <3>3 DEF OnceInv
  <2>8. FoundInv'
    <3>1. ASSUME NEW x \in Observers, call'[x] = "waiting"
          PROVE  (\E i \in Ahead' : list'[i] = x) \/ (\E i \in Behind' : kept'[i] = x)
      <4>1. CASE x = o
        BY <2>1, <2>4, <3>1, <4>1
      <4>2. CASE x # o
        <5>1. (\E i \in Ahead : list[i] = x) \/ (\E i \in Behind : kept[i] = x)
          BY <3>1, <4>2 DEF Inv, FoundInv
        <5>2. CASE \E i \in Behind : kept[i] = x
          <6>1. PICK i \in Behind : kept[i] = x
            BY <5>2
          <6>2. PICK m \in 1..Len(k) : k[m] = kept[i]
            BY <6>1
          <6>3. m \in Behind' /\ kept'[m] = x
            BY <2>1, <2>4, <6>1, <6>2
          <6> QED
            BY <6>3
        <5>3. CASE \E i \in Ahead : list[i] = x
          <6>1. PICK i \in Ahead : list[i] = x
            BY <5>3
          <6>2. i \in turn..Len(list) /\ i # turn
            BY <1>1, <4>2, <6>1 DEF Ahead
          <6>3. i \in (turn + 1)..Len(list)
            BY <1>1, <6>2, SMTT(30)
          <6>4. i \in Ahead'
            BY <2>4, <6>3
          <6> QED
            BY <2>1, <6>1, <6>4
        <5> QED
          BY <5>1, <5>2, <5>3
      <4> QED
        BY <4>1, <4>2
    <3> QED
      BY <3>1 DEF FoundInv
  <2> QED
    BY <1>6, <2>2, <2>3, <2>6, <2>7, <2>8 DEF Inv
<1>8. CASE ~(turn < Len(list))
  <2>1. list' = k /\ kept' = <<>> /\ turn' = 1 /\ row' = row + 1
    BY <1>8 DEF Advance
  <2>2. Ahead = {turn}
    BY <1>1, <1>2, <1>8 DEF Ahead
  <2>3. Ahead' = 1..Len(k) /\ Behind' = {}
    BY <2>1 DEF Ahead, Behind
  <2>4. TypeOK'
    <3>1. turn' \in Nat \ {0} /\ row' \in 0..(MaxSegments + 1) /\ kept' \in Seq(Observers)
      BY <1>1, <2>1, LoopAssumption, EmptySeq
    <3> QED
      BY <1>3, <1>5, <2>1, <3>1 DEF Inv, TypeOK, waitState
  <2>5. OrderInv'
    <3>1. Len(k) # 0 \/ k = <<>>
      BY EmptySeq
    <3>2. Len(kept') = 0
      BY <2>1, EmptySeq
    <3> QED
      BY <1>1, <1>3, <2>1, <3>1, <3>2 DEF OrderInv
  <2>6. HeldInv'
    BY <2>1, <2>3 DEF HeldInv, Begun
  <2>7. OnceInv'
    BY <2>1, <2>3 DEF OnceInv
  <2>8. FoundInv'
    <3>1. ASSUME NEW x \in Observers, call'[x] = "waiting"
          PROVE  \E i \in Ahead' : list'[i] = x
      <4>1. CASE x = o
        BY <2>1, <2>3, <3>1, <4>1
      <4>2. CASE x # o
        <5>1. (\E i \in Ahead : list[i] = x) \/ (\E i \in Behind : kept[i] = x)
          BY <3>1, <4>2 DEF Inv, FoundInv
        <5>2. PICK i \in Behind : kept[i] = x
          BY <1>1, <2>2, <4>2, <5>1
        <5> QED
          BY <2>1, <2>3, <5>2
      <4> QED
        BY <4>1, <4>2
    <3> QED
      BY <3>1 DEF FoundInv
  <2> QED
    BY <1>6, <2>4, <2>5, <2>6, <2>7, <2>8 DEF Inv
<1> QED
  BY <1>7, <1>8

\* The observer that is called waits, and has not been kept yet.
LEMMA CallingHeld ==
  ASSUME Inv, NEW o \in Observers, Calling(o)
  PROVE  /\ call[o] = "waiting" /\ seen[o] = Begun(row)
         /\ \A j \in Behind : kept[j] # o
<1>1. o = list[turn] /\ list # <<>> /\ turn \in Nat \ {0} /\ list \in Seq(Observers)
  BY DEF Calling, Inv, TypeOK
<1>2. turn \in Ahead
  BY <1>1, LenProperties DEF Inv, OrderInv, Ahead
<1> QED
  BY <1>1, <1>2 DEF Inv, HeldInv, OnceInv

LEMMA HandleStep ==
  ASSUME Inv, NEW o \in Observers, Handle(o)
  PROVE  Inv'
<1> DEFINE k == Append(kept, o)
<1>1. /\ Calling(o) /\ Advance(k) /\ seen' = [seen EXCEPT ![o] = Append(@, row)]
      /\ UNCHANGED <<call, kind, canceled, panicked>>
  BY DEF Handle
<1>2. /\ call[o] = "waiting" /\ seen[o] = Begun(row)
      /\ \A j \in Behind : kept[j] # o
  BY <1>1, CallingHeld
<1>3. /\ kept \in Seq(Observers) /\ Len(kept) \in Nat
      /\ row \in Nat /\ row \in 0..MaxSegments
      /\ seen \in [Observers -> Seq(0..MaxSegments)]
      /\ call \in [Observers -> {"idle", "joining", "waiting"} \cup Answers]
      /\ ~panicked /\ panicked \in BOOLEAN
  BY <1>1, LenProperties, LoopAssumption DEF Inv, TypeOK, Calling
<1>4. /\ k \in Seq(Observers) /\ Len(k) = Len(kept) + 1
      /\ \A i \in 1..Len(kept) : k[i] = kept[i]
      /\ k[Len(kept) + 1] = o
  BY <1>3, AppendProperties
<1> HIDE DEF k
<1>5. \A i \in 1..Len(k) : i \in Behind \/ i = Len(kept) + 1
  BY <1>3, <1>4 DEF Behind
<1>6. Behind = 1..Len(kept) /\ Len(kept) + 1 \in 1..Len(k) /\ \A j \in Behind : j \in 1..Len(k)
  BY <1>3, <1>4 DEF Behind
<1>7. seen'[o] = Begun(row + 1)
  BY <1>1, <1>2, <1>3, BegunNext
<1>8. seen' \in [Observers -> Seq(0..MaxSegments)]
  <2>1. Append(seen[o], row) \in Seq(0..MaxSegments)
    BY <1>3, AppendProperties
  <2> QED
    BY <1>1, <1>3, <2>1
<1>9. \A x \in Observers : x # o => call'[x] = call[x] /\ seen'[x] = seen[x]
  BY <1>1, <1>3
<1>10. \A i \in 1..Len(k) : call'[k[i]] = "waiting" /\ seen'[k[i]] = Begun(row + 1)
  <2>1. ASSUME NEW i \in Behind
        PROVE  call'[k[i]] = "waiting" /\ seen'[k[i]] = Begun(row + 1)
    <3>1. call[kept[i]] = "waiting" /\ seen[kept[i]] = Begun(row + 1)
      BY DEF Inv, HeldInv
    <3>2. k[i] = kept[i] /\ kept[i] # o /\ kept[i] \in Observers
      BY <1>2, <1>3, <1>4, <1>6, ElementOfSeq
    <3> QED
      BY <1>1, <1>9, <3>1, <3>2
  <2> QED
    BY <1>1, <1>2, <1>4, <1>5, <1>7, <2>1
<1>11. \A i, j \in 1..Len(k) : k[i] = k[j] => i = j
  <2>1. \A i, j \in Behind : kept[i] = kept[j] => i = j
    BY DEF Inv, OnceInv
  <2> QED
    BY <1>2, <1>4, <1>5, <1>6, <2>1
<1>12. \A i \in 1..Len(k) : k[i] = o \/ \E j \in Behind : k[i] = kept[j]
  BY <1>4, <1>5, <1>6
<1>13. \A j \in Behind : \E i \in 1..Len(k) : k[i] = kept[j]
  BY <1>4, <1>6
<1>14. \E i \in 1..Len(k) : k[i] = o
  BY <1>4, <1>6
<1>15. panicked' = FALSE
  BY <1>1, <1>3
<1>16. call' \in [Observers -> {"idle", "joining", "waiting"} \cup Answers]
  BY <1>1, <1>3
<1>17. UNCHANGED <<kind, canceled>> /\ call'[o] \notin {"idle", "joining"}
  BY <1>1, <1>2
<1>18. Calling(o) /\ Advance(k) /\ k \in Seq(Observers) /\ Len(k) <= Len(kept) + 1
  BY <1>1, <1>3, <1>4
<1> QED
  BY <1>8, <1>9, <1>10, <1>11, <1>12, <1>13, <1>14, <1>15, <1>16, <1>17, <1>18, AdvanceStep

LEMMA DropStep ==
  ASSUME Inv, NEW o \in Observers, Drop(o)
  PROVE  Inv'
<1>1. PICK a \in Answers : Answer({o}, a)
  BY DEF Drop, Answers
<1>2. Calling(o) /\ Advance(kept)
  BY DEF Drop
<1>3. /\ call[o] = "waiting" /\ \A j \in Behind : kept[j] # o
  BY <1>2, CallingHeld
<1>4. /\ call' = [x \in Observers |-> IF x \in {o} THEN a ELSE call[x]]
      /\ panicked' = (panicked \/ \E x \in {o} : call[x] # "waiting")
      /\ UNCHANGED <<kind, canceled, seen>>
  BY <1>1 DEF Answer
<1>5. /\ kept \in Seq(Observers) /\ Len(kept) \in Nat /\ Behind = 1..Len(kept)
      /\ seen \in [Observers -> Seq(0..MaxSegments)]
      /\ call \in [Observers -> {"idle", "joining", "waiting"} \cup Answers]
      /\ ~panicked
  BY LenProperties DEF Inv, TypeOK, Behind
<1>6. call' \in [Observers -> {"idle", "joining", "waiting"} \cup Answers]
  BY <1>4, <1>5
<1>7. call'[o] = a /\ a \notin {"idle", "joining", "waiting"}
  BY <1>4 DEF Answers
<1>8. \A x \in Observers : x # o => call'[x] = call[x] /\ seen'[x] = seen[x]
  BY <1>4
<1>9. \A i \in 1..Len(kept) :
        call'[kept[i]] = "waiting" /\ seen'[kept[i]] = Begun(row + 1)
  <2>1. ASSUME NEW i \in Behind
        PROVE  call'[kept[i]] = "waiting" /\ seen'[kept[i]] = Begun(row + 1)
    <3>1. call[kept[i]] = "waiting" /\ seen[kept[i]] = Begun(row + 1)
      BY DEF Inv, HeldInv
    <3>2. kept[i] # o /\ kept[i] \in Observers
      BY <1>3, <1>5, ElementOfSeq
    <3> QED
      BY <1>8, <3>1, <3>2
  <2> QED
    BY <1>5, <2>1
<1>10. \A i, j \in 1..Len(kept) : kept[i] = kept[j] => i = j
  BY <1>5 DEF Inv, OnceInv
<1>11. panicked' = FALSE
  <2>1. ~(panicked \/ \E x \in {o} : call[x] # "waiting")
    BY <1>3, <1>5
  <2> QED
    BY <1>4, <2>1
<1>12. /\ \A i \in 1..Len(kept) : kept[i] = o \/ \E j \in Behind : kept[i] = kept[j]
       /\ \A j \in Behind : \E i \in 1..Len(kept) : kept[i] = kept[j]
       /\ Len(kept) <= Len(kept) + 1
  BY <1>5
<1> QED
  BY <1>2, <1>4, <1>5, <1>6, <1>7, <1>8, <1>9, <1>10, <1>11, <1>12, AdvanceStep

-----------------------------------------------------------------------------

LEMMA InvNext == Inv /\ [Next]_vars => Inv'
<1> SUFFICES ASSUME Inv, [Next]_vars PROVE Inv'
  OBVIOUS
<1>1. CASE UNCHANGED vars
  <2>1. TypeOK'
    BY <1>1 DEF Inv, TypeOK, vars, calls, waitState, passState, service
  <2> QED
    BY <1>1, <2>1, QuietStep DEF vars, passState
<1>2. CASE \E o \in Observers : Client(o)
  BY <1>2, JoinStep, CancelStep, JoinGivesUpStep, ReturnStep DEF Client
<1>3. CASE \E o \in Observers : Waiting(o)
  BY <1>3, AcceptStep, EarlyExitStep DEF Waiting
<1>4. CASE TimerFires \/ Coalesced \/ StopWaiting \/ Stop \/ Close
  BY <1>4, TimerFiresStep, CoalescedStep, StopWaitingStep, StopStep, CloseStep
<1>5. CASE Iterating
  BY <1>5, HandleStep, DropStep, NoObserversStep, PassFailsStep, PassEndsStep DEF Iterating
<1> QED
  BY <1>1, <1>2, <1>3, <1>4, <1>5 DEF Next

LEMMA InvCorrect == Spec => []Inv
  BY InvInit, InvNext, PTL DEF Spec

\* Every call, list and counter keeps its shape, for any number of observers and
\* segments.
THEOREM TypeCorrect == Spec => []TypeOK
<1>1. Inv => TypeOK
  BY DEF Inv
<1> QED
  BY <1>1, InvCorrect, PTL

\* However early exits, failing callbacks, failing passes, ends of passes and the
\* end of the loop interleave, the channel of an observer is used once, and every
\* observer that waits is in the list of the current RunOnce.
THEOREM AnsweredCorrect == Spec => []AnsweredOnce
<1>1. Inv => AnsweredOnce
  <2> SUFFICES ASSUME Inv PROVE AnsweredOnce
    OBVIOUS
  <2> DEFINE rest == SubSeq(list, turn, Len(list))
  <2>1. /\ list \in Seq(Observers) /\ kept \in Seq(Observers) /\ turn \in Nat \ {0}
        /\ Len(list) \in Nat /\ DOMAIN kept = 1..Len(kept)
        /\ \A i \in turn..Len(list) : list[i] \in Observers
    BY LenProperties, ElementOfSeq DEF Inv, TypeOK
  <2>2. /\ rest \in Seq(Observers)
        /\ Len(rest) = IF turn <= Len(list) THEN Len(list) - turn + 1 ELSE 0
        /\ \A i \in 1..(Len(list) - turn + 1) : rest[i] = list[turn + i - 1]
    BY <2>1, SubSeqProperties
  <2> HIDE DEF rest
  <2>3. ASSUME NEW i \in Ahead
        PROVE  list[i] \in ToSet(rest)
    <3>1. /\ i - turn + 1 \in 1..(Len(list) - turn + 1) /\ turn + (i - turn + 1) - 1 = i
          /\ Len(rest) = Len(list) - turn + 1
      BY <2>1, <2>2 DEF Ahead
    <3>2. DOMAIN rest = 1..Len(rest)
      BY <2>2, LenProperties
    <3>3. rest[i - turn + 1] = list[i]
      BY <2>2, <3>1
    <3> QED
      BY <3>1, <3>2, <3>3 DEF ToSet
  <2>4. \A i \in Behind : kept[i] \in ToSet(kept)
    BY <2>1 DEF Behind, ToSet
  <2>5. NobodyForgotten
    BY <2>3, <2>4 DEF Inv, FoundInv, NobodyForgotten, rest
  <2> QED
    BY <2>5 DEF AnsweredOnce, OneAnswer, Inv
<1> QED
  BY <1>1, InvCorrect, PTL

\* A call returns nil only when its observer was called with LoopStarted and with
\* every segment of the pass, once and in order.
THEOREM NilCorrect == Spec => NilOnlyAfterFullPass
<1> DEFINE Full(o) == call[o] # "nil" /\ call'[o] = "nil" =>
                         seen[o] = [i \in 1..(rows + 1) |-> i - 1]
<1>1. Inv /\ [Next]_vars => [\A o \in Observers : Full(o)]_vars
  <2> SUFFICES ASSUME Inv, Next, NEW o \in Observers,
                      call[o] # "nil", call'[o] = "nil"
               PROVE  seen[o] = Begun(rows + 1)
    BY DEF Begun
  <2>1. call \in [Observers -> {"idle", "joining", "waiting"} \cup Answers]
    BY DEF Inv, TypeOK
  <2>2. PassEnds
    <3>1. ASSUME NEW x \in Observers, Client(x) \/ Waiting(x)
          PROVE  FALSE
      BY <2>1, <3>1 DEF Client, Join, Cancel, JoinGivesUp, Return, Waiting, Accept, EarlyExit, Answer
    <3>2. ASSUME TimerFires \/ Coalesced \/ NoObservers \/ Stop \/ Close
          PROVE  FALSE
      BY <3>2 DEF TimerFires, Coalesced, NoObservers, Stop, Close, calls
    <3>3. ASSUME StopWaiting \/ PassFails
          PROVE  FALSE
      BY <3>3 DEF StopWaiting, PassFails, PassError, Answer
    <3>4. ASSUME NEW x \in Observers, Handle(x) \/ Drop(x)
          PROVE  FALSE
      BY <3>4 DEF Handle, Drop, Answer
    <3> QED
      BY <3>1, <3>2, <3>3, <3>4 DEF Next, Iterating
  <2>3. o \in ToSet(list) /\ row = rows + 1
    BY <2>2 DEF PassEnds, Answer
  <2>4. turn = 1
    <3>1. rows \in Nat /\ turn \in Nat \ {0} /\ (turn > 1 => row <= rows)
      BY LoopAssumption DEF Inv, TypeOK, OrderInv
    <3> QED
      BY <2>3, <3>1
  <2>5. PICK i \in Ahead : list[i] = o
    <3>1. DOMAIN list = 1..Len(list)
      BY LenProperties DEF Inv, TypeOK
    <3> QED
      BY <2>3, <2>4, <3>1 DEF ToSet, Ahead
  <2> QED
    BY <2>3, <2>5 DEF Inv, HeldInv
<1>2. [][\A o \in Observers : Full(o)]_vars <=> NilOnlyAfterFullPass
  BY DEF NilOnlyAfterFullPass
<1> QED
  BY <1>1, <1>2, InvCorrect, PTL DEF Spec
=============================================================================
