------------------------ MODULE PieceDeletionProofs ------------------------
(***************************************************************************)
(* Every promise is resolved once, none is forgotten, and the workers of a *)
(* node take turns, for any number of calls, nodes and workers.  A job of  *)
(* a node that is queued is at one place of one worker that will look at   *)
(* it, and every worker of a chain that has had its turn is at an end,     *)
(* except the last of them.                                                *)
(***************************************************************************)
EXTENDS PieceDeletion, SequenceTheorems, FiniteSetTheorems, WellFoundedInduction, TLAPS

-----------------------------------------------------------------------------
(* Sequences *)

LEMMA MinOfNat ==
  ASSUME NEW S \in SUBSET Nat, S # {}
  PROVE  Min(S) \in S /\ \A x \in S : Min(S) <= x
<1>1. PICK x \in S : \A y \in S : <<y, x>> \notin OpToRel(<, Nat)
  BY NatLessThanWellFounded, WFMin
<1>2. OpToRel(<, Nat) = {p \in Nat \X Nat : p[1] < p[2]}
  BY DEF OpToRel
<1>3. ASSUME NEW y \in S
      PROVE  x <= y
  <2>1. y < x => <<y, x>> \in {p \in Nat \X Nat : p[1] < p[2]}
    OBVIOUS
  <2>2. ~(y < x)
    BY <1>1, <1>2, <2>1, Zenon
  <2> QED
    BY <2>2
<1> QED
  BY <1>3 DEF Min

LEMMA ElementInSet ==
  ASSUME NEW S, NEW s \in Seq(S)
  PROVE  /\ DOMAIN s = 1..Len(s) /\ Len(s) \in Nat
         /\ \A x : x \in ToSet(s) <=> \E i \in 1..Len(s) : s[i] = x
         /\ ToSet(s) \subseteq S
  BY LenProperties, ElementOfSeq DEF ToSet

LEMMA SetOfEmpty == ToSet(<<>>) = {} /\ IsInjective(<<>>)
  BY DEF ToSet, IsInjective

LEMMA SetOfConcat ==
  ASSUME NEW S, NEW s \in Seq(S), NEW t \in Seq(S)
  PROVE  ToSet(s \o t) = ToSet(s) \cup ToSet(t)
<1>1. Range(s \o t) = Range(s) \cup Range(t)
  BY RangeConcatenation
<1> QED
  BY <1>1 DEF Range, ToSet

LEMMA SetOfAppend ==
  ASSUME NEW S, NEW s \in Seq(S), NEW e \in S
  PROVE  ToSet(Append(s, e)) = ToSet(s) \cup {e}
<1>1. /\ Append(s, e) \in Seq(S) /\ Len(Append(s, e)) = Len(s) + 1 /\ Len(s) \in Nat
      /\ \A i \in 1..Len(s) : Append(s, e)[i] = s[i]
      /\ Append(s, e)[Len(s) + 1] = e
  BY AppendProperties, LenProperties
<1>2. \A x : x \in ToSet(Append(s, e)) <=> x \in ToSet(s) \cup {e}
  <2> SUFFICES ASSUME NEW x PROVE x \in ToSet(Append(s, e)) <=> x \in ToSet(s) \cup {e}
    OBVIOUS
  <2>1. x \in ToSet(Append(s, e)) <=> \E i \in 1..(Len(s) + 1) : Append(s, e)[i] = x
    <3>1. x \in ToSet(Append(s, e))
             <=> \E i \in 1..Len(Append(s, e)) : Append(s, e)[i] = x
      BY <1>1, ElementInSet, Zenon
    <3> QED
      BY <1>1, <3>1, Zenon
  <2>2. x \in ToSet(s) <=> \E i \in 1..Len(s) : s[i] = x
    BY ElementInSet
  <2>3. ASSUME NEW i \in 1..(Len(s) + 1), Append(s, e)[i] = x
        PROVE  x \in ToSet(s) \cup {e}
    <3>1. CASE i = Len(s) + 1
      BY <1>1, <2>3, <3>1
    <3>2. CASE i # Len(s) + 1
      <4>1. i \in 1..Len(s)
        BY <1>1, <3>2
      <4> QED
        BY <1>1, <2>2, <2>3, <4>1
    <3> QED
      BY <3>1, <3>2
  <2>4. ASSUME NEW i \in 1..Len(s), s[i] = x
        PROVE  \E k \in 1..(Len(s) + 1) : Append(s, e)[k] = x
    BY <1>1, <2>4
  <2>5. x = e => \E k \in 1..(Len(s) + 1) : Append(s, e)[k] = x
    BY <1>1
  <2> QED
    BY <2>1, <2>2, <2>3, <2>4, <2>5
<1> QED
  BY <1>2

LEMMA InjectiveAppend ==
  ASSUME NEW S, NEW s \in Seq(S), NEW e \in S, IsInjective(s), e \notin ToSet(s)
  PROVE  IsInjective(Append(s, e))
<1>1. /\ Append(s, e) \in Seq(S) /\ Len(Append(s, e)) = Len(s) + 1 /\ Len(s) \in Nat
      /\ \A i \in 1..Len(s) : Append(s, e)[i] = s[i]
      /\ Append(s, e)[Len(s) + 1] = e
  BY AppendProperties, LenProperties
<1>2. DOMAIN Append(s, e) = 1..(Len(s) + 1) /\ DOMAIN s = 1..Len(s)
  BY <1>1, LenProperties
<1>3. \A i \in 1..Len(s) : s[i] # e
  BY ElementInSet
<1> QED
  BY <1>1, <1>2, <1>3 DEF IsInjective

LEMMA InjectiveConcat ==
  ASSUME NEW S, NEW s \in Seq(S), NEW t \in Seq(S), IsInjective(s), IsInjective(t),
         ToSet(s) \cap ToSet(t) = {}
  PROVE  IsInjective(s \o t)
<1>1. /\ s \o t \in Seq(S) /\ Len(s \o t) = Len(s) + Len(t)
      /\ Len(s) \in Nat /\ Len(t) \in Nat
      /\ \A i \in 1..(Len(s) + Len(t)) :
            (s \o t)[i] = IF i <= Len(s) THEN s[i] ELSE t[i - Len(s)]
  BY ConcatProperties, LenProperties
<1>2. /\ DOMAIN (s \o t) = 1..(Len(s) + Len(t))
      /\ DOMAIN s = 1..Len(s) /\ DOMAIN t = 1..Len(t)
  BY <1>1, LenProperties
<1>3. \A i \in 1..Len(s), j \in 1..Len(t) : s[i] # t[j]
  <2>1. \A i \in 1..Len(s) : s[i] \in ToSet(s)
    BY ElementInSet
  <2>2. \A j \in 1..Len(t) : t[j] \in ToSet(t)
    BY ElementInSet
  <2> QED
    BY <2>1, <2>2
<1>4. ASSUME NEW i \in 1..(Len(s) + Len(t)), NEW j \in 1..(Len(s) + Len(t)),
             (s \o t)[i] = (s \o t)[j]
      PROVE  i = j
  <2>1. CASE i <= Len(s) /\ j <= Len(s)
    <3>1. i \in 1..Len(s) /\ j \in 1..Len(s)
      BY <1>1, <2>1
    <3>2. s[i] = s[j]
      BY <1>1, <1>4, <2>1
    <3> QED
      BY <1>2, <3>1, <3>2 DEF IsInjective
  <2>2. CASE i <= Len(s) /\ ~(j <= Len(s))
    <3>1. i \in 1..Len(s) /\ j - Len(s) \in 1..Len(t)
      BY <1>1, <2>2
    <3> QED
      BY <1>1, <1>3, <1>4, <2>2, <3>1
  <2>3. CASE ~(i <= Len(s)) /\ j <= Len(s)
    <3>1. j \in 1..Len(s) /\ i - Len(s) \in 1..Len(t)
      BY <1>1, <2>3
    <3> QED
      BY <1>1, <1>3, <1>4, <2>3, <3>1
  <2>4. CASE ~(i <= Len(s)) /\ ~(j <= Len(s))
    <3>1. j - Len(s) \in 1..Len(t) /\ i - Len(s) \in 1..Len(t)
      BY <1>1, <2>4
    <3>2. t[i - Len(s)] = t[j - Len(s)]
      BY <1>1, <1>4, <2>4
    <3>3. i - Len(s) = j - Len(s)
      BY <1>2, <3>1, <3>2 DEF IsInjective
    <3> QED
      BY <1>1, <3>3
  <2> QED
    BY <2>1, <2>2, <2>3, <2>4
<1> QED
  BY <1>2, <1>4 DEF IsInjective

\* The first k elements, and the others.
LEMMA SplitProperties ==
  ASSUME NEW S, NEW s \in Seq(S), NEW k \in 1..Len(s)
  PROVE  LET first == SubSeq(s, 1, k)
             rest == SubSeq(s, k + 1, Len(s)) IN
         /\ first \in Seq(S) /\ rest \in Seq(S)
         /\ ToSet(s) = ToSet(first) \cup ToSet(rest)
         /\ IsInjective(s) => IsInjective(rest) /\ ToSet(first) \cap ToSet(rest) = {}
<1> DEFINE first == SubSeq(s, 1, k)
           rest == SubSeq(s, k + 1, Len(s))
<1>1. Len(s) \in Nat /\ DOMAIN s = 1..Len(s) /\ \A i \in 1..Len(s) : s[i] \in S
  BY LenProperties, ElementOfSeq
<1>2. first \in Seq(S) /\ Len(first) = k /\ \A i \in 1..k : first[i] = s[i]
  <2>1. \A i \in 1..k : s[i] \in S
    BY <1>1
  <2>2. /\ first \in Seq(S)
        /\ Len(first) = IF 1 <= k THEN k - 1 + 1 ELSE 0
        /\ \A i \in 1..(k - 1 + 1) : first[i] = s[1 + i - 1]
    BY <1>1, <2>1, SubSeqProperties
  <2> QED
    BY <1>1, <2>2
<1>3. /\ rest \in Seq(S) /\ Len(rest) = Len(s) - k
      /\ \A i \in 1..(Len(s) - k) : rest[i] = s[k + i]
  <2>1. \A i \in (k + 1)..Len(s) : s[i] \in S
    BY <1>1
  <2>2. /\ rest \in Seq(S)
        /\ Len(rest) = IF k + 1 <= Len(s) THEN Len(s) - (k + 1) + 1 ELSE 0
        /\ \A i \in 1..(Len(s) - (k + 1) + 1) : rest[i] = s[k + 1 + i - 1]
    BY <1>1, <2>1, SubSeqProperties
  <2>3. PICK n \in Nat : n = Len(s)
    BY <1>1
  <2>4. k \in 1..n /\ n - (k + 1) + 1 = n - k
    BY <2>3
  <2>5. Len(rest) = n - k
    <3>1. CASE k + 1 <= n
      BY <2>2, <2>3, <2>4, <3>1
    <3>2. CASE ~(k + 1 <= n)
      BY <2>2, <2>3, <2>4, <3>2
    <3> QED
      BY <3>1, <3>2
  <2>6. ASSUME NEW i \in 1..(n - k)
        PROVE  rest[i] = s[k + i]
    <3>1. k + 1 + i - 1 = k + i
      BY <2>4
    <3>2. rest[i] = s[k + 1 + i - 1]
      BY <2>2, <2>3, <2>4
    <3> QED
      BY <3>1, <3>2
  <2> QED
    BY <2>2, <2>3, <2>5, <2>6
<1> HIDE DEF first, rest
<1>4. \A x : x \in ToSet(s) <=> x \in ToSet(first) \cup ToSet(rest)
  <2> SUFFICES ASSUME NEW x PROVE x \in ToSet(s) <=> x \in ToSet(first) \cup ToSet(rest)
    OBVIOUS
  <2>1. x \in ToSet(s) <=> \E i \in 1..Len(s) : s[i] = x
    BY ElementInSet
  <2>2. x \in ToSet(first) <=> \E i \in 1..k : first[i] = x
    BY <1>2, ElementInSet
  <2>3. x \in ToSet(rest) <=> \E i \in 1..(Len(s) - k) : rest[i] = x
    BY <1>3, ElementInSet
  <2>4. ASSUME NEW i \in 1..Len(s), s[i] = x
        PROVE  x \in ToSet(first) \cup ToSet(rest)
    <3>1. CASE i <= k
      <4>1. i \in 1..k
        BY <1>1, <3>1
      <4> QED
        BY <1>2, <2>2, <2>4, <4>1
    <3>2. CASE i > k
      <4>1. i - k \in 1..(Len(s) - k) /\ k + (i - k) = i
        BY <1>1, <3>2
      <4> QED
        BY <1>3, <2>3, <2>4, <4>1
    <3> QED
      BY <1>1, <3>1, <3>2
  <2>5. ASSUME NEW i \in 1..k, first[i] = x
        PROVE  \E j \in 1..Len(s) : s[j] = x
    <3>1. i \in 1..Len(s) /\ s[i] = x
      BY <1>1, <1>2, <2>5
    <3> QED
      BY <3>1
  <2>6. ASSUME NEW i \in 1..(Len(s) - k), rest[i] = x
        PROVE  \E j \in 1..Len(s) : s[j] = x
    <3>1. k + i \in 1..Len(s)
      BY <1>1
    <3> QED
      BY <1>3, <2>6, <3>1
  <2> QED
    BY <2>1, <2>2, <2>3, <2>4, <2>5, <2>6
<1>5. ASSUME IsInjective(s)
      PROVE  IsInjective(rest) /\ ToSet(first) \cap ToSet(rest) = {}
  <2>1. IsInjective(rest)
    <3>1. DOMAIN rest = 1..(Len(s) - k)
      BY <1>3, LenProperties
    <3>2. ASSUME NEW i \in 1..(Len(s) - k), NEW j \in 1..(Len(s) - k), rest[i] = rest[j]
          PROVE  i = j
      <4>1. k + i \in 1..Len(s) /\ k + j \in 1..Len(s)
        BY <1>1
      <4>2. s[k + i] = s[k + j]
        BY <1>3, <3>2
      <4>3. k + i = k + j
        BY <1>1, <1>5, <4>1, <4>2 DEF IsInjective
      <4> QED
        BY <1>1, <4>3
    <3> QED
      BY <3>1, <3>2 DEF IsInjective
  <2>2. ASSUME NEW x \in ToSet(first), x \in ToSet(rest)
        PROVE  FALSE
    <3>1. PICK i \in 1..k : first[i] = x
      BY <1>2, ElementInSet
    <3>2. PICK j \in 1..(Len(s) - k) : rest[j] = x
      BY <1>3, <2>2, ElementInSet
    <3>3. i \in 1..Len(s) /\ k + j \in 1..Len(s) /\ i # k + j
      BY <1>1
    <3>4. s[i] = s[k + j]
      BY <1>2, <1>3, <3>1, <3>2
    <3> QED
      BY <1>1, <1>5, <3>3, <3>4 DEF IsInjective
  <2> QED
    BY <2>1, <2>2
<1> QED
  BY <1>2, <1>3, <1>4, <1>5 DEF first, rest

-----------------------------------------------------------------------------
(* The invariant *)

\* The jobs a worker is sending and those in its queue.
In(w) == ToSet(w.jobs) \cup ToSet(w.queue)

AtEnd == {"gone", "unstarted"}

\* A worker: its queue is open only below the limit, it has jobs at hand only
\* while it sends, at its end nothing is left, and nothing is there twice.
Formed(w) ==
    /\ w.count = 0 \/ \E c \in Calls : w.count < MaxPiecesPerBatch + Size[c]
    /\ ~w.done => ~Full(w.count)
    /\ w.jobs # <<>> <=> w.pc = "sending"
    /\ w.pc \in AtEnd => w.done /\ w.queue = <<>>
    /\ IsInjective(w.jobs) /\ IsInjective(w.queue)
    /\ ToSet(w.jobs) \cap ToSet(w.queue) = {}

FormedInv == \A n \in Nodes : \A i \in 1..Len(chain[n]) : Formed(chain[n][i])

\* What a worker has is queued, and nobody else has it.
QueuedInv ==
    \A n \in Nodes : \A i \in 1..Len(chain[n]) :
        \A c \in In(chain[n][i]) : job[c][n] = "queued"

ApartInv ==
    \A n \in Nodes : \A i, j \in 1..Len(chain[n]) :
        i # j => In(chain[n][i]) \cap In(chain[n][j]) = {}

\* What is queued, some worker has.
HeldInv ==
    \A n \in Nodes : \A c \in Calls : job[c][n] = "queued" =>
        \E i \in 1..Len(chain[n]) : c \in In(chain[n][i])

\* Until the satellite stops, those before a worker that has had its turn are gone.
TurnInv ==
    /\ closed => stopping
    /\ ~stopping => \A n \in Nodes : \A i \in 1..Len(chain[n]), j \in 1..Len(chain[n]) :
          j < i /\ chain[n][i].pc # "waiting" => chain[n][j].pc = "gone"

\* Beyond the bound there is only the worker that could not be started.
LengthInv ==
    \A n \in Nodes :
        \/ Len(chain[n]) <= MaxWorkers
        \/ /\ Len(chain[n]) = MaxWorkers + 1
           /\ chain[n][MaxWorkers + 1].pc = "unstarted"

Types ==
    /\ call \in [Calls -> {"idle", "acquiring", "enqueuing", "waiting"}]
    /\ job \in [Calls -> [Nodes -> {"none", "new", "queued", "success", "failure"}]]
    /\ chain \in [Nodes -> Seq(WorkerRecord)]
    /\ failed \subseteq Nodes
    /\ stopping \in BOOLEAN /\ closed \in BOOLEAN

Inv ==
    /\ Types /\ FormedInv /\ QueuedInv /\ ApartInv /\ HeldInv /\ TurnInv /\ LengthInv
    /\ twice = FALSE

LEMMA InvInit == Init => Inv
<1> SUFFICES ASSUME Init PROVE Inv
  OBVIOUS
<1>1. \A n \in Nodes : chain[n] = <<>> /\ Len(chain[n]) = 0
  BY EmptySeq DEF Init
<1>2. chain \in [Nodes -> Seq(WorkerRecord)]
  <2>1. <<>> \in Seq(WorkerRecord)
    BY EmptySeq
  <2> QED
    BY <2>1 DEF Init
<1>3. Types
  BY <1>2 DEF Init, Types
<1>4. FormedInv /\ QueuedInv /\ ApartInv
  BY <1>1 DEF FormedInv, QueuedInv, ApartInv
<1>5. HeldInv
  BY DEF Init, HeldInv
<1>6. TurnInv
  BY <1>1 DEF Init, TurnInv
<1>7. LengthInv
  <2>1. MaxWorkers \in Nat \ {0}
    BY DeletionAssumption
  <2> QED
    BY <1>1, <2>1 DEF LengthInv
<1> QED
  BY <1>3, <1>4, <1>5, <1>6, <1>7 DEF Init, Inv

-----------------------------------------------------------------------------
(* Steps that leave the chains alone *)

LEMMA QuietStep ==
  ASSUME Inv, Types', UNCHANGED <<chain, twice>>,
         \A c \in Calls, n \in Nodes : job'[c][n] = "queued" <=> job[c][n] = "queued",
         stopping => stopping', closed' => stopping'
  PROVE  Inv'
<1>1. \A n \in Nodes : \A i \in 1..Len(chain[n]) : In(chain[n][i]) \subseteq Calls
  <2> SUFFICES ASSUME NEW n \in Nodes, NEW i \in 1..Len(chain[n])
               PROVE  In(chain[n][i]) \subseteq Calls
    OBVIOUS
  <2>1. chain[n] \in Seq(WorkerRecord)
    BY DEF Inv, Types
  <2>2. chain[n][i] \in WorkerRecord
    BY <2>1, ElementOfSeq
  <2>3. chain[n][i].jobs \in Seq(Calls) /\ chain[n][i].queue \in Seq(Calls)
    BY <2>2 DEF WorkerRecord
  <2> QED
    BY <2>3, ElementInSet DEF In
<1>2. FormedInv' /\ ApartInv'
  BY ZenonT(30) DEF Inv, FormedInv, Formed, Full, ApartInv, In, AtEnd
<1>3. QueuedInv'
  BY <1>1 DEF Inv, QueuedInv, In
<1>4. HeldInv'
  BY DEF Inv, HeldInv, In
<1>5. TurnInv'
  BY DEF Inv, TurnInv
<1>6. LengthInv' /\ twice' = FALSE
  BY DEF Inv, LengthInv
<1> QED
  BY <1>2, <1>3, <1>4, <1>5, <1>6 DEF Inv

LEMMA UnchangedStep == Inv /\ UNCHANGED vars => Inv'
<1> SUFFICES ASSUME Inv, UNCHANGED vars PROVE Inv'
  OBVIOUS
<1>1. Types'
  BY DEF Inv, Types, vars, WorkerRecord, InHandler
<1> QED
  BY <1>1, QuietStep DEF vars, Inv, TurnInv

LEMMA BeginStep ==
  ASSUME Inv, NEW c \in Calls, NEW N, Begin(c, N)
  PROVE  Inv'
<1>1. job \in [Calls -> [Nodes -> {"none", "new", "queued", "success", "failure"}]]
  BY DEF Inv, Types
<1>2. job'[c] = [n \in Nodes |-> IF n \in N THEN "new" ELSE "none"]
  BY <1>1 DEF Begin
<1>3. job' \in [Calls -> [Nodes -> {"none", "new", "queued", "success", "failure"}]]
  BY <1>1 DEF Begin
<1>4. Types'
  BY <1>3 DEF Inv, Types, Begin, WorkerRecord, InHandler
<1>5. \A d \in Calls, n \in Nodes : job'[d][n] = "queued" <=> job[d][n] = "queued"
  BY <1>1, <1>2 DEF Begin
<1> QED
  BY <1>4, <1>5, QuietStep DEF Begin, Inv, TurnInv

LEMMA AcquireStep ==
  ASSUME Inv, NEW c \in Calls, Acquire(c)
  PROVE  Inv'
<1>1. Types'
  BY DEF Inv, Types, Acquire, WorkerRecord, InHandler
<1> QED
  BY <1>1, QuietStep DEF Acquire, Inv, TurnInv

LEMMA ReturnStep ==
  ASSUME Inv, NEW c \in Calls, Return(c)
  PROVE  Inv'
<1>1. job \in [Calls -> [Nodes -> {"none", "new", "queued", "success", "failure"}]]
  BY DEF Inv, Types
<1>2. job'[c] = [n \in Nodes |-> IF job[c][n] = "queued" THEN "queued" ELSE "none"]
  BY <1>1 DEF Return
<1>3. job' \in [Calls -> [Nodes -> {"none", "new", "queued", "success", "failure"}]]
  BY <1>1 DEF Return
<1>4. Types'
  BY <1>3 DEF Inv, Types, Return, WorkerRecord, InHandler
<1>5. \A d \in Calls, n \in Nodes : job'[d][n] = "queued" <=> job[d][n] = "queued"
  BY <1>1, <1>2 DEF Return
<1> QED
  BY <1>4, <1>5, QuietStep DEF Return, Inv, TurnInv

LEMMA OtherStep ==
  ASSUME Inv, (\E n \in Nodes : FailThresholdPasses(n)) \/ Cancel \/ CloseWorkers
  PROVE  Inv'
<1>1. CASE \E n \in Nodes : FailThresholdPasses(n)
  <2>1. UNCHANGED <<call, job, chain, stopping, closed, twice>> /\ failed' \subseteq failed
    BY <1>1 DEF FailThresholdPasses
  <2>2. Types'
    BY <2>1 DEF Inv, Types, WorkerRecord, InHandler
  <2> QED
    BY <2>1, <2>2, QuietStep DEF Inv, TurnInv
<1>2. CASE Cancel
  <2>1. Types'
    BY <1>2 DEF Inv, Types, Cancel, WorkerRecord, InHandler
  <2> QED
    BY <1>2, <2>1, QuietStep DEF Cancel, Inv, TurnInv
<1>3. CASE CloseWorkers
  <2>1. Types'
    BY <1>3 DEF Inv, Types, CloseWorkers, WorkerRecord, InHandler
  <2> QED
    BY <1>3, <2>1, QuietStep DEF CloseWorkers, Inv, TurnInv
<1> QED
  BY <1>1, <1>2, <1>3

-----------------------------------------------------------------------------
(* A step of one worker *)

LEMMA TrimProperties ==
  ASSUME NEW s \in Seq(WorkerRecord), Len(s) > 0
  PROVE  \E k \in 1..Len(s) :
            /\ Trim(s) \in Seq(WorkerRecord)
            /\ Len(Trim(s)) = Len(s) - k + 1
            /\ \A a \in 1..(Len(s) - k + 1) : Trim(s)[a] = s[k + a - 1]
            /\ \A b \in 1..Len(s) : b < k => s[b].pc = "gone"
<1> DEFINE K == {b \in 1..Len(s) : b = Len(s) \/ s[b].pc # "gone"}
<1>1. Len(s) \in Nat /\ \A b \in 1..Len(s) : s[b] \in WorkerRecord
  BY LenProperties, ElementOfSeq
<1>2. K \in SUBSET Nat /\ Len(s) \in K
  BY <1>1
<1>3. PICK k \in K : k = Min(K) /\ \A b \in K : k <= b
  BY <1>2, MinOfNat
<1>4. Trim(s) = SubSeq(s, k, Len(s))
  BY <1>3 DEF Trim
<1>5. k \in 1..Len(s) /\ \A b \in 1..Len(s) : b < k => s[b].pc = "gone"
  <2>1. k \in 1..Len(s)
    BY <1>3
  <2>2. ASSUME NEW b \in 1..Len(s), b < k
        PROVE  s[b].pc = "gone"
    <3>1. b \notin K
      BY <1>1, <1>3, <2>1, <2>2
    <3> QED
      BY <3>1
  <2> QED
    BY <2>1, <2>2
<1>6. \A b \in k..Len(s) : s[b] \in WorkerRecord
  BY <1>1, <1>5
<1>7. /\ SubSeq(s, k, Len(s)) \in Seq(WorkerRecord)
      /\ Len(SubSeq(s, k, Len(s))) = IF k <= Len(s) THEN Len(s) - k + 1 ELSE 0
      /\ \A a \in 1..(Len(s) - k + 1) : SubSeq(s, k, Len(s))[a] = s[k + a - 1]
  BY <1>1, <1>5, <1>6, SubSeqProperties
<1> QED
  BY <1>1, <1>4, <1>5, <1>7

\* A worker that is at its end has nothing.
LEMMA EndHasNothing ==
  ASSUME NEW w, Formed(w), w.pc \in AtEnd
  PROVE  In(w) = {}
  BY SetOfEmpty DEF Formed, In, AtEnd

\* A worker becomes v and rids itself of the jobs of the calls D.
LEMMA WorkerStep ==
  ASSUME Inv, Types', NEW n \in Nodes, NEW i \in 1..Len(chain[n]),
         NEW v \in WorkerRecord, SetWorker(n, i, v), Formed(v),
         chain[n][i].pc \notin AtEnd,
         NEW D, D \subseteq In(chain[n][i]), In(v) = In(chain[n][i]) \ D,
         \A c \in Calls, m \in Nodes : m # n \/ c \notin D => job'[c][m] = job[c][m],
         \A c \in D : job'[c][n] # "queued",
         stopping \/ v.pc = "waiting" \/ chain[n][i].pc # "waiting" \/ Ready(n, i),
         UNCHANGED <<stopping, closed>>, twice' = FALSE
  PROVE  Inv'
<1> DEFINE s == chain[n]
           w == chain[n][i]
           u == [chain[n] EXCEPT ![i] = v]
<1>1. /\ chain \in [Nodes -> Seq(WorkerRecord)] /\ s \in Seq(WorkerRecord)
      /\ Len(s) \in Nat /\ Len(s) > 0
  <2>1. chain \in [Nodes -> Seq(WorkerRecord)]
    BY DEF Inv, Types
  <2>2. Len(s) \in Nat
    BY <2>1, LenProperties
  <2> QED
    BY <2>1, <2>2
<1>2. /\ u \in Seq(WorkerRecord) /\ Len(u) = Len(s)
      /\ \A b \in 1..Len(s) : u[b] = IF b = i THEN v ELSE s[b]
  BY <1>1, ExceptSeq
<1>3. chain' = [chain EXCEPT ![n] = Trim(u)]
  BY <1>1 DEF SetWorker
<1> HIDE DEF u
<1>4. PICK k \in 1..Len(s) :
        /\ Trim(u) \in Seq(WorkerRecord)
        /\ Len(Trim(u)) = Len(s) - k + 1
        /\ \A a \in 1..(Len(s) - k + 1) : Trim(u)[a] = u[k + a - 1]
        /\ \A b \in 1..Len(s) : b < k => u[b].pc = "gone"
  <2>1. u \in Seq(WorkerRecord) /\ Len(u) > 0 /\ Len(u) = Len(s)
    BY <1>1, <1>2
  <2>2. \E k \in 1..Len(u) :
          /\ Trim(u) \in Seq(WorkerRecord)
          /\ Len(Trim(u)) = Len(u) - k + 1
          /\ \A a \in 1..(Len(u) - k + 1) : Trim(u)[a] = u[k + a - 1]
          /\ \A b \in 1..Len(u) : b < k => u[b].pc = "gone"
    BY <2>1, TrimProperties, Zenon
  <2> QED
    BY <2>1, <2>2, Zenon
<1> DEFINE t == chain'[n]
<1>5. t = Trim(u) /\ \A m \in Nodes : m # n => chain'[m] = chain[m]
  BY <1>1, <1>3
<1>6. Len(t) = Len(s) - k + 1 /\ Len(t) \in Nat
  BY <1>1, <1>4, <1>5
<1>7. \A a \in 1..Len(t) : k + a - 1 \in 1..Len(s) /\ t[a] = u[k + a - 1]
  BY <1>1, <1>4, <1>5, <1>6
<1>8. \A b \in 1..Len(s) : k <= b => b - k + 1 \in 1..Len(t) /\ t[b - k + 1] = u[b]
  <2> SUFFICES ASSUME NEW b \in 1..Len(s), k <= b
               PROVE  b - k + 1 \in 1..Len(t) /\ t[b - k + 1] = u[b]
    OBVIOUS
  <2>1. b - k + 1 \in 1..Len(t) /\ k + (b - k + 1) - 1 = b
    BY <1>1, <1>6
  <2> QED
    BY <1>7, <2>1
<1>9. /\ Formed(w) /\ \A b \in 1..Len(s) : Formed(u[b])
  BY <1>1, <1>2 DEF Inv, FormedInv
<1>10. \A b \in 1..Len(s) : In(u[b]) = IF b = i THEN In(w) \ D ELSE In(s[b])
  BY <1>2
<1>11. \A b \in 1..Len(s) : In(s[b]) \subseteq Calls
  <2> SUFFICES ASSUME NEW b \in 1..Len(s) PROVE In(s[b]) \subseteq Calls
    OBVIOUS
  <2>1. s[b] \in WorkerRecord
    BY <1>1, ElementOfSeq
  <2>2. s[b].jobs \in Seq(Calls) /\ s[b].queue \in Seq(Calls)
    BY <2>1 DEF WorkerRecord
  <2> QED
    BY <2>2, ElementInSet DEF In
<1>12. \A m \in Nodes : m # n => \A b \in 1..Len(chain[m]) : In(chain[m][b]) \subseteq Calls
  <2> SUFFICES ASSUME NEW m \in Nodes, NEW b \in 1..Len(chain[m])
               PROVE  In(chain[m][b]) \subseteq Calls
    OBVIOUS
  <2>1. chain[m] \in Seq(WorkerRecord)
    BY <1>1
  <2>2. chain[m][b] \in WorkerRecord
    BY <2>1, ElementOfSeq
  <2>3. chain[m][b].jobs \in Seq(Calls) /\ chain[m][b].queue \in Seq(Calls)
    BY <2>2 DEF WorkerRecord
  <2> QED
    BY <2>3, ElementInSet DEF In
<1> HIDE DEF t
<1>13. FormedInv'
  <2>1. \A a \in 1..Len(t) : Formed(t[a])
    BY <1>7, <1>9
  <2>2. \A m \in Nodes : m # n => \A a \in 1..Len(chain'[m]) : Formed(chain'[m][a])
    BY <1>5 DEF Inv, FormedInv
  <2>3. \A m \in Nodes : \A a \in 1..Len(chain'[m]) : Formed(chain'[m][a])
    BY <2>1, <2>2 DEF t
  <2> QED
    BY <2>3 DEF FormedInv, Formed, Full, AtEnd
<1>14. QueuedInv'
  <2>1. ASSUME NEW a \in 1..Len(t), NEW c \in In(t[a])
        PROVE  job'[c][n] = "queued"
    <3>1. PICK b \in 1..Len(s) : t[a] = u[b]
      BY <1>7
    <3>2. c \in In(s[b]) /\ c \notin D
      <4>1. CASE b = i
        BY <1>10, <2>1, <3>1, <4>1
      <4>2. CASE b # i
        <5>1. c \in In(s[b])
          BY <1>10, <2>1, <3>1, <4>2
        <5>2. In(s[b]) \cap In(w) = {}
          BY <4>2 DEF Inv, ApartInv
        <5> QED
          BY <5>1, <5>2
      <4> QED
        BY <4>1, <4>2
    <3>3. job[c][n] = "queued" /\ c \in Calls
      BY <1>11, <3>2 DEF Inv, QueuedInv
    <3> QED
      BY <3>2, <3>3
  <2>2. ASSUME NEW m \in Nodes, m # n, NEW a \in 1..Len(chain'[m]), NEW c \in In(chain'[m][a])
        PROVE  job'[c][m] = "queued"
    <3>1. chain'[m] = chain[m]
      BY <1>5, <2>2
    <3>2. a \in 1..Len(chain[m]) /\ c \in In(chain[m][a])
      BY <2>2, <3>1
    <3>3. job[c][m] = "queued" /\ c \in Calls
      BY <1>12, <2>2, <3>2 DEF Inv, QueuedInv
    <3> QED
      BY <2>2, <3>3
  <2>3. \A m \in Nodes : \A a \in 1..Len(chain'[m]) : \A c \in In(chain'[m][a]) :
           job'[c][m] = "queued"
    BY <2>1, <2>2 DEF t
  <2> QED
    BY <2>3 DEF QueuedInv, In
<1>15. ApartInv'
  <2>1. ASSUME NEW a \in 1..Len(t), NEW b \in 1..Len(t), a # b
        PROVE  In(t[a]) \cap In(t[b]) = {}
    <3> DEFINE aa == k + a - 1
               bb == k + b - 1
    <3>1. aa \in 1..Len(s) /\ bb \in 1..Len(s) /\ aa # bb
      BY <1>7, <1>6, <2>1
    <3>2. t[a] = u[aa] /\ t[b] = u[bb]
      BY <1>7
    <3> HIDE DEF aa, bb
    <3>3. In(t[a]) \subseteq In(s[aa]) /\ In(t[b]) \subseteq In(s[bb])
      BY <1>10, <3>1, <3>2
    <3>4. In(s[aa]) \cap In(s[bb]) = {}
      BY <3>1 DEF Inv, ApartInv
    <3> QED
      BY <3>3, <3>4
  <2>2. ASSUME NEW m \in Nodes, m # n, NEW a \in 1..Len(chain'[m]), NEW b \in 1..Len(chain'[m]),
               a # b
        PROVE  In(chain'[m][a]) \cap In(chain'[m][b]) = {}
    <3>1. chain'[m] = chain[m]
      BY <1>5, <2>2
    <3> QED
      BY <2>2, <3>1 DEF Inv, ApartInv
  <2>3. \A m \in Nodes : \A a, b \in 1..Len(chain'[m]) :
           a # b => In(chain'[m][a]) \cap In(chain'[m][b]) = {}
    BY <2>1, <2>2 DEF t
  <2> QED
    BY <2>3 DEF ApartInv, In
<1>16. HeldInv'
  <2>1. ASSUME NEW c \in Calls, job'[c][n] = "queued"
        PROVE  \E a \in 1..Len(t) : c \in In(t[a])
    <3>1. c \notin D /\ job[c][n] = "queued"
      BY <2>1
    <3>2. PICK b \in 1..Len(s) : c \in In(s[b])
      BY <3>1 DEF Inv, HeldInv
    <3>3. c \in In(u[b])
      BY <1>10, <3>1, <3>2
    <3>4. ~(b < k)
      BY <1>4, <1>9, <3>3, EndHasNothing DEF AtEnd
    <3>5. k <= b
      BY <3>4, <1>1
    <3> QED
      BY <1>8, <3>3, <3>5
  <2>2. ASSUME NEW m \in Nodes, m # n, NEW c \in Calls, job'[c][m] = "queued"
        PROVE  \E a \in 1..Len(chain'[m]) : c \in In(chain'[m][a])
    <3>1. chain'[m] = chain[m] /\ job[c][m] = "queued"
      BY <1>5, <2>2
    <3> QED
      BY <3>1 DEF Inv, HeldInv
  <2>3. \A m \in Nodes : \A c \in Calls : job'[c][m] = "queued" =>
           \E a \in 1..Len(chain'[m]) : c \in In(chain'[m][a])
    BY <2>1, <2>2 DEF t
  <2> QED
    BY <2>3 DEF HeldInv, In
<1>17. TurnInv'
  <2> SUFFICES ASSUME ~stopping', NEW m \in Nodes, NEW a \in 1..Len(chain'[m]),
                      NEW b \in 1..Len(chain'[m]), b < a, chain'[m][a].pc # "waiting"
               PROVE  chain'[m][b].pc = "gone"
    BY DEF Inv, TurnInv
  <2>1. CASE m # n
    <3>1. chain'[m] = chain[m]
      BY <1>5, <2>1
    <3> QED
      BY <3>1 DEF Inv, TurnInv
  <2>2. CASE m = n
    <3> DEFINE aa == k + a - 1
               bb == k + b - 1
    <3>1. /\ aa \in 1..Len(s) /\ bb \in 1..Len(s) /\ bb < aa
          /\ chain'[m][a] = u[aa] /\ chain'[m][b] = u[bb]
      BY <1>6, <1>7, <2>2 DEF t
    <3> HIDE DEF aa, bb
    <3>2. \A x, y \in 1..Len(s) : y < x /\ s[x].pc # "waiting" => s[y].pc = "gone"
      BY DEF Inv, TurnInv
    <3>3. w.pc \notin AtEnd
      OBVIOUS
    <3>4. CASE aa # i
      <4>1. s[aa].pc # "waiting"
        BY <1>2, <3>1, <3>4
      <4>2. s[bb].pc = "gone"
        BY <3>1, <3>2, <4>1
      <4>3. bb # i
        BY <3>3, <4>2 DEF AtEnd
      <4> QED
        BY <1>2, <3>1, <4>2, <4>3
    <3>5. CASE aa = i
      <4>1. bb # i /\ v.pc # "waiting"
        BY <1>1, <1>2, <3>1, <3>5
      <4>2. s[bb].pc = "gone"
        <5>1. CASE w.pc # "waiting"
          BY <3>1, <3>2, <3>5, <5>1
        <5>2. CASE w.pc = "waiting"
          <6>1. Ready(n, i)
            BY <4>1, <5>2
          <6>2. i > 1 /\ i - 1 \in 1..Len(s) /\ bb <= i - 1
            BY <1>1, <3>1, <3>5
          <6>3. s[i - 1].pc = "gone"
            BY <6>1, <6>2 DEF Ready
          <6>4. CASE bb = i - 1
            BY <6>3, <6>4
          <6>5. CASE bb # i - 1
            <7>1. bb < i - 1
              BY <1>1, <3>1, <6>2, <6>5
            <7> QED
              BY <3>1, <3>2, <6>2, <6>3, <7>1
          <6> QED
            BY <6>4, <6>5
        <5> QED
          BY <5>1, <5>2
      <4> QED
        BY <1>2, <3>1, <4>1, <4>2
    <3> QED
      BY <3>4, <3>5
  <2> QED
    BY <2>1, <2>2
<1>18. LengthInv'
  <2>1. MaxWorkers \in Nat \ {0}
    BY DeletionAssumption
  <2>2. \/ Len(t) <= MaxWorkers
        \/ Len(t) = MaxWorkers + 1 /\ t[MaxWorkers + 1].pc = "unstarted"
    <3>1. CASE Len(s) <= MaxWorkers
      BY <1>1, <1>6, <2>1, <3>1
    <3>2. CASE Len(s) = MaxWorkers + 1 /\ s[MaxWorkers + 1].pc = "unstarted"
      <4>1. i # MaxWorkers + 1
        BY <3>2 DEF AtEnd
      <4>2. CASE k = 1
        BY <1>1, <1>2, <1>6, <1>7, <2>1, <3>2, <4>1, <4>2
      <4>3. CASE k # 1
        BY <1>1, <1>6, <2>1, <3>2, <4>3
      <4> QED
        BY <4>2, <4>3
    <3> QED
      BY <3>1, <3>2 DEF Inv, LengthInv
  <2>3. \A m \in Nodes : m # n =>
           \/ Len(chain'[m]) <= MaxWorkers
           \/ Len(chain'[m]) = MaxWorkers + 1 /\ chain'[m][MaxWorkers + 1].pc = "unstarted"
    BY <1>5 DEF Inv, LengthInv
  <2> QED
    BY <2>2, <2>3 DEF LengthInv, t
<1> QED
  BY <1>13, <1>14, <1>15, <1>16, <1>17, <1>18 DEF Inv

-----------------------------------------------------------------------------
(* What each step does to its worker *)

LEMMA BatchProperties ==
  ASSUME NEW jobs \in Seq(Calls), jobs # <<>>
  PROVE  /\ Batch(jobs) \in Seq(Calls) /\ Rest(jobs) \in Seq(Calls)
         /\ ToSet(jobs) = ToSet(Batch(jobs)) \cup ToSet(Rest(jobs))
         /\ IsInjective(jobs) =>
               IsInjective(Rest(jobs)) /\ ToSet(Batch(jobs)) \cap ToSet(Rest(jobs)) = {}
<1> DEFINE K == {k \in 1..Len(jobs) :
                   k = Len(jobs) \/ PiecesOf(SubSeq(jobs, 1, k)) >= MaxPiecesPerRequest}
<1>1. Len(jobs) \in Nat /\ Len(jobs) > 0
  <2>1. Len(jobs) \in Nat /\ Len(jobs) # 0
    BY LenProperties, EmptySeq
  <2> QED
    BY <2>1
<1>2. K \in SUBSET Nat /\ Len(jobs) \in K
  <2>1. Len(jobs) \in 1..Len(jobs)
    BY <1>1
  <2>2. \A k \in 1..Len(jobs) : k \in Nat
    BY <1>1
  <2> QED
    BY <2>1, <2>2, Zenon
<1>3. Min(K) \in K
  BY <1>2, MinOfNat
<1>4. BatchLength(jobs) \in 1..Len(jobs)
  <2>1. BatchLength(jobs) = Min(K)
    BY DEF BatchLength
  <2> QED
    BY <1>3, <2>1
<1> QED
  BY <1>4, SplitProperties DEF Batch, Rest

LEMMA WorkerIn ==
  ASSUME Inv, NEW n \in Nodes, NEW i \in 1..Len(chain[n])
  PROVE  LET w == chain[n][i] IN
         /\ w \in WorkerRecord /\ Formed(w)
         /\ w.jobs \in Seq(Calls) /\ w.queue \in Seq(Calls) /\ w.count \in Nat
         /\ w.waits \in BOOLEAN /\ w.done \in BOOLEAN
         /\ In(w) \subseteq Calls
<1>1. chain[n] \in Seq(WorkerRecord)
  BY DEF Inv, Types
<1>2. chain[n][i] \in WorkerRecord
  BY <1>1, ElementOfSeq
<1>3. /\ chain[n][i].jobs \in Seq(Calls) /\ chain[n][i].queue \in Seq(Calls)
      /\ chain[n][i].count \in Nat
      /\ chain[n][i].waits \in BOOLEAN /\ chain[n][i].done \in BOOLEAN
  BY <1>2 DEF WorkerRecord
<1>4. In(chain[n][i]) \subseteq Calls
  BY <1>3, ElementInSet DEF In
<1> QED
  BY <1>2, <1>3, <1>4 DEF Inv, FormedInv

LEMMA SetWorkerType ==
  ASSUME Inv, NEW n \in Nodes, NEW i \in 1..Len(chain[n]), NEW v \in WorkerRecord,
         SetWorker(n, i, v)
  PROVE  chain' \in [Nodes -> Seq(WorkerRecord)]
<1>1. /\ chain \in [Nodes -> Seq(WorkerRecord)] /\ Len(chain[n]) \in Nat /\ Len(chain[n]) > 0
  <2>1. chain \in [Nodes -> Seq(WorkerRecord)]
    BY DEF Inv, Types
  <2>2. Len(chain[n]) \in Nat
    BY <2>1, LenProperties
  <2> QED
    BY <2>1, <2>2
<1> DEFINE u == [chain[n] EXCEPT ![i] = v]
<1>2. u \in Seq(WorkerRecord) /\ Len(u) = Len(chain[n])
  BY <1>1, ExceptSeq
<1>3. chain' = [chain EXCEPT ![n] = Trim(u)]
  BY <1>1 DEF SetWorker
<1> HIDE DEF u
<1>4. Len(u) > 0
  BY <1>1, <1>2
<1>5. Trim(u) \in Seq(WorkerRecord)
  BY <1>2, <1>4, TrimProperties
<1> QED
  BY <1>1, <1>3, <1>5

\* A worker becomes v and keeps its jobs.
LEMMA KeepStep ==
  ASSUME Inv, NEW n \in Nodes, NEW i \in 1..Len(chain[n]),
         NEW v \in WorkerRecord, SetWorker(n, i, v), Formed(v),
         chain[n][i].pc \notin AtEnd, In(v) = In(chain[n][i]),
         stopping \/ v.pc = "waiting" \/ chain[n][i].pc # "waiting" \/ Ready(n, i),
         UNCHANGED <<call, job, stopping, closed, twice>>, failed' \subseteq Nodes
  PROVE  Inv'
<1>1. Types'
  <2>1. chain' \in [Nodes -> Seq(WorkerRecord)]
    BY SetWorkerType
  <2>2. /\ call \in [Calls -> {"idle", "acquiring", "enqueuing", "waiting"}]
        /\ job \in [Calls -> [Nodes -> {"none", "new", "queued", "success", "failure"}]]
        /\ stopping \in BOOLEAN /\ closed \in BOOLEAN
    BY DEF Inv, Types
  <2>3. call' = call /\ job' = job /\ stopping' = stopping /\ closed' = closed
    OBVIOUS
  <2> QED
    BY <2>1, <2>2, <2>3 DEF Types, WorkerRecord, InHandler
<1>2. twice' = FALSE
  BY DEF Inv
<1>3. PICK D : D = {}
  OBVIOUS
<1>4. /\ D \subseteq In(chain[n][i]) /\ In(v) = In(chain[n][i]) \ D
      /\ \A c \in Calls, m \in Nodes : m # n \/ c \notin D => job'[c][m] = job[c][m]
      /\ \A c \in D : job'[c][n] # "queued"
      /\ UNCHANGED <<stopping, closed>>
  BY <1>3
<1> QED
  BY <1>1, <1>2, <1>4, WorkerStep

\* A worker moves on.
LEMMA PcStep ==
  ASSUME Inv, NEW n \in Nodes, NEW i \in 1..Len(chain[n]),
         NEW q \in {"acquiring", "failing", "dialing", "popping", "closing"},
         chain[n][i].pc \notin {"gone", "unstarted", "sending"},
         SetWorker(n, i, [chain[n][i] EXCEPT !.pc = q]),
         stopping \/ chain[n][i].pc # "waiting" \/ Ready(n, i),
         UNCHANGED <<call, job, stopping, closed, twice>>, failed' \subseteq Nodes
  PROVE  Inv'
<1> DEFINE w == chain[n][i]
           v == [w EXCEPT !.pc = q]
<1>1. /\ w \in WorkerRecord /\ Formed(w) /\ w.jobs \in Seq(Calls) /\ w.queue \in Seq(Calls)
  BY WorkerIn
<1>2. v \in WorkerRecord
  <2>1. q \in InHandler \cup {"waiting", "acquiring", "failing", "gone", "unstarted"}
    BY DEF InHandler
  <2> QED
    BY <1>1, <2>1 DEF WorkerRecord
<1>3. /\ v.pc = q /\ v.jobs = w.jobs /\ v.queue = w.queue /\ v.count = w.count
      /\ v.done = w.done /\ v.waits = w.waits
  BY <1>1 DEF WorkerRecord
<1>4. SetWorker(n, i, v)
  OBVIOUS
<1> HIDE DEF v
<1>5. Formed(v)
  BY <1>1, <1>3 DEF Formed, AtEnd
<1>6. In(v) = In(w)
  BY <1>3 DEF In
<1>7. w.pc \notin AtEnd
  BY DEF AtEnd
<1> QED
  BY <1>2, <1>4, <1>5, <1>6, <1>7, KeepStep

LEMMA StartStep ==
  ASSUME Inv, NEW n \in Nodes, NEW i \in 1..Len(chain[n]), Start(n, i)
  PROVE  Inv'
<1>1. chain[n][i].pc = "waiting" /\ UNCHANGED <<call, job, failed, stopping, closed, twice>>
  BY DEF Start
<1>2. failed' \subseteq Nodes
  BY <1>1 DEF Inv, Types
<1>3. \/ Ready(n, i) /\ SetWorker(n, i, [chain[n][i] EXCEPT !.pc = "acquiring"])
      \/ stopping /\ SetWorker(n, i, [chain[n][i] EXCEPT !.pc = "failing"])
  BY DEF Start
<1> QED
  BY <1>1, <1>2, <1>3, PcStep

LEMMA AcquireSlotStep ==
  ASSUME Inv, NEW n \in Nodes, NEW i \in 1..Len(chain[n]), AcquireSlot(n, i)
  PROVE  Inv'
<1>1. chain[n][i].pc = "acquiring" /\ UNCHANGED <<call, job, failed, stopping, closed, twice>>
  BY DEF AcquireSlot
<1>2. failed' \subseteq Nodes
  BY <1>1 DEF Inv, Types
<1>3. \/ SetWorker(n, i, [chain[n][i] EXCEPT !.pc = "dialing"])
      \/ SetWorker(n, i, [chain[n][i] EXCEPT !.pc = "failing"])
  BY DEF AcquireSlot
<1> QED
  BY <1>1, <1>2, <1>3, PcStep

LEMMA DialStep ==
  ASSUME Inv, NEW n \in Nodes, NEW i \in 1..Len(chain[n]), Dial(n, i)
  PROVE  Inv'
<1>1. chain[n][i].pc = "dialing" /\ UNCHANGED <<call, job, stopping, closed, twice>>
  BY DEF Dial
<1>2. failed' \subseteq Nodes
  BY DEF Dial, Inv, Types
<1>3. \/ SetWorker(n, i, [chain[n][i] EXCEPT !.pc = "closing"])
      \/ SetWorker(n, i, [chain[n][i] EXCEPT !.pc = "popping"])
  BY DEF Dial
<1> QED
  BY <1>1, <1>2, <1>3, PcStep

\* The jobs that are resolved were queued, and are not any more.
LEMMA ResolveProperties ==
  ASSUME Inv, NEW n \in Nodes, NEW jobs, NEW result \in {"success", "failure"},
         ToSet(jobs) \subseteq Calls, \A c \in ToSet(jobs) : job[c][n] = "queued",
         Resolve(n, jobs, result)
  PROVE  /\ job' \in [Calls -> [Nodes -> {"none", "new", "queued", "success", "failure"}]]
         /\ \A c \in Calls, m \in Nodes :
               m # n \/ c \notin ToSet(jobs) => job'[c][m] = job[c][m]
         /\ \A c \in ToSet(jobs) : job'[c][n] # "queued"
         /\ twice' = FALSE
<1> DEFINE D == ToSet(jobs)
<1>1. job' = [c \in Calls |-> [m \in Nodes |->
                IF m # n \/ c \notin D THEN job[c][m]
                ELSE IF call[c] = "idle" THEN "none" ELSE result]]
  BY DEF Resolve
<1>2. twice' = (twice \/ \E c \in D : job[c][n] # "queued")
  BY DEF Resolve
<1> HIDE DEF D
<1>3. job \in [Calls -> [Nodes -> {"none", "new", "queued", "success", "failure"}]]
  BY DEF Inv, Types
<1>4. job' \in [Calls -> [Nodes -> {"none", "new", "queued", "success", "failure"}]]
  BY <1>1, <1>3
<1>5. \A c \in Calls, m \in Nodes : m # n \/ c \notin D => job'[c][m] = job[c][m]
  BY <1>1
<1>6. \A c \in D : c \in Calls /\ job[c][n] = "queued"
  BY DEF D
<1>7. \A c \in D : job'[c][n] # "queued"
  BY <1>1, <1>6
<1>8. twice' = FALSE
  BY <1>2, <1>6 DEF Inv
<1> QED
  BY <1>4, <1>5, <1>7, <1>8 DEF D

LEMMA PopStep ==
  ASSUME Inv, NEW n \in Nodes, NEW i \in 1..Len(chain[n]), Pop(n, i)
  PROVE  Inv'
<1> DEFINE w == chain[n][i]
<1>1. /\ w \in WorkerRecord /\ Formed(w) /\ w.jobs \in Seq(Calls) /\ w.queue \in Seq(Calls)
      /\ w.count \in Nat
  BY WorkerIn
<1>2. w.pc = "popping" /\ UNCHANGED <<call, job, failed, stopping, closed, twice>>
  BY DEF Pop
<1>3. \/ SetWorker(n, i, [w EXCEPT !.pc = "closing"])
      \/ w.queue = <<>> /\ SetWorker(n, i, [w EXCEPT !.pc = "closing", !.done = TRUE])
      \/ w.queue # <<>> /\ SetWorker(n, i, [w EXCEPT !.pc = "sending", !.jobs = w.queue,
                                              !.queue = <<>>, !.count = w.count])
  BY DEF Pop, CountAfterPop
<1>4. w.jobs = <<>>
  BY <1>1, <1>2 DEF Formed
<1>5. /\ failed' \subseteq Nodes /\ w.pc \notin AtEnd
  BY <1>2 DEF Inv, Types, AtEnd
<1>6. CASE SetWorker(n, i, [w EXCEPT !.pc = "closing"])
  BY <1>2, <1>5, <1>6, PcStep
<1>7. CASE w.queue = <<>> /\ SetWorker(n, i, [w EXCEPT !.pc = "closing", !.done = TRUE])
  <2> DEFINE v == [w EXCEPT !.pc = "closing", !.done = TRUE]
  <2>1. v \in WorkerRecord
    BY <1>1 DEF WorkerRecord, InHandler
  <2>2. /\ v.pc = "closing" /\ v.jobs = w.jobs /\ v.queue = w.queue /\ v.count = w.count
        /\ v.done = TRUE
    BY <1>1 DEF WorkerRecord
  <2>3. SetWorker(n, i, v)
    BY <1>7
  <2> HIDE DEF v
  <2>4. Formed(v)
    BY <1>1, <1>2, <2>2 DEF Formed, AtEnd
  <2>5. In(v) = In(w)
    BY <2>2 DEF In
  <2> QED
    BY <1>2, <1>5, <2>1, <2>3, <2>4, <2>5, KeepStep
<1>8. CASE w.queue # <<>> /\ SetWorker(n, i, [w EXCEPT !.pc = "sending", !.jobs = w.queue,
                                                   !.queue = <<>>, !.count = w.count])
  <2> DEFINE v == [w EXCEPT !.pc = "sending", !.jobs = w.queue, !.queue = <<>>,
                            !.count = w.count]
  <2>1. v \in WorkerRecord
    <3>1. <<>> \in Seq(Calls)
      BY EmptySeq
    <3> QED
      BY <1>1, <3>1 DEF WorkerRecord, InHandler
  <2>2. /\ v.pc = "sending" /\ v.jobs = w.queue /\ v.queue = <<>> /\ v.count = w.count
        /\ v.done = w.done
    BY <1>1 DEF WorkerRecord
  <2>3. SetWorker(n, i, v)
    BY <1>8
  <2> HIDE DEF v
  <2>4. Formed(v)
    BY <1>1, <1>8, <2>2, SetOfEmpty DEF Formed, AtEnd
  <2>5. In(v) = In(w)
    BY <1>4, <2>2, SetOfEmpty DEF In
  <2> QED
    BY <1>2, <1>5, <2>1, <2>3, <2>4, <2>5, KeepStep
<1> QED
  BY <1>3, <1>6, <1>7, <1>8

\* A worker becomes v, and the jobs it has no longer are resolved.
LEMMA ResolveStep ==
  ASSUME Inv, NEW n \in Nodes, NEW i \in 1..Len(chain[n]),
         NEW v \in WorkerRecord, SetWorker(n, i, v), Formed(v),
         chain[n][i].pc \notin AtEnd, chain[n][i].pc # "waiting",
         NEW jobs, NEW result \in {"success", "failure"}, Resolve(n, jobs, result),
         ToSet(jobs) \subseteq In(chain[n][i]),
         In(v) = In(chain[n][i]) \ ToSet(jobs),
         UNCHANGED <<call, stopping, closed>>, failed' \subseteq Nodes
  PROVE  Inv'
<1>1. ToSet(jobs) \subseteq Calls /\ \A c \in ToSet(jobs) : job[c][n] = "queued"
  BY WorkerIn DEF Inv, QueuedInv
<1>2. /\ job' \in [Calls -> [Nodes -> {"none", "new", "queued", "success", "failure"}]]
      /\ \A c \in Calls, m \in Nodes :
            m # n \/ c \notin ToSet(jobs) => job'[c][m] = job[c][m]
      /\ \A c \in ToSet(jobs) : job'[c][n] # "queued"
      /\ twice' = FALSE
  BY <1>1, ResolveProperties
<1>3. Types'
  <2>1. chain' \in [Nodes -> Seq(WorkerRecord)]
    BY SetWorkerType
  <2>2. /\ call \in [Calls -> {"idle", "acquiring", "enqueuing", "waiting"}]
        /\ stopping \in BOOLEAN /\ closed \in BOOLEAN
    BY DEF Inv, Types
  <2>3. call' = call /\ stopping' = stopping /\ closed' = closed
    OBVIOUS
  <2> QED
    BY <1>2, <2>1, <2>2, <2>3 DEF Types, WorkerRecord, InHandler
<1>4. PICK D : D = ToSet(jobs)
  OBVIOUS
<1>5. /\ D \subseteq In(chain[n][i]) /\ In(v) = In(chain[n][i]) \ D
      /\ \A c \in Calls, m \in Nodes : m # n \/ c \notin D => job'[c][m] = job[c][m]
      /\ \A c \in D : job'[c][n] # "queued"
      /\ UNCHANGED <<stopping, closed>>
  BY <1>2, <1>4
<1> QED
  BY <1>2, <1>3, <1>5, WorkerStep

LEMMA SucceedStep ==
  ASSUME Inv, NEW n \in Nodes, NEW i \in 1..Len(chain[n]), RequestSucceeds(n, i)
  PROVE  Inv'
<1> DEFINE w == chain[n][i]
           batch == Batch(w.jobs)
           rest == Rest(w.jobs)
           jobs == rest \o w.queue
           pc == IF jobs = <<>> THEN "popping" ELSE "sending"
           v == [w EXCEPT !.pc = pc, !.jobs = jobs, !.queue = <<>>, !.count = w.count]
<1>1. /\ w \in WorkerRecord /\ Formed(w) /\ w.jobs \in Seq(Calls) /\ w.queue \in Seq(Calls)
      /\ w.count \in Nat
  BY WorkerIn
<1>2. /\ w.pc = "sending" /\ Resolve(n, batch, "success") /\ SetWorker(n, i, v)
      /\ UNCHANGED <<call, failed, stopping, closed>>
  BY DEF RequestSucceeds, CountAfterPop
<1>3. w.jobs # <<>> /\ IsInjective(w.jobs) /\ IsInjective(w.queue)
      /\ ToSet(w.jobs) \cap ToSet(w.queue) = {}
  BY <1>1, <1>2 DEF Formed
<1>4. /\ batch \in Seq(Calls) /\ rest \in Seq(Calls)
      /\ ToSet(w.jobs) = ToSet(batch) \cup ToSet(rest)
      /\ IsInjective(rest) /\ ToSet(batch) \cap ToSet(rest) = {}
  BY <1>1, <1>3, BatchProperties
<1> HIDE DEF batch, rest
<1>5. jobs \in Seq(Calls) /\ ToSet(jobs) = ToSet(rest) \cup ToSet(w.queue) /\ IsInjective(jobs)
  <2>1. ToSet(rest) \cap ToSet(w.queue) = {}
    BY <1>3, <1>4
  <2> QED
    BY <1>1, <1>3, <1>4, <2>1, SetOfConcat, InjectiveConcat, ConcatProperties
<1> HIDE DEF jobs
<1>6. v \in WorkerRecord
  <2>1. <<>> \in Seq(Calls)
    BY EmptySeq
  <2>2. pc \in InHandler \cup {"waiting", "acquiring", "failing", "gone", "unstarted"}
    BY DEF InHandler
  <2> HIDE DEF pc
  <2> QED
    BY <1>1, <1>5, <2>1, <2>2 DEF WorkerRecord
<1>7. /\ v.pc = pc /\ v.jobs = jobs /\ v.queue = <<>> /\ v.count = w.count
      /\ v.done = w.done
  BY <1>1 DEF WorkerRecord
<1>8. v.jobs # <<>> <=> v.pc = "sending"
  BY <1>7
<1>9. v.pc \notin AtEnd /\ w.pc \notin AtEnd /\ w.pc # "waiting"
  BY <1>2, <1>7 DEF AtEnd
<1> HIDE DEF v
<1>10. Formed(v)
  BY <1>1, <1>5, <1>7, <1>8, <1>9, SetOfEmpty DEF Formed
<1>11. ToSet(batch) \subseteq In(w) /\ In(v) = In(w) \ ToSet(batch)
  <2>1. In(v) = ToSet(jobs)
    BY <1>7, SetOfEmpty DEF In
  <2>2. In(w) = ToSet(batch) \cup ToSet(rest) \cup ToSet(w.queue)
    BY <1>4 DEF In
  <2>3. ToSet(batch) \cap (ToSet(rest) \cup ToSet(w.queue)) = {}
    BY <1>3, <1>4
  <2> QED
    BY <1>5, <2>1, <2>2, <2>3
<1>12. failed' \subseteq Nodes /\ UNCHANGED <<call, stopping, closed>>
  BY <1>2 DEF Inv, Types
<1> QED
  BY <1>2, <1>6, <1>9, <1>10, <1>11, <1>12, ResolveStep

LEMMA FailStep ==
  ASSUME Inv, NEW n \in Nodes, NEW i \in 1..Len(chain[n]), RequestFails(n, i)
  PROVE  Inv'
<1> DEFINE w == chain[n][i]
           jobs == Batch(w.jobs) \o Rest(w.jobs)
           v == [w EXCEPT !.pc = "popping", !.jobs = <<>>]
<1>1. /\ w \in WorkerRecord /\ Formed(w) /\ w.jobs \in Seq(Calls) /\ w.queue \in Seq(Calls)
      /\ w.count \in Nat
  BY WorkerIn
<1>2. /\ w.pc = "sending" /\ Resolve(n, jobs, "failure") /\ SetWorker(n, i, v)
      /\ UNCHANGED <<call, stopping, closed>>
  BY DEF RequestFails
<1>3. w.jobs # <<>> /\ IsInjective(w.queue) /\ ToSet(w.jobs) \cap ToSet(w.queue) = {}
  BY <1>1, <1>2 DEF Formed
<1>4. ToSet(jobs) = ToSet(w.jobs)
  <2>1. /\ Batch(w.jobs) \in Seq(Calls) /\ Rest(w.jobs) \in Seq(Calls)
        /\ ToSet(w.jobs) = ToSet(Batch(w.jobs)) \cup ToSet(Rest(w.jobs))
    BY <1>1, <1>3, BatchProperties
  <2> QED
    BY <2>1, SetOfConcat
<1> HIDE DEF jobs
<1>5. v \in WorkerRecord
  <2>1. <<>> \in Seq(Calls)
    BY EmptySeq
  <2> QED
    BY <1>1, <2>1 DEF WorkerRecord, InHandler
<1>6. /\ v.pc = "popping" /\ v.jobs = <<>> /\ v.queue = w.queue /\ v.count = w.count
      /\ v.done = w.done
  BY <1>1 DEF WorkerRecord
<1>7. v.pc \notin AtEnd /\ w.pc \notin AtEnd /\ w.pc # "waiting"
  BY <1>2, <1>6 DEF AtEnd
<1> HIDE DEF v
<1>8. Formed(v)
  BY <1>1, <1>3, <1>6, <1>7, SetOfEmpty DEF Formed
<1>9. ToSet(jobs) \subseteq In(w) /\ In(v) = In(w) \ ToSet(jobs)
  <2>1. In(v) = ToSet(w.queue)
    BY <1>6, SetOfEmpty DEF In
  <2> QED
    BY <1>3, <1>4, <2>1 DEF In
<1>10. failed' \subseteq Nodes
  BY DEF RequestFails, Inv, Types
<1> QED
  BY <1>2, <1>5, <1>7, <1>8, <1>9, <1>10, ResolveStep

LEMMA PendingStep ==
  ASSUME Inv, NEW n \in Nodes, NEW i \in 1..Len(chain[n]), FailPending(n, i)
  PROVE  Inv'
<1> DEFINE w == chain[n][i]
<1>1. /\ w \in WorkerRecord /\ Formed(w) /\ w.jobs \in Seq(Calls) /\ w.queue \in Seq(Calls)
      /\ w.count \in Nat
  BY WorkerIn
<1>2. /\ w.pc \in {"closing", "failing"} /\ Resolve(n, w.queue, "failure")
      /\ UNCHANGED <<call, failed, stopping, closed>>
  BY DEF FailPending
<1>3. \/ w.queue # <<>> /\ SetWorker(n, i, [w EXCEPT !.queue = <<>>])
      \/ w.queue = <<>> /\ SetWorker(n, i, [w EXCEPT !.pc = "gone", !.done = TRUE, !.count = 0])
  BY DEF FailPending, Ended
<1>4. w.jobs = <<>> /\ IsInjective(w.jobs)
  BY <1>1, <1>2 DEF Formed
<1>5. /\ w.pc \notin AtEnd /\ w.pc # "waiting" /\ ToSet(w.queue) \subseteq In(w)
      /\ In(w) \ ToSet(w.queue) = {}
  BY <1>2, <1>4, SetOfEmpty DEF AtEnd, In
<1>6. failed' \subseteq Nodes /\ UNCHANGED <<call, stopping, closed>>
  BY <1>2 DEF Inv, Types
<1>7. <<>> \in Seq(Calls)
  BY EmptySeq
<1>8. CASE w.queue # <<>> /\ SetWorker(n, i, [w EXCEPT !.queue = <<>>])
  <2> DEFINE v == [w EXCEPT !.queue = <<>>]
  <2>1. v \in WorkerRecord
    BY <1>1, <1>7 DEF WorkerRecord
  <2>2. /\ v.pc = w.pc /\ v.jobs = w.jobs /\ v.queue = <<>> /\ v.count = w.count
        /\ v.done = w.done
    BY <1>1 DEF WorkerRecord
  <2>3. SetWorker(n, i, v)
    BY <1>8
  <2> HIDE DEF v
  <2>4. Formed(v)
    BY <1>1, <1>4, <1>5, <2>2, SetOfEmpty DEF Formed
  <2>5. In(v) = In(w) \ ToSet(w.queue)
    BY <1>4, <1>5, <2>2, SetOfEmpty DEF In
  <2> QED
    BY <1>2, <1>5, <1>6, <2>1, <2>3, <2>4, <2>5, ResolveStep
<1>9. CASE w.queue = <<>> /\ SetWorker(n, i, [w EXCEPT !.pc = "gone", !.done = TRUE, !.count = 0])
  <2> DEFINE v == [w EXCEPT !.pc = "gone", !.done = TRUE, !.count = 0]
  <2>1. v \in WorkerRecord
    BY <1>1 DEF WorkerRecord
  <2>2. /\ v.pc = "gone" /\ v.jobs = <<>> /\ v.queue = <<>> /\ v.count = 0
        /\ v.done = TRUE
    BY <1>1, <1>4, <1>9 DEF WorkerRecord
  <2>3. SetWorker(n, i, v)
    BY <1>9
  <2> HIDE DEF v
  <2>4. Formed(v)
    BY <2>2, SetOfEmpty DEF Formed
  <2>5. In(v) = In(w) \ ToSet(w.queue)
    BY <1>5, <2>2, SetOfEmpty DEF In
  <2> QED
    BY <1>2, <1>5, <1>6, <2>1, <2>3, <2>4, <2>5, ResolveStep
<1> QED
  BY <1>3, <1>8, <1>9

-----------------------------------------------------------------------------
(* Enqueue *)

\* The chain of n becomes t: worker h of it has the new job c as well (none if h is
\* 0), and workers may have been added.
LEMMA AddStep ==
  ASSUME Inv, Types', NEW n \in Nodes, NEW c \in Calls, NEW h \in Nat,
         NEW t \in Seq(WorkerRecord), Len(chain[n]) <= Len(t),
         chain' = [chain EXCEPT ![n] = t],
         \A a \in 1..Len(t) : Formed(t[a]),
         \A a \in 1..Len(t) :
            In(t[a]) = (IF a <= Len(chain[n]) THEN In(chain[n][a]) ELSE {})
                           \cup (IF a = h THEN {c} ELSE {}),
         job[c][n] = "new",
         job'[c][n] = "queued" <=> h \in 1..Len(t), h # 0 <=> h \in 1..Len(t),
         \A d \in Calls, m \in Nodes : d # c \/ m # n => job'[d][m] = job[d][m],
         \/ stopping
         \/ \A a \in 1..Len(t), b \in 1..Len(t) :
               b < a /\ t[a].pc # "waiting" => t[b].pc = "gone",
         \/ Len(t) <= MaxWorkers
         \/ Len(t) = MaxWorkers + 1 /\ t[MaxWorkers + 1].pc = "unstarted",
         UNCHANGED <<stopping, closed, twice>>
  PROVE  Inv'
<1> DEFINE s == chain[n]
<1>1. /\ chain \in [Nodes -> Seq(WorkerRecord)] /\ Len(s) \in Nat /\ Len(t) \in Nat
  <2>1. chain \in [Nodes -> Seq(WorkerRecord)]
    BY DEF Inv, Types
  <2> QED
    BY <2>1, LenProperties
<1>2. chain'[n] = t /\ \A m \in Nodes : m # n => chain'[m] = chain[m]
  BY <1>1
<1>3. \A m \in Nodes : \A a \in 1..Len(chain[m]) :
         /\ In(chain[m][a]) \subseteq Calls
         /\ \A d \in In(chain[m][a]) : job[d][m] = "queued"
  BY WorkerIn DEF Inv, QueuedInv
<1>4. \A a \in 1..Len(s) : c \notin In(s[a])
  BY <1>3
<1>5. \A a \in 1..Len(t) : \A d : d \in In(t[a]) <=>
         (a \in 1..Len(s) /\ d \in In(s[a])) \/ (a = h /\ d = c)
  <2> SUFFICES ASSUME NEW a \in 1..Len(t), NEW d
               PROVE  d \in In(t[a]) <=>
                         (a \in 1..Len(s) /\ d \in In(s[a])) \/ (a = h /\ d = c)
    OBVIOUS
  <2>1. a <= Len(s) <=> a \in 1..Len(s)
    BY <1>1
  <2>2. In(t[a]) = (IF a <= Len(s) THEN In(s[a]) ELSE {}) \cup (IF a = h THEN {c} ELSE {})
    OBVIOUS
  <2> QED
    BY <2>1, <2>2
<1>6. \A a \in 1..Len(t) : \A d \in In(t[a]) \ {c} : a \in 1..Len(s) /\ d \in In(s[a])
  <2> SUFFICES ASSUME NEW a \in 1..Len(t), NEW d \in In(t[a]) \ {c}
               PROVE  a \in 1..Len(s) /\ d \in In(s[a])
    OBVIOUS
  <2> QED
    BY <1>5
<1>7. FormedInv'
  <2>1. \A m \in Nodes : \A a \in 1..Len(chain'[m]) : Formed(chain'[m][a])
    BY <1>2 DEF Inv, FormedInv
  <2> QED
    BY <2>1 DEF FormedInv, Formed, Full, AtEnd
<1>8. QueuedInv'
  <2>1. ASSUME NEW a \in 1..Len(t), NEW d \in In(t[a])
        PROVE  job'[d][n] = "queued"
    <3>1. CASE d = c
      <4>1. a = h
        BY <1>4, <1>5, <2>1, <3>1
      <4> QED
        BY <3>1, <4>1
    <3>2. CASE d # c
      <4>1. a \in 1..Len(s) /\ d \in In(s[a])
        BY <1>5, <2>1, <3>2
      <4>2. d \in Calls /\ job[d][n] = "queued"
        BY <1>3, <4>1
      <4> QED
        BY <3>2, <4>2
    <3> QED
      BY <3>1, <3>2
  <2>2. ASSUME NEW m \in Nodes, m # n, NEW a \in 1..Len(chain[m]), NEW d \in In(chain[m][a])
        PROVE  job'[d][m] = "queued"
    BY <1>3, <2>2
  <2>3. \A m \in Nodes : \A a \in 1..Len(chain'[m]) : \A d \in In(chain'[m][a]) :
           job'[d][m] = "queued"
    BY <1>2, <2>1, <2>2
  <2> QED
    BY <2>3 DEF QueuedInv, In
<1>9. ApartInv'
  <2>1. ASSUME NEW a \in 1..Len(t), NEW b \in 1..Len(t), a # b
        PROVE  In(t[a]) \cap In(t[b]) = {}
    <3> SUFFICES ASSUME NEW d, d \in In(t[a]), d \in In(t[b])
                 PROVE  FALSE
      OBVIOUS
    <3>1. CASE d = c
      <4>1. c \in In(t[a]) /\ c \in In(t[b])
        BY <3>1
      <4>2. (a \in 1..Len(s) /\ c \in In(s[a])) \/ a = h
        BY <1>5, <4>1, Zenon
      <4>3. (b \in 1..Len(s) /\ c \in In(s[b])) \/ b = h
        BY <1>5, <4>1, Zenon
      <4> QED
        BY <1>4, <2>1, <4>2, <4>3, Zenon
    <3>2. CASE d # c
      <4>1. a \in 1..Len(s) /\ d \in In(s[a])
        BY <1>6, <3>2
      <4>2. b \in 1..Len(s) /\ d \in In(s[b])
        BY <1>6, <3>2
      <4>3. a \in 1..Len(s) /\ b \in 1..Len(s) => In(s[a]) \cap In(s[b]) = {}
        BY <2>1 DEF Inv, ApartInv
      <4> QED
        BY <3>2, <4>1, <4>2, <4>3
    <3> QED
      BY <3>1, <3>2
  <2>2. \A m \in Nodes : m # n => \A a, b \in 1..Len(chain[m]) :
           a # b => In(chain[m][a]) \cap In(chain[m][b]) = {}
    BY DEF Inv, ApartInv
  <2>3. \A m \in Nodes : \A a, b \in 1..Len(chain'[m]) :
           a # b => In(chain'[m][a]) \cap In(chain'[m][b]) = {}
    BY <1>2, <2>1, <2>2, ZenonT(30)
  <2> QED
    BY <2>3 DEF ApartInv, In
<1>10. HeldInv'
  <2>1. ASSUME NEW d \in Calls, job'[d][n] = "queued"
        PROVE  \E a \in 1..Len(t) : d \in In(t[a])
    <3>1. CASE d = c
      <4>1. h \in 1..Len(t) /\ c \in In(t[h])
        BY <1>5, <2>1, <3>1
      <4> QED
        BY <3>1, <4>1
    <3>2. CASE d # c
      <4>1. job[d][n] = "queued"
        BY <2>1, <3>2
      <4>2. PICK a \in 1..Len(s) : d \in In(s[a])
        BY <4>1 DEF Inv, HeldInv
      <4>3. a \in 1..Len(t)
        BY <1>1
      <4> QED
        BY <1>5, <4>2, <4>3
    <3> QED
      BY <3>1, <3>2
  <2>2. ASSUME NEW m \in Nodes, m # n, NEW d \in Calls, job'[d][m] = "queued"
        PROVE  \E a \in 1..Len(chain[m]) : d \in In(chain[m][a])
    <3>1. job[d][m] = "queued"
      BY <2>2
    <3> QED
      BY <3>1 DEF Inv, HeldInv
  <2>3. \A m \in Nodes : \A d \in Calls : job'[d][m] = "queued" =>
           \E a \in 1..Len(chain'[m]) : d \in In(chain'[m][a])
    BY <1>2, <2>1, <2>2
  <2> QED
    BY <2>3 DEF HeldInv, In
<1>11. TurnInv'
  <2>1. ~stopping' => \A m \in Nodes : \A a \in 1..Len(chain'[m]), b \in 1..Len(chain'[m]) :
           b < a /\ chain'[m][a].pc # "waiting" => chain'[m][b].pc = "gone"
    BY <1>2 DEF Inv, TurnInv
  <2>2. closed' => stopping'
    BY DEF Inv, TurnInv
  <2> QED
    BY <2>1, <2>2 DEF TurnInv
<1>12. LengthInv'
  BY <1>2 DEF Inv, LengthInv
<1> QED
  BY <1>7, <1>8, <1>9, <1>10, <1>11, <1>12 DEF Inv

LEMMA PushProperties ==
  ASSUME NEW w \in WorkerRecord, Formed(w), ~w.done, w.pc # "gone", NEW c \in Calls, c \notin In(w)
  PROVE  /\ Push(w, c) \in WorkerRecord /\ Formed(Push(w, c))
         /\ In(Push(w, c)) = In(w) \cup {c} /\ Push(w, c).pc = w.pc
<1> DEFINE more == w.count + Size[c]
           full == Full(more)
           queue == Append(w.queue, c)
           v == [w EXCEPT !.count = more, !.done = full, !.queue = queue]
<1>1. /\ w.jobs \in Seq(Calls) /\ w.queue \in Seq(Calls) /\ w.count \in Nat
      /\ w.waits \in BOOLEAN
  BY DEF WorkerRecord
<1>2. Size[c] \in Nat \ {0} /\ MaxPiecesPerBatch \in Nat \ {0}
  BY DeletionAssumption
<1>3. more \in Nat /\ full \in BOOLEAN /\ full = (more >= MaxPiecesPerBatch)
  BY <1>1, <1>2 DEF Full
<1>4. w.count < MaxPiecesPerBatch
  <2>1. ~Full(w.count)
    BY DEF Formed
  <2> QED
    BY <1>1, <1>2, <2>1 DEF Full
<1>5. more < MaxPiecesPerBatch + Size[c]
  BY <1>1, <1>2, <1>4
<1>6. /\ queue \in Seq(Calls) /\ ToSet(queue) = ToSet(w.queue) \cup {c} /\ IsInjective(queue)
  <2>1. IsInjective(w.queue) /\ c \notin ToSet(w.queue)
    BY DEF Formed, In
  <2>2. queue \in Seq(Calls)
    BY <1>1, AppendProperties
  <2> QED
    BY <1>1, <2>1, <2>2, SetOfAppend, InjectiveAppend
<1>7. Push(w, c) = v
  BY DEF Push
<1> HIDE DEF more, full, queue
<1>8. v \in WorkerRecord
  BY <1>3, <1>6 DEF WorkerRecord
<1>9. /\ v.pc = w.pc /\ v.jobs = w.jobs /\ v.queue = queue /\ v.count = more /\ v.done = full
  BY DEF WorkerRecord
<1> HIDE DEF v
<1>10. w.pc \notin AtEnd
  BY DEF Formed
<1>11. ToSet(w.jobs) \cap ToSet(queue) = {}
  BY <1>6 DEF Formed, In
<1>12. ~full => ~Full(more)
  BY <1>3 DEF Full
<1>13. Formed(v)
  <2>1. v.count = 0 \/ \E d \in Calls : v.count < MaxPiecesPerBatch + Size[d]
    BY <1>5, <1>9
  <2>2. ~v.done => ~Full(v.count)
    BY <1>9, <1>12, Zenon
  <2>3. v.jobs # <<>> <=> v.pc = "sending"
    BY <1>9 DEF Formed
  <2>4. IsInjective(v.jobs) /\ IsInjective(v.queue) /\ ToSet(v.jobs) \cap ToSet(v.queue) = {}
    BY <1>6, <1>9, <1>11 DEF Formed
  <2>5. v.pc \notin AtEnd
    BY <1>9, <1>10
  <2> QED
    BY <2>1, <2>2, <2>3, <2>4, <2>5, Zenon DEF Formed
<1>14. In(v) = In(w) \cup {c}
  BY <1>6, <1>9 DEF In
<1> QED
  BY <1>7, <1>8, <1>9, <1>13, <1>14

LEMMA NewWorkers ==
  ASSUME NEW waits \in BOOLEAN
  PROVE  /\ NewWorker(waits) \in WorkerRecord /\ Formed(NewWorker(waits))
         /\ In(NewWorker(waits)) = {} /\ NewWorker(waits).pc = "waiting"
         /\ ~NewWorker(waits).done
         /\ Unstarted \in WorkerRecord /\ Formed(Unstarted) /\ In(Unstarted) = {}
         /\ Unstarted.pc = "unstarted"
<1>1. <<>> \in Seq(Calls)
  BY EmptySeq
<1>2. NewWorker(waits) \in WorkerRecord
  BY <1>1 DEF NewWorker, WorkerRecord
<1>3. /\ NewWorker(waits).pc = "waiting" /\ NewWorker(waits).queue = <<>>
      /\ NewWorker(waits).jobs = <<>> /\ NewWorker(waits).count = 0
      /\ NewWorker(waits).done = FALSE
  BY DEF NewWorker
<1>4. NewWorker(TRUE) \in WorkerRecord /\ Unstarted = [NewWorker(TRUE) EXCEPT !.pc = "unstarted", !.done = TRUE]
  BY <1>1 DEF NewWorker, WorkerRecord, Unstarted
<1>5. Unstarted \in WorkerRecord
  BY <1>4 DEF WorkerRecord
<1>6. /\ Unstarted.pc = "unstarted" /\ Unstarted.queue = <<>> /\ Unstarted.jobs = <<>>
      /\ Unstarted.count = 0 /\ Unstarted.done = TRUE
  <2>1. /\ NewWorker(TRUE).queue = <<>> /\ NewWorker(TRUE).jobs = <<>>
        /\ NewWorker(TRUE).count = 0
    BY DEF NewWorker
  <2> QED
    BY <1>4, <2>1 DEF WorkerRecord
<1>7. ~Full(0)
  <2>1. MaxPiecesPerBatch \in Nat \ {0}
    BY DeletionAssumption
  <2> QED
    BY <2>1 DEF Full
<1>8. Formed(NewWorker(waits))
  BY <1>3, <1>7, SetOfEmpty DEF Formed, AtEnd
<1>9. Formed(Unstarted)
  BY <1>6, SetOfEmpty DEF Formed, AtEnd
<1>10. In(NewWorker(waits)) = {} /\ In(Unstarted) = {}
  BY <1>3, <1>6, SetOfEmpty DEF In
<1> QED
  BY <1>2, <1>3, <1>5, <1>6, <1>8, <1>9, <1>10

LEMMA EnqueueStep ==
  ASSUME Inv, NEW c \in Calls, NEW n \in Nodes, Enqueue(c, n)
  PROVE  Inv'
<1> DEFINE s == chain[n]
           l == Len(chain[n])
<1>1. /\ chain \in [Nodes -> Seq(WorkerRecord)] /\ s \in Seq(WorkerRecord) /\ l \in Nat
      /\ job \in [Calls -> [Nodes -> {"none", "new", "queued", "success", "failure"}]]
  <2>1. chain \in [Nodes -> Seq(WorkerRecord)]
    BY DEF Inv, Types
  <2> QED
    BY <2>1, LenProperties DEF Inv, Types
<1>2. /\ job[c][n] = "new" /\ UNCHANGED <<failed, stopping, closed, twice>>
      /\ MaxWorkers \in Nat \ {0}
  BY DeletionAssumption DEF Enqueue
<1>3. call' \in [Calls -> {"idle", "acquiring", "enqueuing", "waiting"}]
  <2>1. call \in [Calls -> {"idle", "acquiring", "enqueuing", "waiting"}]
    BY DEF Inv, Types
  <2>2. \/ call' = [call EXCEPT ![c] = call[c]] \/ call' = [call EXCEPT ![c] = "waiting"]
    BY <2>1 DEF Enqueue
  <2> QED
    BY <2>1, <2>2
<1>4. \A a \in 1..l :
         /\ s[a] \in WorkerRecord /\ Formed(s[a]) /\ c \notin In(s[a])
         /\ s[a].pc = "unstarted" => s[a].done
  <2> SUFFICES ASSUME NEW a \in 1..l
               PROVE  /\ s[a] \in WorkerRecord /\ Formed(s[a]) /\ c \notin In(s[a])
                      /\ s[a].pc = "unstarted" => s[a].done
    OBVIOUS
  <2>1. s[a] \in WorkerRecord /\ Formed(s[a])
    BY WorkerIn
  <2>2. c \notin In(s[a])
    BY <1>2 DEF Inv, QueuedInv
  <2>3. s[a].pc = "unstarted" => s[a].done
    BY <2>1 DEF Formed, AtEnd
  <2> QED
    BY <2>1, <2>2, <2>3
<1>5. /\ stopping \/ \A a, b \in 1..l : b < a /\ s[a].pc # "waiting" => s[b].pc = "gone"
      /\ l <= MaxWorkers \/ (l = MaxWorkers + 1 /\ s[MaxWorkers + 1].pc = "unstarted")
      /\ closed => stopping
  <2>1. stopping \/ \A a, b \in 1..l : b < a /\ s[a].pc # "waiting" => s[b].pc = "gone"
    BY DEF Inv, TurnInv
  <2>2. l <= MaxWorkers \/ (l = MaxWorkers + 1 /\ s[MaxWorkers + 1].pc = "unstarted")
    BY DEF Inv, LengthInv
  <2>3. closed => stopping
    BY DEF Inv, TurnInv
  <2> QED
    BY <2>1, <2>2, <2>3
<1>6. s # <<>> <=> l > 0
  BY <1>1, EmptySeq
<1>7. s # <<>> => LastOf(n) = s[l] /\ l \in 1..l
  BY <1>1, <1>6 DEF LastOf, Last
\* The job as it is then, whatever becomes of the chain.
<1>8. ASSUME NEW r \in {"queued", "failure"}, job' = [job EXCEPT ![c][n] = r],
             NEW t \in Seq(WorkerRecord), chain' = [chain EXCEPT ![n] = t]
      PROVE  /\ Types' /\ job'[c][n] = r
             /\ \A d \in Calls, m \in Nodes : d # c \/ m # n => job'[d][m] = job[d][m]
  <2>1. job' \in [Calls -> [Nodes -> {"none", "new", "queued", "success", "failure"}]]
    BY <1>1, <1>8
  <2>2. chain' \in [Nodes -> Seq(WorkerRecord)]
    BY <1>1, <1>8
  <2>3. failed' \subseteq Nodes /\ stopping' \in BOOLEAN /\ closed' \in BOOLEAN
    BY <1>2 DEF Inv, Types
  <2>4. Types'
    BY <1>3, <2>1, <2>2, <2>3 DEF Types, WorkerRecord, InHandler
  <2> QED
    BY <1>1, <1>8, <2>4
<1>9. CASE s # <<>> /\ Accepts(LastOf(n))
  <2> DEFINE v == Push(s[l], c)
             t == [s EXCEPT ![l] = v]
  <2>1. l \in 1..l /\ ~s[l].done
    BY <1>7, <1>9 DEF Accepts
  <2>2. chain' = [chain EXCEPT ![n] = t] /\ job' = [job EXCEPT ![c][n] = "queued"]
    <3>1. chain' = [chain EXCEPT ![n][Len(chain[n])] = Push(@, c)]
      BY <1>9 DEF Enqueue
    <3>2. job' = [job EXCEPT ![c][n] = "queued"]
      BY <1>9 DEF Enqueue
    <3> QED
      BY <1>1, <2>1, <3>1, <3>2
  <2>3. s[l].pc # "gone"
    BY <1>4, <2>1 DEF Formed, AtEnd
  <2>4. /\ v \in WorkerRecord /\ Formed(v) /\ In(v) = In(s[l]) \cup {c} /\ v.pc = s[l].pc
    BY <1>4, <2>1, <2>3, PushProperties
  <2> HIDE DEF v
  <2>5. /\ t \in Seq(WorkerRecord) /\ Len(t) = l
        /\ \A a \in 1..l : t[a] = IF a = l THEN v ELSE s[a]
    BY <1>1, <2>1, <2>4, ExceptSeq
  <2> HIDE DEF t
  <2>6. \A a \in 1..Len(t) : Formed(t[a]) /\ t[a].pc = s[a].pc
    BY <1>4, <2>4, <2>5
  <2>7. \A a \in 1..Len(t) : In(t[a]) = (IF a <= Len(chain[n]) THEN In(chain[n][a]) ELSE {})
                                             \cup (IF a = l THEN {c} ELSE {})
    <3> SUFFICES ASSUME NEW a \in 1..l
                 PROVE  In(t[a]) = (IF a <= l THEN In(s[a]) ELSE {})
                                       \cup (IF a = l THEN {c} ELSE {})
      BY <2>5
    <3>1. a <= l
      BY <1>1
    <3> QED
      BY <2>4, <2>5, <3>1
  <2>8. \/ stopping
        \/ \A a \in 1..Len(t), b \in 1..Len(t) :
              b < a /\ t[a].pc # "waiting" => t[b].pc = "gone"
    BY <1>5, <2>5, <2>6
  <2>9. Len(t) <= MaxWorkers
    <3>1. ~(l = MaxWorkers + 1 /\ s[MaxWorkers + 1].pc = "unstarted")
      BY <1>4, <2>1
    <3> QED
      BY <1>5, <2>5, <3>1
  <2>10. l \in Nat /\ l \in 1..Len(t) /\ l # 0 /\ Len(chain[n]) <= Len(t)
    BY <1>1, <2>1, <2>5
  <2>11. /\ Types' /\ job'[c][n] = "queued"
         /\ \A d \in Calls, m \in Nodes : d # c \/ m # n => job'[d][m] = job[d][m]
    BY <1>8, <2>2, <2>5
  <2>12. \A a \in 1..Len(t) : Formed(t[a])
    BY <2>6
  <2> HIDE DEF l
  <2> QED
    BY <1>2, <2>2, <2>5, <2>7, <2>8, <2>9, <2>10, <2>11, <2>12, AddStep, ZenonT(30)
\* A worker v that is last in the chain, with the job or without.
<1>10. ASSUME NEW v \in WorkerRecord, Formed(v), NEW r \in {"queued", "failure"},
              In(v) = IF r = "queued" THEN {c} ELSE {},
              job' = [job EXCEPT ![c][n] = r], chain' = [chain EXCEPT ![n] = Append(s, v)],
              stopping \/ v.pc = "waiting",
              l < MaxWorkers \/ (l = MaxWorkers /\ v.pc = "unstarted")
       PROVE  Inv'
  <2> DEFINE t == Append(s, v)
             h == IF r = "queued" THEN l + 1 ELSE 0
  <2>1. /\ t \in Seq(WorkerRecord) /\ Len(t) = l + 1 /\ t[l + 1] = v
        /\ \A a \in 1..l : t[a] = s[a]
    BY <1>1, AppendProperties
  <2>2. chain' = [chain EXCEPT ![n] = t]
    BY <1>10
  <2> HIDE DEF t
  <2>3. \A a \in 1..Len(t) : a \in 1..l \/ (a = l + 1 /\ ~(a <= l))
    <3>1. PICK k \in Nat : k = l
      BY <1>1
    <3>2. \A a \in 1..(k + 1) : a \in 1..k \/ (a = k + 1 /\ ~(a <= k))
      OBVIOUS
    <3> QED
      BY <2>1, <3>1, <3>2
  <2>4. \A a \in 1..Len(t) : Formed(t[a])
    BY <1>4, <1>10, <2>1, <2>3
  <2>5. h \in Nat /\ (h # 0 <=> h \in 1..Len(t)) /\ (r = "queued" <=> h \in 1..Len(t))
    BY <1>1, <2>1
  <2>6. \A a \in 1..Len(t) : In(t[a]) = (IF a <= Len(chain[n]) THEN In(chain[n][a]) ELSE {})
                                             \cup (IF a = h THEN {c} ELSE {})
    <3> SUFFICES ASSUME NEW a \in 1..Len(t)
                 PROVE  In(t[a]) = (IF a <= l THEN In(s[a]) ELSE {})
                                       \cup (IF a = h THEN {c} ELSE {})
      OBVIOUS
    <3>1. CASE a \in 1..l
      <4>1. a <= l /\ a # h
        BY <1>1, <3>1
      <4> QED
        BY <2>1, <3>1, <4>1
    <3>2. CASE a = l + 1 /\ ~(a <= l)
      <4>1. a = h <=> r = "queued"
        BY <1>1, <3>2
      <4> QED
        BY <1>10, <2>1, <3>2, <4>1
    <3> QED
      BY <2>3, <3>1, <3>2
  <2>7. \/ stopping
        \/ \A a \in 1..Len(t), b \in 1..Len(t) :
              b < a /\ t[a].pc # "waiting" => t[b].pc = "gone"
    <3> SUFFICES ASSUME ~stopping, NEW a \in 1..Len(t), NEW b \in 1..Len(t),
                        b < a, t[a].pc # "waiting"
                 PROVE  t[b].pc = "gone"
      OBVIOUS
    <3>1. a \in 1..l
      BY <1>10, <2>1, <2>3
    <3>2. b \in 1..l
      BY <1>1, <2>1, <3>1
    <3> QED
      BY <1>5, <2>1, <3>1, <3>2
  <2>8. \/ Len(t) <= MaxWorkers
        \/ Len(t) = MaxWorkers + 1 /\ t[MaxWorkers + 1].pc = "unstarted"
    BY <1>1, <1>2, <1>10, <2>1
  <2>9. Len(chain[n]) <= Len(t)
    BY <1>1, <2>1
  <2>10. /\ Types' /\ job'[c][n] = r
         /\ \A d \in Calls, m \in Nodes : d # c \/ m # n => job'[d][m] = job[d][m]
    BY <1>8, <1>10, <2>1, <2>2
  <2>11. job'[c][n] = "queued" <=> h \in 1..Len(t)
    BY <2>5, <2>10
  <2> HIDE DEF h, l
  <2> QED
    BY <1>2, <2>1, <2>2, <2>4, <2>5, <2>6, <2>7, <2>8, <2>9, <2>10, <2>11, AddStep
<1>11. CASE ~(s # <<>> /\ Accepts(LastOf(n))) /\ ~closed
  <2>1. PICK waits \in BOOLEAN : waits <=> s # <<>>
    OBVIOUS
  <2> DEFINE v == Push(NewWorker(waits), c)
  <2>2. /\ l < MaxWorkers /\ chain' = [chain EXCEPT ![n] = Append(s, v)]
        /\ job' = [job EXCEPT ![c][n] = "queued"]
    <3>1. /\ Len(chain[n]) < MaxWorkers
          /\ chain' = [chain EXCEPT ![n] = Append(@, Push(NewWorker(@ # <<>>), c))]
          /\ job' = [job EXCEPT ![c][n] = "queued"]
      BY <1>11 DEF Enqueue
    <3>2. waits = (s # <<>>)
      BY <2>1
    <3> QED
      BY <1>1, <3>1, <3>2
  <2>3. /\ NewWorker(waits) \in WorkerRecord /\ Formed(NewWorker(waits))
        /\ In(NewWorker(waits)) = {} /\ NewWorker(waits).pc = "waiting"
        /\ ~NewWorker(waits).done
    BY NewWorkers
  <2>4. /\ v \in WorkerRecord /\ Formed(v) /\ In(v) = {c} /\ v.pc = "waiting"
    BY <2>3, PushProperties
  <2> HIDE DEF v, l
  <2> QED
    BY <1>10, <2>2, <2>4
<1>12. CASE ~(s # <<>> /\ Accepts(LastOf(n))) /\ closed
  <2>1. job' = [job EXCEPT ![c][n] = "failure"] /\ stopping
    BY <1>5, <1>12 DEF Enqueue
  <2>2. /\ Unstarted \in WorkerRecord /\ Formed(Unstarted) /\ In(Unstarted) = {}
        /\ Unstarted.pc = "unstarted"
    BY NewWorkers
  <2>3. chain' = [chain EXCEPT ![n] = IF s # <<>> /\ LastOf(n).pc = "unstarted" THEN s
                                      ELSE Append(s, Unstarted)]
    <3>1. chain' = [chain EXCEPT ![n] =
                      IF @ # <<>> /\ LastOf(n).pc = "unstarted" THEN @ ELSE Append(@, Unstarted)]
      BY <1>12 DEF Enqueue
    <3> QED
      BY <1>1, <3>1
  <2>4. CASE s # <<>> /\ LastOf(n).pc = "unstarted"
    <3>1. chain' = [chain EXCEPT ![n] = s]
      BY <2>3, <2>4
    <3>2. /\ Types' /\ job'[c][n] = "failure"
          /\ \A d \in Calls, m \in Nodes : d # c \/ m # n => job'[d][m] = job[d][m]
      BY <1>1, <1>8, <2>1, <3>1
    <3>3. chain' = chain
      BY <1>1, <3>1
    <3>4. \A d \in Calls, m \in Nodes : job'[d][m] = "queued" <=> job[d][m] = "queued"
      BY <1>2, <3>2
    <3> QED
      BY <1>2, <1>5, <3>2, <3>3, <3>4, QuietStep
  <2>5. CASE ~(s # <<>> /\ LastOf(n).pc = "unstarted")
    <3>1. chain' = [chain EXCEPT ![n] = Append(s, Unstarted)]
      BY <2>3, <2>5
    <3>2. l <= MaxWorkers
      <4>1. ~(l = MaxWorkers + 1 /\ s[MaxWorkers + 1].pc = "unstarted")
        BY <1>2, <1>6, <1>7, <2>5
      <4> QED
        BY <1>5, <4>1
    <3>3. l < MaxWorkers \/ l = MaxWorkers
      BY <1>1, <1>2, <3>2
    <3> HIDE DEF l
    <3> QED
      BY <1>10, <2>1, <2>2, <3>1, <3>3
  <2> QED
    BY <2>4, <2>5
<1> QED
  BY <1>9, <1>11, <1>12

-----------------------------------------------------------------------------

LEMMA InvNext == Inv /\ [Next]_vars => Inv'
<1> SUFFICES ASSUME Inv, [Next]_vars PROVE Inv'
  OBVIOUS
<1>1. CASE UNCHANGED vars
  BY <1>1, UnchangedStep
<1>2. ASSUME NEW c \in Calls, NEW N \in Requests[c], Begin(c, N)
      PROVE  Inv'
  BY <1>2, BeginStep
<1>3. ASSUME NEW c \in Calls, Acquire(c) \/ Return(c)
      PROVE  Inv'
  BY <1>3, AcquireStep, ReturnStep
<1>4. ASSUME NEW c \in Calls, NEW n \in Nodes, Enqueue(c, n)
      PROVE  Inv'
  BY <1>4, EnqueueStep
<1>5. ASSUME NEW n \in Nodes, NEW i \in 1..Len(chain[n]), Worker(n, i) \/ AcquireSlot(n, i)
      PROVE  Inv'
  BY <1>5, StartStep, AcquireSlotStep, DialStep, PopStep, SucceedStep, FailStep, PendingStep
     DEF Worker, Request
<1>6. CASE (\E n \in Nodes : FailThresholdPasses(n)) \/ Cancel \/ CloseWorkers
  BY <1>6, OtherStep
<1> QED
  BY <1>1, <1>2, <1>3, <1>4, <1>5, <1>6 DEF Next

LEMMA InvAlways == Spec => []Inv
  BY InvInit, InvNext, PTL DEF Spec

\* TypeOK: no chain is longer than the bound and the worker that could not be
\* started, and no queue takes more than one job beyond its limit.
THEOREM TypeCorrect == Spec => []TypeOK
<1>1. Inv => TypeOK
  <2> SUFFICES ASSUME Inv PROVE TypeOK
    OBVIOUS
  <2>1. \A n \in Nodes : Len(chain[n]) <= MaxWorkers + 1
    <3> SUFFICES ASSUME NEW n \in Nodes PROVE Len(chain[n]) <= MaxWorkers + 1
      OBVIOUS
    <3>1. Len(chain[n]) \in Nat /\ MaxWorkers \in Nat
      <4>1. chain[n] \in Seq(WorkerRecord)
        BY DEF Inv, Types
      <4> QED
        BY <4>1, LenProperties, DeletionAssumption
    <3> QED
      BY <3>1 DEF Inv, LengthInv
  <2>2. \A n \in Nodes : \A i \in 1..Len(chain[n]) :
           chain[n][i].count = 0 \/ \E c \in Calls : chain[n][i].count < MaxPiecesPerBatch + Size[c]
    BY DEF Inv, FormedInv, Formed
  <2>3. twice \in BOOLEAN
    BY DEF Inv
  <2> QED
    BY <2>1, <2>2, <2>3 DEF Inv, Types, TypeOK
<1> QED
  BY <1>1, InvAlways, PTL

\* JobsResolvedOnce: whatever fails and whenever the satellite stops, no promise is
\* resolved twice, and a job is never left in a queue nobody will look at.
THEOREM ResolvedCorrect == Spec => []JobsResolvedOnce
<1>1. Inv => JobsResolvedOnce
  <2> SUFFICES ASSUME Inv PROVE JobsResolvedOnce
    OBVIOUS
  <2>1. ResolvedOnce
    BY DEF Inv, ResolvedOnce
  <2>2. NoJobLost
    <3> SUFFICES ASSUME NEW c \in Calls, NEW n \in Nodes, job[c][n] = "queued"
                 PROVE  \E i \in 1..Len(chain[n]) :
                           /\ chain[n][i].pc \notin {"gone", "unstarted"}
                           /\ c \in ToSet(chain[n][i].queue) \cup ToSet(chain[n][i].jobs)
      BY DEF NoJobLost
    <3>1. PICK i \in 1..Len(chain[n]) : c \in In(chain[n][i])
      BY DEF Inv, HeldInv
    <3>2. chain[n][i].pc \notin AtEnd
      BY <3>1, WorkerIn, EndHasNothing
    <3> QED
      BY <3>1, <3>2 DEF In, AtEnd
  <2> QED
    BY <2>1, <2>2 DEF JobsResolvedOnce
<1> QED
  BY <1>1, InvAlways, PTL

\* OneHandlerPerNode: until the satellite stops, at most one worker of a node asks
\* for a slot of the limited handler or has one.
THEOREM TurnsCorrect == Spec => []OneHandlerPerNode
<1>1. Inv => OneHandlerPerNode
  <2> SUFFICES ASSUME Inv, ~stopping, NEW n \in Nodes
               PROVE  Cardinality({i \in 1..Len(chain[n]) :
                                     chain[n][i].pc \in InHandler \cup {"acquiring"}}) <= 1
    BY DEF OneHandlerPerNode
  <2> DEFINE H == {i \in 1..Len(chain[n]) : chain[n][i].pc \in InHandler \cup {"acquiring"}}
  <2>1. Len(chain[n]) \in Nat
    <3>1. chain[n] \in Seq(WorkerRecord)
      BY DEF Inv, Types
    <3> QED
      BY <3>1, LenProperties
  <2>2. \A i, j \in H : ~(j < i)
    BY DEF Inv, TurnInv, InHandler
  <2>3. \A i, j \in H : i = j
    BY <2>1, <2>2
  <2>4. Cardinality(H) <= 1
    <3> HIDE DEF H
    <3>1. CASE H = {}
      BY <3>1, FS_EmptySet
    <3>2. CASE H # {}
      <4>1. PICK i \in H : TRUE
        BY <3>2
      <4>2. H = {i}
        BY <2>3, <4>1
      <4>3. Cardinality({i}) = 1
        BY FS_Singleton
      <4> QED
        BY <4>2, <4>3
    <3> QED
      BY <3>1, <3>2
  <2> QED
    BY <2>4
<1> QED
  BY <1>1, InvAlways, PTL
=============================================================================
