------------------------- MODULE ContainmentProofs -------------------------
(***************************************************************************)
(* The lease of a job, and that a job is counted once, for any number of   *)
(* pieces, nodes, audits and workers.  Whoever holds a job took it after   *)
(* his deadline was set, so the job is younger than his context and is not *)
(* due while that lasts.  A worker that is late has met its excuse when    *)
(* its deadline passed, and a job that is counted is in the hands of the   *)
(* worker that goes on to remove it.                                       *)
(***************************************************************************)
EXTENDS Containment, SequenceTheorems, TLAPS

Jobs == [piece : Pieces, age : 0 .. OldestAge, count : 0 .. MaxReverifyCount]

\* One job of a piece.
IsQueue(q) ==
    /\ q \in Seq(Jobs)
    /\ \A i, j \in DOMAIN q : q[i].piece = q[j].piece => i = j

Rec == [pc : Steps \union {"idle", "pull", "wait", "drain"},
        age : 0 .. RetryInterval, piece : Pieces \union {None},
        count : 0 .. MaxReverifyCount, outcome : Outcomes \union {None},
        tries : 0 .. MaxRetries]

ProcRec == {r \in Rec : /\ r.pc \in Steps \union {"idle"}
                        /\ r.pc # "idle" => r.piece \in Pieces}

PullerRec == {r \in Rec : /\ r.pc \in {"idle", "pull", "wait", "drain"}
                          /\ r.pc = "wait" => r.piece \in Pieces}

TypeInv ==
    /\ faults \in 0 .. MaxFaults
    /\ IsQueue(queue)
    /\ contained \subseteq Nodes
    /\ puller \in PullerRec
    /\ proc \in [Procs -> ProcRec]
    /\ sync \in [pc : {"idle", "set"}, nodes : SUBSET Nodes]
    /\ counted \in [Pieces -> 0 .. 2]
    /\ excused \subseteq Pieces

\* The job was taken after the deadline was set.
Lease(r) ==
    \E i \in DOMAIN queue : queue[i].piece = r.piece /\ queue[i].age <= r.age

LeaseInv ==
    /\ Holds(puller) => Lease(puller)
    /\ \A w \in Workers : Holds(proc[w]) => Lease(proc[w])

\* Whoever is late is known to be.
LateInv ==
    \A w \in Workers :
       (/\ proc[w].pc \in Busy /\ Expired(proc[w])
        /\ Queued(proc[w].piece) /\ proc[w].piece \in Followed)
          => proc[w].piece \in excused

CountInv ==
    \A p \in Pieces : counted[p] # 0 => Queued(p) /\ p \in Followed

\* The worker w has counted the verdict of the job of piece p, in time.
Removing(w, p) ==
    proc[w].pc = "delete" /\ ~Expired(proc[w]) /\ proc[w].piece = p

RemovingInv ==
    \A p \in Pieces :
       p \notin excused /\ counted[p] # 0
          => counted[p] = 1 /\ \E w \in Workers : Removing(w, p)

Inv == TypeInv /\ LeaseInv /\ OneHolder /\ LateInv /\ CountInv /\ RemovingInv
-----------------------------------------------------------------------------
\* The constants and the records.

LEMMA Constants ==
  /\ RetryInterval \in Nat /\ RetryInterval > 0 /\ OldestAge = RetryInterval + 1
  /\ MaxReverifyCount \in Nat /\ MaxRetries \in Nat /\ MaxFaults \in Nat
  /\ Followed \subseteq Pieces /\ None \notin Pieces
  /\ \A x \in Auditors : x \notin Workers
  BY ContainmentAssumption DEF OldestAge

LEMMA IdleRec ==
  /\ Idle \in ProcRec /\ Idle \in PullerRec
  /\ Idle.pc = "idle" /\ Idle.age = 0
  /\ StartTimer \in PullerRec /\ StartTimer.pc = "pull"
  /\ StartTimer.age = 0
  /\ [Idle EXCEPT !.pc = "drain"] \in PullerRec
  /\ [Idle EXCEPT !.pc = "drain"].pc = "drain"
  BY Constants DEF Idle, ProcRec, PullerRec, Rec, StartTimer

LEMMA KeptRec ==
  ASSUME NEW r \in ProcRec, r.pc # "idle", NEW pc \in Steps
  PROVE  /\ Kept(r, pc) \in ProcRec /\ Kept(r, pc).pc = pc
         /\ Kept(r, pc).piece = r.piece /\ Kept(r, pc).age = r.age
<1>1. Kept(r, pc) = [pc |-> pc, age |-> r.age, piece |-> r.piece, count |-> 0,
                     outcome |-> None,
                     tries |-> IF pc = "flag" THEN r.tries ELSE 0]
  BY DEF Kept
<1>2. r \in Rec /\ r.piece \in Pieces /\ pc # "idle"
  BY DEF ProcRec, Steps, Busy
<1>3. (IF pc = "flag" THEN r.tries ELSE 0) \in 0 .. MaxRetries
  BY <1>2, Constants DEF Rec
<1>4. Kept(r, pc) \in Rec
  BY <1>1, <1>2, <1>3, Constants DEF Rec
<1> QED
  BY <1>1, <1>2, <1>4 DEF ProcRec

LEMMA AgainRec ==
  ASSUME NEW r \in ProcRec, r.pc # "idle", r.tries < MaxRetries, NEW pc \in Steps
  PROVE  /\ Again(r, pc) \in ProcRec /\ Again(r, pc).pc = pc
         /\ Again(r, pc).piece = r.piece /\ Again(r, pc).age = r.age
<1>1. r \in Rec /\ r.piece \in Pieces /\ r.tries \in 0 .. MaxRetries
  BY DEF ProcRec, Rec
<1>2. r.tries + 1 \in 0 .. MaxRetries
  BY <1>1, Constants
<1>3. PICK y : y = [r EXCEPT !.pc = pc]
  OBVIOUS
<1>4. y \in Rec /\ y.pc = pc /\ y.piece = r.piece /\ y.age = r.age
      /\ y.tries = r.tries
  BY <1>1, <1>3 DEF Rec
<1>5. Again(r, pc) = [y EXCEPT !.tries = r.tries + 1]
  BY <1>1, <1>3, <1>4 DEF Again, Rec
<1>6. Again(r, pc) \in Rec /\ Again(r, pc).pc = pc
      /\ Again(r, pc).piece = r.piece /\ Again(r, pc).age = r.age
  BY <1>2, <1>4, <1>5 DEF Rec
<1> QED
  BY <1>1, <1>6 DEF ProcRec

LEMMA AgedRec ==
  ASSUME NEW r \in Rec
  PROVE  /\ Aged(r) \in Rec /\ Aged(r).pc = r.pc /\ Aged(r).piece = r.piece
         /\ r.age <= Aged(r).age
         /\ Aged(r).age < RetryInterval /\ r.pc # "idle" => Aged(r).age = r.age + 1
<1>0. r.age \in 0 .. RetryInterval
  BY DEF Rec
<1>1. CASE r.pc = "idle" \/ ~(r.age < RetryInterval)
  BY <1>0, <1>1, Constants DEF Aged, Older
<1>2. CASE r.pc # "idle" /\ r.age < RetryInterval
  <2>1. Aged(r) = [r EXCEPT !.age = r.age + 1]
    BY <1>2 DEF Aged, Older
  <2>2. r.age + 1 \in 0 .. RetryInterval
    BY <1>0, <1>2, Constants
  <2> QED
    BY <1>0, <2>1, <2>2 DEF Rec
<1> QED
  BY <1>1, <1>2
-----------------------------------------------------------------------------
\* The queue.

LEMMA JobsType ==
  ASSUME NEW q, IsQueue(q)
  PROVE  /\ Len(q) \in Nat /\ DOMAIN q = 1 .. Len(q)
         /\ \A i \in DOMAIN q : q[i] \in Jobs /\ q[i].piece \in Pieces
                                /\ q[i].age \in Nat
<1>1. q \in Seq(Jobs)
  BY DEF IsQueue
<1>2. Len(q) \in Nat /\ DOMAIN q = 1 .. Len(q)
  BY <1>1, LenProperties
<1>3. ASSUME NEW i \in DOMAIN q
      PROVE  q[i] \in Jobs /\ q[i].piece \in Pieces /\ q[i].age \in Nat
  <2>1. q[i] \in Jobs
    BY <1>1, <1>2, <1>3, ElementOfSeq
  <2> QED
    BY <2>1, Constants DEF Jobs
<1> QED
  BY <1>2, <1>3

LEMMA FreshJob ==
  ASSUME NEW p \in Pieces
  PROVE  Job(p) \in Jobs /\ Job(p).piece = p
  BY Constants DEF Job, Jobs

LEMMA AppendJob ==
  ASSUME NEW q, IsQueue(q), NEW job \in Jobs,
         \A i \in DOMAIN q : q[i].piece # job.piece
  PROVE  /\ IsQueue(Append(q, job))
         /\ \A i \in DOMAIN q : i \in DOMAIN Append(q, job)
                                /\ Append(q, job)[i] = q[i]
         /\ \A i \in DOMAIN Append(q, job) :
               Append(q, job)[i] = job \/ (i \in DOMAIN q /\ Append(q, job)[i] = q[i])
<1>1. q \in Seq(Jobs) /\ Len(q) \in Nat /\ DOMAIN q = 1 .. Len(q)
  BY JobsType DEF IsQueue
<1>2. /\ Append(q, job) \in Seq(Jobs)
      /\ Len(Append(q, job)) = Len(q) + 1
      /\ \A i \in 1 .. Len(q) : Append(q, job)[i] = q[i]
      /\ Append(q, job)[Len(q) + 1] = job
  BY <1>1, AppendProperties
<1>3. DOMAIN Append(q, job) = 1 .. Len(q) + 1
  BY <1>2, LenProperties
<1>4. ASSUME NEW i \in DOMAIN Append(q, job)
      PROVE  \/ i = Len(q) + 1 /\ Append(q, job)[i] = job
             \/ i \in DOMAIN q /\ Append(q, job)[i] = q[i]
  BY <1>1, <1>2, <1>3
<1>5. ASSUME NEW i \in DOMAIN Append(q, job), NEW j \in DOMAIN Append(q, job),
             Append(q, job)[i].piece = Append(q, job)[j].piece
      PROVE  i = j
  BY <1>4, <1>5 DEF IsQueue
<1>6. IsQueue(Append(q, job))
  BY <1>2, <1>5 DEF IsQueue
<1> QED
  BY <1>1, <1>2, <1>3, <1>4, <1>6

LEMMA TakenJob ==
  ASSUME NEW job \in Jobs
  PROVE  Taken(job) \in Jobs /\ Taken(job).piece = job.piece /\ Taken(job).age = 0
         /\ Taken(job).count \in 0 .. MaxReverifyCount
<1>1. (IF job.count < MaxReverifyCount THEN job.count + 1 ELSE job.count)
         \in 0 .. MaxReverifyCount
  BY Constants DEF Jobs
<1> DEFINE c == IF job.count < MaxReverifyCount THEN job.count + 1 ELSE job.count
<1>3. Taken(job) = [[job EXCEPT !.age = 0] EXCEPT !.count = c]
  BY DEF Taken, Jobs
<1>4. c \in 0 .. MaxReverifyCount
  BY <1>1
<1> HIDE DEF c
<1>5. PICK y : y = [job EXCEPT !.age = 0]
  OBVIOUS
<1>6. y \in Jobs /\ y.piece = job.piece /\ y.age = 0
  BY <1>5, Constants DEF Jobs
<1>7. Taken(job) = [y EXCEPT !.count = c]
  BY <1>3, <1>5
<1> QED
  BY <1>4, <1>6, <1>7, Constants DEF Jobs

LEMMA TakeJob ==
  ASSUME NEW q, IsQueue(q), NEW i \in DOMAIN q
  PROVE  LET t == [q EXCEPT ![i] = Taken(q[i])] IN
         /\ IsQueue(t) /\ DOMAIN t = DOMAIN q
         /\ t[i].piece = q[i].piece /\ t[i].age = 0
         /\ \A j \in DOMAIN q : t[j].piece = q[j].piece
                                /\ (j # i => t[j] = q[j])
<1> DEFINE t == [q EXCEPT ![i] = Taken(q[i])]
<1>1. q \in Seq(Jobs) /\ DOMAIN q = 1 .. Len(q) /\ q[i] \in Jobs
  BY JobsType DEF IsQueue
<1>2. Taken(q[i]) \in Jobs /\ Taken(q[i]).piece = q[i].piece /\ Taken(q[i]).age = 0
  BY <1>1, TakenJob
<1>3. t \in Seq(Jobs)
  BY <1>1, <1>2, ExceptSeq
<1>4. DOMAIN t = DOMAIN q /\ t[i] = Taken(q[i])
      /\ \A j \in DOMAIN q : j # i => t[j] = q[j]
  BY <1>1
<1> HIDE DEF t
<1>5. \A j \in DOMAIN q : t[j].piece = q[j].piece
  BY <1>2, <1>4
<1>6. IsQueue(t)
  BY <1>3, <1>4, <1>5 DEF IsQueue
<1>7. t[i].piece = q[i].piece /\ t[i].age = 0
  BY <1>2, <1>4
<1> QED
  BY <1>4, <1>5, <1>6, <1>7 DEF t

LEMMA RemoveJobAt ==
  ASSUME NEW q, IsQueue(q), NEW i \in DOMAIN q
  PROVE  /\ IsQueue(RemoveAt(q, i))
         /\ \A j \in DOMAIN q : j # i =>
               \E k \in DOMAIN RemoveAt(q, i) : RemoveAt(q, i)[k] = q[j]
         /\ \A k \in DOMAIN RemoveAt(q, i) :
               \E j \in DOMAIN q : j # i /\ RemoveAt(q, i)[k] = q[j]
<1> DEFINE a == SubSeq(q, 1, i - 1)
           b == SubSeq(q, i + 1, Len(q))
           t == RemoveAt(q, i)
<1>1. Len(q) \in Nat /\ DOMAIN q = 1 .. Len(q) /\ i \in 1 .. Len(q)
      /\ \A j \in 1 .. Len(q) : q[j] \in Jobs
  BY JobsType
<1>2. a \in Seq(Jobs) /\ Len(a) = i - 1 /\ \A k \in 1 .. i - 1 : a[k] = q[k]
  <2>1. 1 \in Int /\ i - 1 \in Int /\ \A k \in 1 .. i - 1 : q[k] \in Jobs
    BY <1>1
  <2>2. /\ a \in Seq(Jobs)
        /\ Len(a) = IF 1 <= i - 1 THEN (i - 1) - 1 + 1 ELSE 0
        /\ \A k \in 1 .. (i - 1) - 1 + 1 : a[k] = q[1 + k - 1]
    BY <2>1, SubSeqProperties
  <2> HIDE DEF a
  <2>3. (i - 1) - 1 + 1 = i - 1 /\ (~(1 <= i - 1) => i - 1 = 0)
        /\ \A k \in 1 .. i - 1 : 1 + k - 1 = k
    BY <1>1
  <2> QED
    BY <2>2, <2>3
<1>3. b \in Seq(Jobs) /\ Len(b) = Len(q) - i
      /\ \A k \in 1 .. Len(q) - i : b[k] = q[i + k]
  <2>1. i + 1 \in Int /\ Len(q) \in Int /\ \A k \in i + 1 .. Len(q) : q[k] \in Jobs
    BY <1>1
  <2>2. /\ b \in Seq(Jobs)
        /\ Len(b) = IF i + 1 <= Len(q) THEN Len(q) - (i + 1) + 1 ELSE 0
        /\ \A k \in 1 .. Len(q) - (i + 1) + 1 : b[k] = q[(i + 1) + k - 1]
    BY <2>1, SubSeqProperties, SMTT(30)
  <2> HIDE DEF b
  <2>3. Len(q) - (i + 1) + 1 = Len(q) - i /\ (~(i + 1 <= Len(q)) => Len(q) - i = 0)
        /\ \A k \in 1 .. Len(q) - i : (i + 1) + k - 1 = i + k
    BY <1>1
  <2> QED
    BY <2>2, <2>3
<1>4. t = a \o b
  BY DEF RemoveAt
<1> HIDE DEF a, b, t
<1>5. /\ t \in Seq(Jobs) /\ Len(t) = Len(q) - 1
      /\ \A k \in 1 .. Len(q) - 1 : t[k] = IF k <= i - 1 THEN a[k] ELSE b[k - (i - 1)]
  <2>1. Len(a) + Len(b) = Len(q) - 1
    BY <1>1, <1>2, <1>3
  <2>2. /\ t \in Seq(Jobs) /\ Len(t) = Len(a) + Len(b)
        /\ \A k \in 1 .. Len(a) + Len(b) :
              t[k] = IF k <= Len(a) THEN a[k] ELSE b[k - Len(a)]
    <3>1. a \in Seq(Jobs) /\ b \in Seq(Jobs)
      BY <1>2, <1>3
    <3> QED
      BY <1>4, <3>1, ConcatProperties
  <2> QED
    BY <1>2, <2>1, <2>2
<1>6. DOMAIN t = 1 .. Len(q) - 1
  BY <1>5, LenProperties
<1>7. ASSUME NEW k \in 1 .. Len(q) - 1
      PROVE  t[k] = IF k < i THEN q[k] ELSE q[k + 1]
  <2>1. CASE k < i
    BY <1>1, <1>2, <1>5, <2>1
  <2>2. CASE ~(k < i)
    <3>1. k - (i - 1) \in 1 .. Len(q) - i /\ i + (k - (i - 1)) = k + 1 /\ ~(k <= i - 1)
      BY <1>1, <2>2
    <3> QED
      BY <1>3, <1>5, <2>2, <3>1
  <2> QED
    BY <2>1, <2>2
<1>8. \A j \in DOMAIN q : j # i => \E k \in DOMAIN t : t[k] = q[j]
  <2> SUFFICES ASSUME NEW j \in DOMAIN q, j # i
               PROVE  \E k \in DOMAIN t : t[k] = q[j]
    OBVIOUS
  <2>1. CASE j < i
    <3>1. j \in 1 .. Len(q) - 1
      BY <1>1, <2>1
    <3> QED
      BY <1>6, <1>7, <2>1, <3>1
  <2>2. CASE ~(j < i)
    <3>1. j - 1 \in 1 .. Len(q) - 1 /\ ~(j - 1 < i) /\ (j - 1) + 1 = j
      BY <1>1, <2>2
    <3> QED
      BY <1>6, <1>7, <3>1
  <2> QED
    BY <2>1, <2>2
<1>9. ASSUME NEW k \in DOMAIN t
      PROVE  \E j \in DOMAIN q : j # i /\ t[k] = q[j]
  <2>1. k \in 1 .. Len(q) - 1
    BY <1>6
  <2>2. CASE k < i
    BY <1>1, <1>7, <2>1, <2>2
  <2>3. CASE ~(k < i)
    <3>1. k + 1 \in 1 .. Len(q) /\ k + 1 # i
      BY <1>1, <2>1, <2>3
    <3> QED
      BY <1>1, <1>7, <2>1, <2>3, <3>1
  <2> QED
    BY <2>2, <2>3
<1>10. ASSUME NEW k \in DOMAIN t, NEW l \in DOMAIN t, t[k].piece = t[l].piece
       PROVE  k = l
  <2> DEFINE f(m) == IF m < i THEN m ELSE m + 1
  <2>1. k \in 1 .. Len(q) - 1 /\ l \in 1 .. Len(q) - 1
    BY <1>6, <1>10
  <2>2. f(k) \in DOMAIN q /\ f(l) \in DOMAIN q
    BY <1>1, <2>1
  <2>3. t[k] = q[f(k)] /\ t[l] = q[f(l)]
    BY <1>7, <2>1
  <2>4. f(k) = f(l)
    BY <1>10, <2>2, <2>3 DEF IsQueue
  <2> QED
    BY <1>1, <2>1, <2>4
<1> QED
  BY <1>5, <1>8, <1>9, <1>10 DEF IsQueue, t

LEMMA OlderJobs ==
  ASSUME NEW q, IsQueue(q)
  PROVE  LET t == [i \in DOMAIN q |-> Older(q[i], OldestAge)] IN
         /\ IsQueue(t) /\ DOMAIN t = DOMAIN q
         /\ \A i \in DOMAIN q : t[i].piece = q[i].piece /\ t[i].age \in Nat
                                /\ t[i].age <= q[i].age + 1
<1> DEFINE t == [i \in DOMAIN q |-> Older(q[i], OldestAge)]
<1>1. Len(q) \in Nat /\ DOMAIN q = 1 .. Len(q) /\ \A i \in DOMAIN q : q[i] \in Jobs
  BY JobsType
<1>2. ASSUME NEW i \in DOMAIN q
      PROVE  /\ t[i] \in Jobs /\ t[i].piece = q[i].piece /\ t[i].age \in Nat
             /\ t[i].age <= q[i].age + 1
  <2>1. q[i] \in Jobs /\ q[i].age \in 0 .. OldestAge
    BY <1>1 DEF Jobs
  <2>2. t[i] = IF q[i].age < OldestAge THEN [q[i] EXCEPT !.age = q[i].age + 1] ELSE q[i]
    BY DEF Older
  <2> HIDE DEF t
  <2>3. CASE q[i].age < OldestAge
    <3>1. q[i].age + 1 \in 0 .. OldestAge /\ q[i].age + 1 \in Nat
      BY <2>1, <2>3, Constants
    <3> QED
      BY <2>1, <2>2, <2>3, <3>1 DEF Jobs
  <2>4. CASE ~(q[i].age < OldestAge)
    BY <2>1, <2>2, <2>4, Constants
  <2> QED
    BY <2>3, <2>4
<1>3. DOMAIN t = DOMAIN q
  OBVIOUS
<1>4. t \in Seq(Jobs)
  BY <1>1, <1>2
<1> HIDE DEF t
<1>5. IsQueue(t)
  BY <1>2, <1>3, <1>4 DEF IsQueue
<1> QED
  BY <1>2, <1>3, <1>5 DEF t
-----------------------------------------------------------------------------
\* A step of one process that leaves the queue alone.  A worker that is busy
\* after it was busy before, with the same job under the same context.

SameJob(x, r) ==
    x \in Workers /\ r.pc \in Busy =>
       /\ proc[x].pc \in Busy
       /\ r.piece = proc[x].piece /\ r.age = proc[x].age

Quiet(x, r) ==
    /\ x \in Procs /\ r \in ProcRec /\ SameJob(x, r)
    /\ proc' = [proc EXCEPT ![x] = r]
    /\ UNCHANGED <<queue, puller, sync>>
    /\ contained' \subseteq Nodes /\ faults' \in 0 .. MaxFaults
    /\ excused \subseteq excused' /\ excused' \subseteq Pieces

LEMMA ProcTypes ==
  ASSUME TypeInv, NEW x \in Procs
  PROVE  /\ proc[x] \in ProcRec /\ proc[x] \in Rec
         /\ proc[x].age \in 0 .. RetryInterval
         /\ proc[x].pc \in Steps \union {"idle"}
         /\ proc[x].pc # "idle" => proc[x].piece \in Pieces
  BY DEF TypeInv, ProcRec, Rec

LEMMA NewProc ==
  ASSUME TypeInv, NEW x \in Procs, NEW r, proc' = [proc EXCEPT ![x] = r]
  PROVE  proc'[x] = r /\ \A y \in Procs : y # x => proc'[y] = proc[y]
  BY DEF TypeInv

LEMMA QuietStep ==
  ASSUME Inv, NEW x, NEW r, Quiet(x, r), counted' \in [Pieces -> 0 .. 2]
  PROVE  TypeInv' /\ LeaseInv' /\ OneHolder' /\ LateInv'
<1> USE DEF Inv
<1>1. x \in Procs /\ r \in ProcRec /\ proc' = [proc EXCEPT ![x] = r]
      /\ queue' = queue /\ puller' = puller
  BY DEF Quiet
<1>2. proc'[x] = r /\ \A y \in Procs : y # x => proc'[y] = proc[y]
  BY <1>1, NewProc
<1>3. Workers \subseteq Procs
  BY DEF Procs
<1>4. TypeInv'
  <2>1. proc' \in [Procs -> ProcRec]
    BY <1>1 DEF TypeInv
  <2> QED
    BY <1>1, <2>1 DEF TypeInv, Quiet
<1>5. ASSUME NEW w \in Workers, proc'[w].pc \in Busy
      PROVE  /\ proc[w].pc \in Busy /\ proc'[w].piece = proc[w].piece
             /\ proc'[w].age = proc[w].age
  BY <1>1, <1>2, <1>3, <1>5 DEF Quiet, SameJob
<1>6. ASSUME NEW w \in Workers, Holds(proc'[w])
      PROVE  /\ Holds(proc[w]) /\ proc'[w].piece = proc[w].piece
             /\ proc'[w].age = proc[w].age
  <2>1. proc'[w] \in ProcRec
    BY <1>3, <1>4 DEF TypeInv
  <2>2. proc'[w].pc \in Busy
    BY <1>6, <2>1 DEF Holds, ProcRec, Steps, Busy
  <2> QED
    BY <1>5, <1>6, <2>2 DEF Holds, Expired
<1>7. LeaseInv'
  <2>1. (Holds(puller) => Lease(puller))'
    BY <1>1 DEF LeaseInv, Lease, Holds, Expired
  <2>2. ASSUME NEW w \in Workers, Holds(proc'[w])
        PROVE  Lease(proc[w])'
    <3>1. Lease(proc[w])
      BY <1>6, <2>2 DEF LeaseInv
    <3> QED
      BY <1>1, <1>6, <2>2, <3>1 DEF Lease
  <2> QED
    BY <2>1, <2>2 DEF LeaseInv, Holds, Expired
<1>8. OneHolder'
  <2>1. ASSUME NEW v \in Workers, NEW w \in Workers,
               Holds(proc'[v]), Holds(proc'[w]), proc'[v].piece = proc'[w].piece
        PROVE  v = w
    BY <1>6, <2>1 DEF OneHolder
  <2>2. ASSUME NEW w \in Workers, Holds(puller'), Holds(proc'[w]),
               puller'.piece = proc'[w].piece
        PROVE  FALSE
    BY <1>1, <1>6, <2>2 DEF OneHolder
  <2> QED
    BY <2>1, <2>2 DEF OneHolder, Holds, Expired
<1>9. LateInv'
  <2> SUFFICES ASSUME NEW w \in Workers, proc'[w].pc \in Busy,
                      Expired(proc'[w]), Queued(proc[w].piece)',
                      proc'[w].piece \in Followed
               PROVE  proc'[w].piece \in excused'
    BY DEF LateInv, Expired, Queued
  <2>1. Expired(proc[w]) /\ Queued(proc[w].piece)
    BY <1>1, <1>5 DEF Expired, Queued
  <2> QED
    BY <1>5, <2>1 DEF LateInv, Quiet
<1> QED
  BY <1>4, <1>7, <1>8, <1>9

\* Nothing is counted, and a worker that does not go on to remove the job it
\* has counted is excused.
LEMMA QuietCount ==
  ASSUME Inv, NEW x, NEW r, Quiet(x, r), counted' = counted,
         x \in Workers /\ proc[x].pc = "delete" /\ Queued(proc[x].piece)
         /\ proc[x].piece \in Followed => proc[x].piece \in excused'
  PROVE  Inv'
<1> USE DEF Inv
<1>1. x \in Procs /\ proc' = [proc EXCEPT ![x] = r] /\ queue' = queue
      /\ excused \subseteq excused'
  BY DEF Quiet
<1>2. proc'[x] = r /\ \A y \in Procs : y # x => proc'[y] = proc[y]
  BY <1>1, NewProc
<1>3. counted' \in [Pieces -> 0 .. 2]
  BY DEF TypeInv
<1>4. TypeInv' /\ LeaseInv' /\ OneHolder' /\ LateInv'
  BY <1>3, QuietStep
<1>5. CountInv'
  BY <1>1 DEF CountInv, Queued
<1>6. RemovingInv'
  <2> SUFFICES ASSUME NEW p \in Pieces, p \notin excused', counted'[p] # 0
               PROVE  counted'[p] = 1 /\ \E w \in Workers : Removing(w, p)'
    BY DEF RemovingInv
  <2>1. counted[p] = 1
    BY <1>1 DEF RemovingInv
  <2>2. PICK w \in Workers : Removing(w, p)
    BY <1>1 DEF RemovingInv
  <2>3. Queued(p) /\ p \in Followed
    BY <2>1 DEF CountInv
  <2>4. w # x
    BY <2>2, <2>3 DEF Removing
  <2>5. w \in Procs
    BY DEF Procs
  <2>6. Removing(w, p)'
    BY <1>2, <2>2, <2>4, <2>5 DEF Removing, Expired
  <2> QED
    BY <2>1, <2>6
<1> QED
  BY <1>4, <1>5, <1>6
-----------------------------------------------------------------------------
\* The actions of one process that leave the queue alone.

LEMMA ExcuseGrows ==
  ASSUME TypeInv, NEW X, Excuse(X)
  PROVE  /\ excused \subseteq excused' /\ excused' \subseteq Pieces
         /\ \A w \in X \intersect Workers :
               Queued(proc[w].piece) /\ proc[w].piece \in Followed
                  => proc[w].piece \in excused'
  BY Constants DEF Excuse, JobsOf, TypeInv

LEMMA FailsFaults ==
  ASSUME TypeInv, NEW x, Fault \/ Fails(x)
  PROVE  faults' \in 0 .. MaxFaults
  BY Constants DEF Fails, Fault, TypeInv

LEMMA IdleSame ==
  ASSUME NEW x
  PROVE  SameJob(x, Idle)
  BY IdleRec DEF SameJob, Busy

LEMMA KeptSame ==
  ASSUME TypeInv, NEW x \in Procs, proc[x].pc # "idle", NEW pc \in Steps,
         pc \in Busy => proc[x].pc \in Busy
  PROVE  Kept(proc[x], pc) \in ProcRec /\ SameJob(x, Kept(proc[x], pc))
<1>1. proc[x] \in ProcRec
  BY ProcTypes
<1>2. /\ Kept(proc[x], pc) \in ProcRec /\ Kept(proc[x], pc).pc = pc
      /\ Kept(proc[x], pc).piece = proc[x].piece
      /\ Kept(proc[x], pc).age = proc[x].age
  BY <1>1, KeptRec
<1> QED
  BY <1>2 DEF SameJob

LEMMA AuditInv ==
  ASSUME Inv, NEW x \in Auditors, NEW p \in Pieces, Audit(x, p)
  PROVE  Inv'
<1>0. PICK y : y = [Idle EXCEPT !.pc = "insert"]
  OBVIOUS
<1>1. PICK r : r = [y EXCEPT !.piece = p]
  OBVIOUS
<1>2. r \in ProcRec
  <2>1. Idle \in Rec
    BY IdleRec DEF ProcRec
  <2>2. y \in Rec /\ y.pc = "insert"
    BY <1>0, <2>1 DEF Rec, Steps, Busy
  <2>3. r \in Rec /\ r.pc = "insert" /\ r.piece = p
    BY <1>1, <2>2 DEF Rec
  <2> QED
    BY <2>3 DEF ProcRec, Steps, Busy
<1>3. TypeInv /\ x \in Procs /\ x \notin Workers
  BY Constants DEF Inv, Procs
<1>4. proc' = [proc EXCEPT ![x] = r]
  BY <1>0, <1>1 DEF Audit
<1>5. UNCHANGED <<queue, contained, puller, sync, counted, excused>>
  BY DEF Audit, ghosts
<1>6. faults' \in 0 .. MaxFaults
  BY <1>3, Constants DEF Audit, Fault, TypeInv
<1>7. SameJob(x, r)
  BY <1>3 DEF SameJob
<1>8. Quiet(x, r)
  BY <1>2, <1>3, <1>4, <1>5, <1>6, <1>7 DEF Quiet, TypeInv
<1> QED
  BY <1>3, <1>5, <1>8, QuietCount

LEMMA FlagInv ==
  ASSUME Inv, NEW x \in Procs, Flag(x)
  PROVE  Inv'
<1>1. TypeInv /\ proc[x].pc = "flag" /\ proc' = [proc EXCEPT ![x] = Idle]
      /\ UNCHANGED <<faults, queue, puller, sync, counted, excused>>
  BY DEF Flag, Over, Inv, ghosts
<1>2. proc[x].piece \in Pieces
  BY <1>1, ProcTypes
<1>3. contained' \subseteq Nodes
  BY <1>1, <1>2, ContainmentAssumption DEF Flag, TypeInv
<1>4. Quiet(x, Idle)
  BY <1>1, <1>3, IdleRec, IdleSame DEF Quiet, TypeInv
<1> QED
  BY <1>1, <1>4, QuietCount

LEMMA ReportFailsInv ==
  ASSUME Inv, NEW x \in Procs, ReportFails(x)
  PROVE  Inv'
<1>1. /\ TypeInv /\ proc[x].pc \in {"insert", "flag"} /\ proc[x].pc \in Busy
      /\ UNCHANGED <<contained, queue, puller, sync, counted>>
      /\ Fails(x) /\ Excuse({x})
  BY DEF ReportFails, Inv, Busy
<1>2. excused \subseteq excused' /\ excused' \subseteq Pieces
  BY <1>1, ExcuseGrows
<1>3. faults' \in 0 .. MaxFaults
  BY <1>1, FailsFaults
<1>4. CASE proc[x].tries = MaxRetries
  <2>1. proc' = [proc EXCEPT ![x] = Idle]
    BY <1>4 DEF ReportFails, Over
  <2>2. Quiet(x, Idle)
    BY <1>1, <1>2, <1>3, <2>1, IdleRec, IdleSame DEF Quiet, TypeInv
  <2> QED
    BY <1>1, <2>2, QuietCount
<1>5. CASE proc[x].tries # MaxRetries
  <2>1. proc[x] \in ProcRec /\ proc[x].tries < MaxRetries
    BY <1>1, <1>5, ProcTypes, Constants DEF Rec
  <2>2. PICK r : r = Again(proc[x], "insert")
    OBVIOUS
  <2>3. r \in ProcRec /\ SameJob(x, r)
    BY <1>1, <2>1, <2>2, AgainRec DEF SameJob, Busy, Steps
  <2>4. proc' = [proc EXCEPT ![x] = r]
    BY <1>5, <2>2 DEF ReportFails
  <2>5. Quiet(x, r)
    BY <1>1, <1>2, <1>3, <2>3, <2>4 DEF Quiet, TypeInv
  <2> QED
    BY <1>1, <2>5, QuietCount
<1> QED
  BY <1>4, <1>5

LEMMA ReverifyInv ==
  ASSUME Inv, NEW w \in Workers, NEW outcome \in Outcomes, Reverify(w, outcome)
  PROVE  Inv'
<1> DEFINE pc == Follow(proc[w], outcome)
<1>1. /\ TypeInv /\ proc[w].pc = "reverify" /\ proc[w].pc \in Busy
      /\ UNCHANGED <<faults, contained, queue, puller, sync, counted, excused>>
  BY DEF Reverify, Inv, Busy, ghosts
<1>2. w \in Procs /\ proc[w] \in Rec /\ proc[w].piece \in Pieces
  BY <1>1, ProcTypes DEF Procs
<1>3. pc \in {"idle", "delete", "insert", "apply"}
  BY DEF Follow
<1>4. CASE pc = "idle"
  <2>1. proc' = [proc EXCEPT ![w] = Idle]
    BY <1>4 DEF Reverify, Over
  <2>2. Quiet(w, Idle)
    BY <1>1, <1>2, <2>1, IdleRec, IdleSame DEF Quiet, TypeInv
  <2> QED
    BY <1>1, <2>2, QuietCount
<1>5. CASE pc = "apply"
  <2>1. PICK y : y = [proc[w] EXCEPT !.pc = "apply"]
    OBVIOUS
  <2>2. PICK z : z = [y EXCEPT !.count = 0]
    OBVIOUS
  <2>3. PICK r : r = [z EXCEPT !.outcome = outcome]
    OBVIOUS
  <2>4. y \in Rec /\ y.pc = "apply" /\ y.piece = proc[w].piece
        /\ y.age = proc[w].age
    BY <1>2, <2>1 DEF Rec, Steps, Busy
  <2>5. z \in Rec /\ z.pc = "apply" /\ z.piece = proc[w].piece
        /\ z.age = proc[w].age
    BY <2>2, <2>4, Constants DEF Rec
  <2>6. r \in Rec /\ r.pc = "apply" /\ r.piece = proc[w].piece
        /\ r.age = proc[w].age
    BY <2>3, <2>5 DEF Rec
  <2>7. r \in ProcRec /\ SameJob(w, r)
    BY <1>1, <1>2, <2>6 DEF ProcRec, SameJob, Steps, Busy
  <2>8. proc' = [proc EXCEPT ![w] = r]
    <3>1. r = [proc[w] EXCEPT !.pc = "apply", !.count = 0, !.outcome = outcome]
      BY <2>1, <2>2, <2>3
    <3>2. proc' = [proc EXCEPT ![w] = [proc[w] EXCEPT !.pc = "apply", !.count = 0,
                                                      !.outcome = outcome]]
      BY <1>5 DEF Reverify
    <3> QED
      BY <3>1, <3>2
  <2>9. Quiet(w, r)
    BY <1>1, <1>2, <2>7, <2>8 DEF Quiet, TypeInv
  <2> QED
    BY <1>1, <2>9, QuietCount
<1>6. CASE pc \in {"delete", "insert"}
  <2>1. proc' = [proc EXCEPT ![w] = Kept(proc[w], pc)]
    BY <1>6 DEF Reverify, Goto
  <2>2. pc \in Steps
    BY <1>6 DEF Steps, Busy
  <2> HIDE DEF pc
  <2>3. Kept(proc[w], pc) \in ProcRec /\ SameJob(w, Kept(proc[w], pc))
    BY <1>1, <1>2, <2>2, KeptSame
  <2>4. Quiet(w, Kept(proc[w], pc))
    BY <1>1, <1>2, <2>1, <2>3 DEF Quiet, TypeInv
  <2> QED
    BY <1>1, <2>4, QuietCount
<1> QED
  BY <1>3, <1>4, <1>5, <1>6

LEMMA StillInv ==
  ASSUME Inv, NEW w \in Workers, Still(w)
  PROVE  Inv'
<1>1. /\ TypeInv /\ proc[w].pc = "still"
      /\ UNCHANGED <<faults, contained, queue, puller, sync, counted, excused>>
  BY DEF Still, Inv, ghosts
<1>2. w \in Procs
  BY DEF Procs
<1>3. PICK r : r \in {Idle, Kept(proc[w], "unflag")} /\ proc' = [proc EXCEPT ![w] = r]
  BY DEF Still, Over, Goto
<1>4. r \in ProcRec /\ SameJob(w, r)
  BY <1>1, <1>2, <1>3, IdleRec, IdleSame, KeptSame DEF Steps, Busy
<1>5. Quiet(w, r)
  BY <1>1, <1>2, <1>3, <1>4 DEF Quiet, TypeInv
<1> QED
  BY <1>1, <1>5, QuietCount

LEMMA OverInv ==
  ASSUME Inv, NEW w \in Workers, Unflag(w) \/ UnflagFails(w) \/ RemoveFails(w)
  PROVE  Inv'
<1>1. /\ TypeInv /\ w \in Procs
      /\ proc' = [proc EXCEPT ![w] = Idle]
      /\ UNCHANGED <<queue, puller, sync, counted>>
  BY DEF Unflag, UnflagFails, RemoveFails, Over, Inv, Procs, ghosts
<1>2. contained' \subseteq Nodes
  BY <1>1 DEF Unflag, UnflagFails, RemoveFails, TypeInv
<1>3. faults' \in 0 .. MaxFaults
  BY <1>1, FailsFaults DEF Unflag, UnflagFails, RemoveFails, TypeInv
<1>4. excused' = excused \/ (RemoveFails(w) /\ Excuse({w}))
  BY DEF Unflag, UnflagFails, RemoveFails, ghosts
<1>5. excused \subseteq excused' /\ excused' \subseteq Pieces
  BY <1>1, <1>4, ExcuseGrows DEF TypeInv
<1>6. Quiet(w, Idle)
  BY <1>1, <1>2, <1>3, <1>5, IdleRec, IdleSame DEF Quiet
<1>7. proc[w].pc = "delete" => Excuse({w})
  BY DEF Unflag, UnflagFails, RemoveFails
<1>8. proc[w].pc = "delete" /\ Queued(proc[w].piece) /\ proc[w].piece \in Followed
         => proc[w].piece \in excused'
  BY <1>1, <1>7, ExcuseGrows
<1> QED
  BY <1>1, <1>6, <1>8, QuietCount
-----------------------------------------------------------------------------
\* The verdict is counted.

LEMMA CountStep ==
  ASSUME Inv, NEW w \in Workers, proc[w].pc = "apply", NEW r, Quiet(w, r),
         Counted(proc[w]),
         \/ Queued(proc[w].piece) /\ proc[w].piece \in Followed
               => proc[w].piece \in excused'
         \/ ~IsVerdict(proc[w])
         \/ r = Kept(proc[w], "delete")
  PROVE  Inv'
<1> DEFINE p == proc[w].piece
<1>1. TypeInv /\ w \in Procs /\ proc[w] \in ProcRec /\ p \in Pieces
      /\ proc[w].pc \in Busy
  BY ProcTypes DEF Inv, Procs, Busy
<1>2. CASE ~(IsVerdict(proc[w]) /\ Queued(p) /\ p \in Followed)
  <2>1. counted' = counted
    BY <1>2 DEF Counted
  <2> QED
    BY <2>1, QuietCount
<1>3. CASE IsVerdict(proc[w]) /\ Queued(p) /\ p \in Followed
  <2>1. counted' = [counted EXCEPT ![p] = IF @ < 2 THEN @ + 1 ELSE @]
    BY <1>3 DEF Counted
  <2>2. counted[p] \in 0 .. 2
    BY <1>1 DEF TypeInv
  <2>3. /\ counted' \in [Pieces -> 0 .. 2]
        /\ counted'[p] = IF counted[p] < 2 THEN counted[p] + 1 ELSE counted[p]
        /\ \A q \in Pieces : q # p => counted'[q] = counted[q]
    <3>1. PICK c : c = IF counted[p] < 2 THEN counted[p] + 1 ELSE counted[p]
      OBVIOUS
    <3>2. c \in 0 .. 2
      BY <2>2, <3>1
    <3>3. counted' = [counted EXCEPT ![p] = c]
      BY <2>1, <3>1
    <3>4. counted \in [Pieces -> 0 .. 2]
      BY <1>1 DEF TypeInv
    <3> HIDE DEF p
    <3> QED
      BY <1>1, <3>1, <3>2, <3>3, <3>4
  <2>4. /\ queue' = queue /\ excused \subseteq excused'
        /\ proc' = [proc EXCEPT ![w] = r]
    BY DEF Quiet
  <2>5. proc'[w] = r /\ \A y \in Procs : y # w => proc'[y] = proc[y]
    BY <1>1, <2>4, NewProc
  <2>6. TypeInv' /\ LeaseInv' /\ OneHolder' /\ LateInv'
    BY <2>3, QuietStep
  <2>7. CountInv'
    BY <1>3, <2>3, <2>4 DEF CountInv, Queued, Inv
  <2>8. RemovingInv'
    <3> SUFFICES ASSUME NEW q \in Pieces, q \notin excused', counted'[q] # 0
                 PROVE  counted'[q] = 1 /\ \E v \in Workers : Removing(v, q)'
      BY DEF RemovingInv
    <3>0. q \notin excused
      BY <2>4
    <3>1. CASE q # p
      <4>1. counted[q] = 1
        BY <2>3, <3>0, <3>1 DEF RemovingInv, Inv
      <4>2. PICK v \in Workers : Removing(v, q)
        BY <2>3, <3>0, <3>1 DEF RemovingInv, Inv
      <4>3. v # w /\ v \in Procs
        BY <4>2 DEF Removing, Procs
      <4>4. Removing(v, q)'
        BY <2>5, <4>2, <4>3 DEF Removing, Expired
      <4> QED
        BY <2>3, <3>1, <4>1, <4>4
    <3>2. CASE q = p
      <4>1. r = Kept(proc[w], "delete")
        BY <1>3, <3>2
      <4>2. r.pc = "delete" /\ r.piece = p /\ r.age = proc[w].age
        BY <1>1, <4>1, KeptRec DEF Steps, Busy
      <4>3. ~Expired(proc[w])
        BY <1>1, <1>3, <3>0, <3>2 DEF LateInv, Inv
      <4>4. Removing(w, q)'
        BY <2>5, <3>2, <4>2, <4>3 DEF Removing, Expired
      <4>5. counted[q] = 0
        <5> SUFFICES ASSUME counted[q] # 0 PROVE FALSE
          OBVIOUS
        <5>1. PICK v \in Workers : Removing(v, q)
          BY <3>0 DEF RemovingInv, Inv
        <5>2. v # w
          BY <5>1 DEF Removing
        <5>3. Holds(proc[v]) /\ Holds(proc[w]) /\ proc[v].piece = proc[w].piece
          BY <1>1, <3>2, <4>3, <5>1 DEF Removing, Holds, Busy
        <5> QED
          BY <5>2, <5>3 DEF OneHolder, Inv
      <4> QED
        BY <2>3, <3>2, <4>4, <4>5
    <3> QED
      BY <3>1, <3>2
  <2> QED
    BY <2>6, <2>7, <2>8 DEF Inv
<1> QED
  BY <1>2, <1>3

LEMMA ApplyAuditInv ==
  ASSUME Inv, NEW w \in Workers, ApplyAudit(w)
  PROVE  Inv'
<1>1. /\ TypeInv /\ proc[w].pc = "apply" /\ w \in Procs /\ proc[w].pc \in Busy
      /\ UNCHANGED <<faults, contained, queue, puller, sync, excused>>
      /\ Counted(proc[w])
  BY DEF ApplyAudit, Inv, Procs, Busy
<1>2. CASE IsVerdict(proc[w])
  <2>1. proc' = [proc EXCEPT ![w] = Kept(proc[w], "delete")]
    BY <1>2 DEF ApplyAudit, AfterApply, Goto
  <2>2. Kept(proc[w], "delete") \in ProcRec /\ SameJob(w, Kept(proc[w], "delete"))
    BY <1>1, KeptSame DEF Steps, Busy
  <2>3. Quiet(w, Kept(proc[w], "delete"))
    BY <1>1, <2>1, <2>2 DEF Quiet, TypeInv
  <2> QED
    BY <1>1, <2>3, CountStep
<1>3. CASE ~IsVerdict(proc[w])
  <2>1. proc' = [proc EXCEPT ![w] = Idle]
    BY <1>3 DEF ApplyAudit, AfterApply, Over
  <2>2. Quiet(w, Idle)
    BY <1>1, <2>1, IdleRec, IdleSame DEF Quiet, TypeInv
  <2> QED
    BY <1>1, <1>3, <2>2, CountStep
<1> QED
  BY <1>2, <1>3

LEMMA ApplyFailsInv ==
  ASSUME Inv, NEW w \in Workers, ApplyFails(w)
  PROVE  Inv'
<1>1. /\ TypeInv /\ proc[w].pc = "apply" /\ w \in Procs /\ proc[w].pc \in Busy
      /\ UNCHANGED <<contained, queue, puller, sync>>
      /\ Fails(w) /\ Excuse({w})
      /\ Counted(proc[w]) \/ counted' = counted
  BY DEF ApplyFails, Inv, Procs, Busy
<1>2. /\ excused \subseteq excused' /\ excused' \subseteq Pieces
      /\ Queued(proc[w].piece) /\ proc[w].piece \in Followed
            => proc[w].piece \in excused'
  BY <1>1, ExcuseGrows
<1>3. faults' \in 0 .. MaxFaults
  BY <1>1, FailsFaults
<1>4. proc[w] \in ProcRec
  BY <1>1, ProcTypes
<1>5. PICK r : /\ r \in ProcRec /\ SameJob(w, r)
               /\ proc' = [proc EXCEPT ![w] = r]
  <2>1. CASE proc[w].tries < MaxRetries
    <3>1. PICK r : r = Again(proc[w], "apply")
      OBVIOUS
    <3>2. r \in ProcRec /\ SameJob(w, r)
      BY <1>1, <1>4, <2>1, <3>1, AgainRec DEF SameJob, Busy, Steps
    <3>3. proc' = [proc EXCEPT ![w] = r]
      BY <2>1, <3>1 DEF ApplyFails
    <3> QED
      BY <3>2, <3>3
  <2>2. CASE ~(proc[w].tries < MaxRetries) /\ proc[w].outcome = "Verdict"
    <3>1. proc' = [proc EXCEPT ![w] = Kept(proc[w], "delete")]
      BY <2>2 DEF ApplyFails, Goto
    <3>2. Kept(proc[w], "delete") \in ProcRec /\ SameJob(w, Kept(proc[w], "delete"))
      BY <1>1, KeptSame DEF Steps, Busy
    <3> QED
      BY <3>1, <3>2
  <2>3. CASE ~(proc[w].tries < MaxRetries) /\ proc[w].outcome # "Verdict"
    <3>1. proc' = [proc EXCEPT ![w] = Idle]
      BY <2>3 DEF ApplyFails, Over
    <3> QED
      BY <3>1, IdleRec, IdleSame
  <2> QED
    BY <2>1, <2>2, <2>3
<1>6. Quiet(w, r)
  BY <1>1, <1>2, <1>3, <1>5 DEF Quiet, TypeInv
<1>7. CASE Counted(proc[w])
  BY <1>1, <1>2, <1>6, <1>7, CountStep
<1>8. CASE counted' = counted
  BY <1>1, <1>2, <1>6, <1>8, QuietCount
<1> QED
  BY <1>1, <1>7, <1>8
-----------------------------------------------------------------------------
\* A job is inserted or removed.

LEMMA InsertInv ==
  ASSUME Inv, NEW x \in Procs, Insert(x)
  PROVE  Inv'
<1> DEFINE p == proc[x].piece
           r == Kept(proc[x], "flag")
<1>1. /\ TypeInv /\ proc[x].pc = "insert" /\ proc[x].pc \in Busy
      /\ ~Expired(proc[x]) /\ queue' = Inserted(p)
      /\ proc' = [proc EXCEPT ![x] = r]
      /\ UNCHANGED <<faults, contained, puller, sync, counted>>
      /\ excused' = excused \union {q \in Followed : q = p /\ MetLate(q)}
  BY DEF Insert, Inv, Busy, Goto
<1>2. p \in Pieces /\ r \in ProcRec /\ SameJob(x, r) /\ r.pc = "flag"
      /\ r.piece = p /\ r.age = proc[x].age
  BY <1>1, ProcTypes, KeptSame, KeptRec DEF Steps, Busy
<1>3. excused \subseteq excused' /\ excused' \subseteq Pieces
  BY <1>1, Constants DEF TypeInv
<1>4. CASE Queued(p)
  <2>1. queue' = queue
    BY <1>1, <1>4 DEF Inserted
  <2>2. Quiet(x, r)
    BY <1>1, <1>2, <1>3, <2>1 DEF Quiet, TypeInv
  <2> QED
    BY <1>1, <2>2, QuietCount
<1>5. CASE ~Queued(p)
  <2> DEFINE q == Append(queue, Job(p))
  <2>1. queue' = q
    BY <1>1, <1>5 DEF Inserted
  <2>2. IsQueue(queue) /\ Job(p) \in Jobs /\ Job(p).piece = p
        /\ \A i \in DOMAIN queue : queue[i].piece # p
    BY <1>1, <1>2, <1>5, FreshJob DEF TypeInv, Queued
  <2>3. /\ IsQueue(q)
        /\ \A i \in DOMAIN queue : i \in DOMAIN q /\ q[i] = queue[i]
        /\ \A i \in DOMAIN q : q[i] = Job(p) \/ (i \in DOMAIN queue /\ q[i] = queue[i])
    <3>1. \A i \in DOMAIN queue : queue[i].piece # Job(p).piece
      BY <2>2
    <3> QED
      BY <2>2, <3>1, AppendJob
  <2> HIDE DEF p, r, q
  <2>4. proc'[x] = r /\ \A y \in Procs : y # x => proc'[y] = proc[y]
    BY <1>1, NewProc
  <2>5. \A w \in Workers : w \in Procs
    BY DEF Procs
  <2>6. TypeInv'
    <3>1. proc' \in [Procs -> ProcRec]
      BY <1>1, <1>2 DEF TypeInv
    <3> QED
      BY <1>1, <1>3, <2>1, <2>3, <3>1 DEF TypeInv
  <2>7. ASSUME NEW w \in Workers, Holds(proc'[w])
        PROVE  /\ w # x /\ proc'[w] = proc[w] /\ Holds(proc[w])
               /\ Lease(proc[w])
    <3>1. CASE w = x
      <4>1. Holds(proc[x]) /\ Lease(proc[x])
        BY <1>1, <3>1 DEF Holds, LeaseInv, Inv
      <4> QED
        BY <2>2, <4>1 DEF Lease, p
    <3>2. CASE w # x
      BY <2>4, <2>5, <2>7, <3>2 DEF LeaseInv, Inv
    <3> QED
      BY <3>1, <3>2
  <2>8. LeaseInv'
    <3>1. ASSUME NEW s, Lease(s)
          PROVE  \E i \in DOMAIN q : q[i].piece = s.piece /\ q[i].age <= s.age
      BY <2>3, <3>1 DEF Lease
    <3>2. (Holds(puller) => Lease(puller))'
      BY <1>1, <2>1, <3>1 DEF LeaseInv, Lease, Holds, Expired, Inv
    <3>3. ASSUME NEW w \in Workers, Holds(proc'[w])
          PROVE  Lease(proc[w])'
      BY <2>1, <2>7, <3>1, <3>3 DEF Lease
    <3> QED
      BY <3>2, <3>3 DEF LeaseInv, Holds, Expired
  <2>9. OneHolder'
    <3>1. ASSUME NEW v \in Workers, NEW w \in Workers,
                 Holds(proc'[v]), Holds(proc'[w]), proc'[v].piece = proc'[w].piece
          PROVE  v = w
      BY <2>7, <3>1 DEF OneHolder, Inv
    <3>2. ASSUME NEW w \in Workers, Holds(puller'), Holds(proc'[w]),
                 puller'.piece = proc'[w].piece
          PROVE  FALSE
      BY <1>1, <2>7, <3>2 DEF OneHolder, Inv
    <3> QED
      BY <3>1, <3>2 DEF OneHolder, Holds, Expired
  <2>10. \A s \in Pieces : Queued(s)' => s = p \/ Queued(s)
    BY <2>1, <2>2, <2>3 DEF Queued
  <2>11. LateInv'
    <3> SUFFICES ASSUME NEW w \in Workers, proc'[w].pc \in Busy,
                        Expired(proc'[w]), Queued(proc[w].piece)',
                        proc'[w].piece \in Followed
                 PROVE  proc'[w].piece \in excused'
      BY DEF LateInv, Expired
    <3>1. w # x
      BY <1>1, <1>2, <2>4 DEF Expired
    <3>2. proc'[w] = proc[w] /\ proc[w].piece \in Pieces
      BY <2>4, <2>5, <3>1, Constants
    <3>3. CASE proc[w].piece = p
      BY <1>1, <3>2, <3>3 DEF MetLate
    <3>4. CASE proc[w].piece # p
      <4>1. Queued(proc[w].piece)
        BY <2>10, <3>2, <3>4 DEF Queued
      <4> QED
        BY <1>3, <3>2, <4>1 DEF LateInv, Inv
    <3> QED
      BY <3>3, <3>4
  <2>12. CountInv'
    <3>1. \A s \in Pieces : Queued(s) => Queued(s)'
      BY <2>1, <2>3 DEF Queued
    <3> QED
      BY <1>1, <3>1 DEF CountInv, Inv
  <2>13. RemovingInv'
    <3> SUFFICES ASSUME NEW s \in Pieces, s \notin excused', counted'[s] # 0
                 PROVE  counted'[s] = 1 /\ \E w \in Workers : Removing(w, s)'
      BY DEF RemovingInv
    <3>1. counted[s] = 1
      BY <1>1, <1>3 DEF RemovingInv, Inv
    <3>2. PICK w \in Workers : Removing(w, s)
      BY <1>1, <1>3 DEF RemovingInv, Inv
    <3>3. w # x /\ w \in Procs
      BY <1>1, <3>2 DEF Removing, Procs
    <3>4. Removing(w, s)'
      BY <2>4, <3>2, <3>3 DEF Removing, Expired
    <3> QED
      BY <1>1, <3>1, <3>4
  <2> QED
    BY <2>6, <2>8, <2>9, <2>11, <2>12, <2>13 DEF Inv
<1> QED
  BY <1>4, <1>5

LEMMA RemoveJobInv ==
  ASSUME Inv, NEW w \in Workers, RemoveJob(w)
  PROVE  Inv'
<1> DEFINE p == proc[w].piece
           r == Kept(proc[w], "still")
<1>1. /\ TypeInv /\ proc[w].pc = "delete" /\ proc[w].pc \in Busy
      /\ ~Expired(proc[w]) /\ queue' = Without(p) /\ w \in Procs
      /\ proc' = [proc EXCEPT ![w] = r]
      /\ counted' = [counted EXCEPT ![p] = 0]
      /\ excused' = excused \ {p}
      /\ UNCHANGED <<faults, contained, puller, sync>>
  BY DEF RemoveJob, Inv, Busy, Goto, Procs
<1>2. p \in Pieces /\ r \in ProcRec /\ r.pc = "still"
  BY <1>1, ProcTypes, KeptSame, KeptRec DEF Steps, Busy
<1>3. Holds(proc[w]) /\ Queued(p)
  BY <1>1 DEF Holds, LeaseInv, Lease, Queued, Inv
<1>4. PICK i \in DOMAIN queue : queue[i].piece = p /\ queue' = RemoveAt(queue, i)
  <2>1. PICK i : i = CHOOSE j \in DOMAIN queue : queue[j].piece = p
    OBVIOUS
  <2>2. i \in DOMAIN queue /\ queue[i].piece = p
    BY <1>3, <2>1 DEF Queued
  <2>3. queue' = RemoveAt(queue, i)
    BY <1>1, <1>3, <2>1 DEF Without
  <2> QED
    BY <2>2, <2>3
<1>5. IsQueue(queue)
  BY <1>1 DEF TypeInv
<1>6. /\ IsQueue(queue')
      /\ \A j \in DOMAIN queue : j # i => \E k \in DOMAIN queue' : queue'[k] = queue[j]
      /\ \A k \in DOMAIN queue' : \E j \in DOMAIN queue : j # i /\ queue'[k] = queue[j]
  BY <1>4, <1>5, RemoveJobAt
<1> HIDE DEF p, r
<1>7. proc'[w] = r /\ \A y \in Procs : y # w => proc'[y] = proc[y]
  BY <1>1, NewProc
<1>8. \A v \in Workers : v \in Procs
  BY DEF Procs
<1>9. \A j \in DOMAIN queue : queue[j].piece # p =>
         \E k \in DOMAIN queue' : queue'[k] = queue[j]
  BY <1>4, <1>6
<1>10. \A k \in DOMAIN queue' : queue'[k].piece # p /\
          \E j \in DOMAIN queue : queue'[k] = queue[j]
  BY <1>4, <1>5, <1>6 DEF IsQueue
<1>11. TypeInv'
  <2>1. proc' \in [Procs -> ProcRec]
    BY <1>1, <1>2 DEF TypeInv
  <2>2. counted' \in [Pieces -> 0 .. 2]
    BY <1>1, <1>2 DEF TypeInv
  <2> QED
    BY <1>1, <1>6, <2>1, <2>2 DEF TypeInv
<1>12. ASSUME NEW v \in Workers, proc'[v].pc \in Busy
       PROVE  v # w /\ proc'[v] = proc[v]
  <2>1. v # w
    BY <1>2, <1>7, <1>12 DEF Busy
  <2> QED
    BY <1>7, <1>8, <2>1
<1>13. ASSUME NEW v \in Workers, Holds(proc'[v])
       PROVE  v # w /\ proc'[v] = proc[v] /\ Holds(proc[v]) /\ proc[v].piece # p
  <2>1. proc'[v] \in ProcRec
    BY <1>8, <1>11 DEF TypeInv
  <2>2. proc'[v].pc \in Busy
    BY <1>13, <2>1 DEF Holds, ProcRec, Steps, Busy
  <2>3. v # w /\ proc'[v] = proc[v] /\ Holds(proc[v])
    BY <1>12, <1>13, <2>2
  <2> QED
    BY <1>3, <2>3 DEF OneHolder, p, Inv
<1>14. Holds(puller) => puller.piece # p
  BY <1>3 DEF OneHolder, p, Inv
<1>15. LeaseInv'
  <2>1. ASSUME NEW s, Lease(s), s.piece # p
        PROVE  \E k \in DOMAIN queue' : queue'[k].piece = s.piece /\ queue'[k].age <= s.age
    BY <1>9, <2>1 DEF Lease
  <2>2. (Holds(puller) => Lease(puller))'
    BY <1>1, <1>14, <2>1 DEF LeaseInv, Lease, Holds, Expired, Inv
  <2>3. ASSUME NEW v \in Workers, Holds(proc'[v])
        PROVE  Lease(proc[v])'
    <3>1. Lease(proc[v])
      BY <1>13, <2>3 DEF LeaseInv, Inv
    <3> QED
      BY <1>13, <2>1, <2>3, <3>1 DEF Lease
  <2> QED
    BY <2>2, <2>3 DEF LeaseInv, Holds, Expired
<1>16. OneHolder'
  <2>1. ASSUME NEW u \in Workers, NEW v \in Workers,
               Holds(proc'[u]), Holds(proc'[v]), proc'[u].piece = proc'[v].piece
        PROVE  u = v
    BY <1>13, <2>1 DEF OneHolder, Inv
  <2>2. ASSUME NEW v \in Workers, Holds(puller'), Holds(proc'[v]),
               puller'.piece = proc'[v].piece
        PROVE  FALSE
    BY <1>1, <1>13, <2>2 DEF OneHolder, Inv
  <2> QED
    BY <2>1, <2>2 DEF OneHolder, Holds, Expired
<1>17. LateInv'
  <2> SUFFICES ASSUME NEW v \in Workers, proc'[v].pc \in Busy,
                      Expired(proc'[v]), Queued(proc[v].piece)',
                      proc'[v].piece \in Followed
               PROVE  proc'[v].piece \in excused'
    BY DEF LateInv, Expired
  <2>1. proc'[v] = proc[v]
    BY <1>12
  <2>2. Queued(proc[v].piece) /\ proc[v].piece # p
    BY <1>10, <2>1 DEF Queued
  <2> QED
    BY <1>1, <2>1, <2>2 DEF LateInv, Inv
<1>18. \A s \in Pieces : counted'[s] # 0 => s # p /\ counted'[s] = counted[s]
  BY <1>1, <1>2 DEF TypeInv
<1>19. CountInv'
  <2> SUFFICES ASSUME NEW s \in Pieces, counted'[s] # 0
               PROVE  Queued(s)' /\ s \in Followed
    BY DEF CountInv, Queued
  <2>1. s # p /\ Queued(s) /\ s \in Followed
    BY <1>18 DEF CountInv, Inv
  <2> QED
    BY <1>9, <2>1 DEF Queued
<1>20. RemovingInv'
  <2> SUFFICES ASSUME NEW s \in Pieces, s \notin excused', counted'[s] # 0
               PROVE  counted'[s] = 1 /\ \E v \in Workers : Removing(v, s)'
    BY DEF RemovingInv
  <2>1. s # p /\ counted'[s] = counted[s] /\ s \notin excused
    BY <1>1, <1>18
  <2>2. counted[s] = 1
    BY <2>1 DEF RemovingInv, Inv
  <2>3. PICK v \in Workers : Removing(v, s)
    BY <2>1 DEF RemovingInv, Inv
  <2>4. v # w
    BY <2>1, <2>3 DEF Removing, p
  <2>5. Removing(v, s)'
    BY <1>7, <1>8, <2>3, <2>4 DEF Removing, Expired
  <2> QED
    BY <2>1, <2>2, <2>5
<1> QED
  BY <1>11, <1>15, <1>16, <1>17, <1>19, <1>20 DEF Inv
-----------------------------------------------------------------------------
\* The loop that takes jobs.

\* Only the puller changes, and it lets go of what it had.
LEMMA PullerInv ==
  ASSUME Inv, Cycle \/ EndRound \/ NotStarted \/ Drain
  PROVE  Inv'
<1>1. /\ UNCHANGED <<faults, queue, contained, proc, sync, counted, excused>>
      /\ puller' \in PullerRec /\ puller'.pc \in {"idle", "pull", "drain"}
  BY IdleRec DEF Cycle, EndRound, NotStarted, Drain, ghosts
<1>2. ~Holds(puller')
  BY <1>1 DEF Holds, Busy
<1>3. TypeInv'
  BY <1>1 DEF TypeInv, Inv
<1>4. LeaseInv'
  BY <1>1, <1>2 DEF LeaseInv, Lease, Holds, Expired, Inv
<1>5. OneHolder'
  BY <1>1, <1>2 DEF OneHolder, Holds, Expired, Inv
<1>6. LateInv' /\ CountInv'
  BY <1>1 DEF LateInv, CountInv, Queued, Expired, Inv
<1>7. RemovingInv'
  BY <1>1 DEF RemovingInv, Removing, Expired, Inv
<1> QED
  BY <1>3, <1>4, <1>5, <1>6, <1>7 DEF Inv

\* A job that is held is younger than the context of its holder.
LEMMA HeldNotDue ==
  ASSUME Inv, NEW i \in DOMAIN queue, Due(queue[i])
  PROVE  \A w \in Workers : Holds(proc[w]) => proc[w].piece # queue[i].piece
<1> SUFFICES ASSUME NEW w \in Workers, Holds(proc[w]),
                    proc[w].piece = queue[i].piece
             PROVE  FALSE
  OBVIOUS
<1>1. PICK j \in DOMAIN queue : queue[j].piece = proc[w].piece
                                /\ queue[j].age <= proc[w].age
  BY DEF LeaseInv, Lease, Inv
<1>2. j = i
  BY <1>1 DEF TypeInv, IsQueue, Inv
<1>3. queue[i].age \in Nat /\ proc[w].age \in 0 .. RetryInterval
  BY JobsType, ProcTypes DEF TypeInv, Inv, Procs
<1> QED
  BY <1>1, <1>2, <1>3, Constants DEF Holds, Expired, Due

\* A due job is taken by the puller that goes on with it, or by nobody.
LEMMA TakeStep ==
  ASSUME Inv, NEW i \in DOMAIN queue, Due(queue[i]),
         queue' = [queue EXCEPT ![i] = Taken(@)],
         UNCHANGED <<contained, proc, sync, counted, excused>>,
         faults' \in 0 .. MaxFaults, puller' \in PullerRec,
         puller'.pc = "wait" => puller'.piece = queue[i].piece
  PROVE  Inv'
<1>1. TypeInv /\ IsQueue(queue)
  BY DEF Inv, TypeInv
<1>2. /\ IsQueue(queue') /\ DOMAIN queue' = DOMAIN queue
      /\ queue'[i].piece = queue[i].piece /\ queue'[i].age = 0
      /\ \A j \in DOMAIN queue : queue'[j].piece = queue[j].piece
                                 /\ (j # i => queue'[j] = queue[j])
  BY <1>1, TakeJob
<1>3. TypeInv'
  BY <1>1, <1>2 DEF TypeInv
<1>4. \A w \in Workers : Holds(proc[w]) => proc[w].piece # queue[i].piece
  BY HeldNotDue
<1>5. Holds(puller') => puller'.pc = "wait"
  BY DEF Holds, PullerRec, Busy
<1>6. LeaseInv'
  <2>1. (Holds(puller) => Lease(puller))'
    <3>1. puller'.age >= 0
      BY Constants DEF PullerRec, Rec
    <3> QED
      BY <1>2, <1>5, <3>1 DEF Lease, Holds, Expired
  <2>2. ASSUME NEW w \in Workers, Holds(proc[w])
        PROVE  Lease(proc[w])'
    <3>1. PICK j \in DOMAIN queue : queue[j].piece = proc[w].piece
                                    /\ queue[j].age <= proc[w].age
      BY <2>2 DEF LeaseInv, Lease, Inv
    <3>2. queue'[j] = queue[j]
      BY <1>2, <1>4, <2>2, <3>1
    <3> QED
      BY <1>2, <3>1, <3>2 DEF Lease
  <2> QED
    BY <2>1, <2>2 DEF LeaseInv, Holds, Expired
<1>7. OneHolder'
  <2>1. ASSUME NEW w \in Workers, Holds(puller'), Holds(proc[w]),
               puller'.piece = proc[w].piece
        PROVE  FALSE
    BY <1>4, <1>5, <2>1
  <2> QED
    BY <2>1 DEF OneHolder, Holds, Expired, Inv
<1>8. \A s : Queued(s)' <=> Queued(s)
  BY <1>2 DEF Queued
<1>9. LateInv'
  BY <1>8 DEF LateInv, Expired, Queued, Inv
<1>10. CountInv'
  BY <1>8 DEF CountInv, Inv
<1>11. RemovingInv'
  BY DEF RemovingInv, Removing, Expired, Inv
<1> QED
  BY <1>3, <1>6, <1>7, <1>9, <1>10, <1>11 DEF Inv

LEMMA GetNextJobInv ==
  ASSUME Inv, NEW p \in Pieces, GetNextJob(p)
  PROVE  Inv'
<1>1. PICK i \in DOMAIN queue :
         /\ puller.pc = "pull" /\ Oldest(i) /\ queue[i].piece = p
         /\ queue' = [queue EXCEPT ![i] = Taken(@)]
         /\ puller' = [puller EXCEPT !.pc = "wait", !.piece = p,
                                     !.count = Taken(queue[i]).count]
         /\ UNCHANGED <<faults, contained, proc, sync, counted, excused>>
  BY DEF GetNextJob, ghosts
<1>2. Due(queue[i])
  BY <1>1 DEF Oldest, DueJobs
<1>3. puller \in Rec /\ faults' \in 0 .. MaxFaults /\ queue[i] \in Jobs
  BY <1>1, JobsType DEF Inv, TypeInv, PullerRec
<1>4. PICK c : c = Taken(queue[i]).count
  OBVIOUS
<1>5. c \in 0 .. MaxReverifyCount
  BY <1>3, <1>4, TakenJob
<1>6. PICK y : y = [puller EXCEPT !.pc = "wait"]
  OBVIOUS
<1>7. y \in Rec /\ y.pc = "wait"
  BY <1>3, <1>6 DEF Rec
<1>8. PICK z : z = [y EXCEPT !.piece = p]
  OBVIOUS
<1>9. z \in Rec /\ z.pc = "wait" /\ z.piece = p
  BY <1>7, <1>8 DEF Rec
<1>10. puller' = [z EXCEPT !.count = c]
  BY <1>1, <1>4, <1>6, <1>8
<1>11. puller' \in Rec /\ puller'.pc = "wait" /\ puller'.piece = p
  BY <1>5, <1>9, <1>10 DEF Rec
<1>12. puller' \in PullerRec
  BY <1>11 DEF PullerRec
<1> QED
  BY <1>1, <1>2, <1>3, <1>11, <1>12, TakeStep

LEMMA GetNextJobLostInv ==
  ASSUME Inv, GetNextJobLost
  PROVE  Inv'
<1>1. PICK i \in DOMAIN queue :
         /\ Fault /\ Oldest(i)
         /\ queue' = [queue EXCEPT ![i] = Taken(@)]
         /\ puller' = [Idle EXCEPT !.pc = "drain"]
         /\ UNCHANGED <<contained, proc, sync, counted, excused>>
  BY DEF GetNextJobLost, ghosts
<1>2. Due(queue[i]) /\ faults' \in 0 .. MaxFaults
  BY <1>1, FailsFaults DEF Oldest, DueJobs, Inv
<1>3. puller' \in PullerRec /\ puller'.pc = "drain"
  BY <1>1, IdleRec
<1> QED
  BY <1>1, <1>2, <1>3, TakeStep

LEMMA HandOverInv ==
  ASSUME Inv, NEW w \in Workers, HandOver(w)
  PROVE  Inv'
<1>1. /\ TypeInv /\ puller.pc = "wait" /\ proc[w].pc = "idle" /\ w \in Procs
      /\ puller' = StartTimer
      /\ UNCHANGED <<faults, queue, contained, sync, counted>>
  BY DEF HandOver, Inv, Procs
<1>2. PICK r : r = [puller EXCEPT !.pc = "reverify"]
  OBVIOUS
<1>3. proc' = [proc EXCEPT ![w] = r]
  BY <1>2 DEF HandOver
<1>4. puller \in Rec /\ puller.piece \in Pieces
  BY <1>1 DEF TypeInv, PullerRec
<1>5. r \in Rec /\ r.pc = "reverify" /\ r.piece = puller.piece /\ r.age = puller.age
  BY <1>2, <1>4 DEF Rec, Steps, Busy
<1>6. r \in ProcRec
  BY <1>4, <1>5 DEF ProcRec, Steps, Busy
<1>7. proc'[w] = r /\ \A y \in Procs : y # w => proc'[y] = proc[y]
  BY <1>1, <1>3, NewProc
<1>8. \A v \in Workers : v \in Procs
  BY DEF Procs
<1>9. /\ excused \subseteq excused' /\ excused' \subseteq Pieces
      /\ Expired(puller) /\ Queued(puller.piece) /\ puller.piece \in Followed
            => puller.piece \in excused'
  <2>1. excused \subseteq Pieces
    BY <1>1 DEF TypeInv
  <2> QED
    BY <2>1, <1>4 DEF HandOver
<1>10. TypeInv'
  <2>1. proc' \in [Procs -> ProcRec]
    BY <1>1, <1>3, <1>6 DEF TypeInv
  <2> QED
    BY <1>1, <1>9, <2>1, IdleRec DEF TypeInv
<1>11. ~Holds(puller')
  BY <1>1, IdleRec DEF Holds, Busy
<1>12. Holds(r) => Holds(puller)
  BY <1>1, <1>5 DEF Holds, Expired
<1>13. LeaseInv'
  <2>1. ASSUME NEW v \in Workers, Holds(proc'[v])
        PROVE  Lease(proc[v])'
    <3>1. CASE v = w
      <4>1. Lease(puller)
        BY <1>7, <1>12, <2>1, <3>1 DEF LeaseInv, Inv
      <4> QED
        BY <1>1, <1>5, <1>7, <3>1, <4>1 DEF Lease
    <3>2. CASE v # w
      <4>1. Lease(proc[v]) /\ proc'[v] = proc[v]
        BY <1>7, <1>8, <2>1, <3>2 DEF LeaseInv, Inv
      <4> QED
        BY <1>1, <4>1 DEF Lease
    <3> QED
      BY <3>1, <3>2
  <2> QED
    BY <1>11, <2>1 DEF LeaseInv, Holds, Expired
<1>14. OneHolder'
  <2>1. ASSUME NEW u \in Workers, NEW v \in Workers,
               Holds(proc'[u]), Holds(proc'[v]), proc'[u].piece = proc'[v].piece
        PROVE  u = v
    <3>1. CASE u = w /\ v # w
      BY <1>5, <1>7, <1>8, <1>12, <2>1, <3>1 DEF OneHolder, Inv
    <3>2. CASE u # w /\ v = w
      BY <1>5, <1>7, <1>8, <1>12, <2>1, <3>2 DEF OneHolder, Inv
    <3>3. CASE u # w /\ v # w
      BY <1>7, <1>8, <2>1, <3>3 DEF OneHolder, Inv
    <3> QED
      BY <3>1, <3>2, <3>3
  <2> QED
    BY <1>11, <2>1 DEF OneHolder, Holds, Expired
<1>15. LateInv'
  <2> SUFFICES ASSUME NEW v \in Workers, proc'[v].pc \in Busy,
                      Expired(proc'[v]), Queued(proc[v].piece)',
                      proc'[v].piece \in Followed
               PROVE  proc'[v].piece \in excused'
    BY DEF LateInv, Expired
  <2>1. \E k \in DOMAIN queue : queue[k].piece = proc'[v].piece
    BY <1>1 DEF Queued
  <2>2. CASE v = w
    BY <1>5, <1>7, <1>9, <2>1, <2>2 DEF Queued, Expired
  <2>3. CASE v # w
    BY <1>7, <1>8, <1>9, <2>1, <2>3 DEF LateInv, Queued, Inv
  <2> QED
    BY <2>2, <2>3
<1>16. CountInv'
  BY <1>1 DEF CountInv, Queued, Inv
<1>17. RemovingInv'
  <2> SUFFICES ASSUME NEW s \in Pieces, s \notin excused', counted'[s] # 0
               PROVE  counted'[s] = 1 /\ \E v \in Workers : Removing(v, s)'
    BY DEF RemovingInv
  <2>1. counted[s] = 1
    BY <1>1, <1>9 DEF RemovingInv, Inv
  <2>2. PICK v \in Workers : Removing(v, s)
    BY <1>1, <1>9 DEF RemovingInv, Inv
  <2>3. v # w
    BY <1>1, <2>2 DEF Removing
  <2>4. Removing(v, s)'
    BY <1>7, <1>8, <2>2, <2>3 DEF Removing, Expired
  <2> QED
    BY <1>1, <2>1, <2>4
<1> QED
  BY <1>10, <1>13, <1>14, <1>15, <1>16, <1>17 DEF Inv
-----------------------------------------------------------------------------
\* Time, crashes and the chore.

LEMMA TickInv ==
  ASSUME Inv, Tick
  PROVE  Inv'
<1> DEFINE q == [i \in DOMAIN queue |-> Older(queue[i], OldestAge)]
<1>1. /\ TypeInv /\ IsQueue(queue) /\ queue' = q
      /\ puller' = (IF puller.pc \in {"pull", "wait"} THEN Aged(puller) ELSE puller)
      /\ proc' = [x \in Procs |-> IF x \in Workers THEN Aged(proc[x]) ELSE proc[x]]
      /\ Excuse({w \in Workers : Late(w)})
      /\ UNCHANGED <<faults, contained, sync, counted>>
  BY DEF Tick, Inv, TypeInv
<1>2. /\ IsQueue(q) /\ DOMAIN q = DOMAIN queue
      /\ \A i \in DOMAIN queue : q[i].piece = queue[i].piece /\ q[i].age \in Nat
                                 /\ q[i].age <= queue[i].age + 1
  BY <1>1, OlderJobs
<1>3. \A i \in DOMAIN queue : queue[i].age \in Nat
  BY <1>1, JobsType
<1> HIDE DEF q
<1>4. \A w \in Workers : w \in Procs /\ proc'[w] = Aged(proc[w]) /\ proc[w] \in Rec
  BY <1>1, ProcTypes DEF Procs
<1>5. \A w \in Workers : /\ proc'[w] \in Rec /\ proc'[w].pc = proc[w].pc
                         /\ proc'[w].piece = proc[w].piece
                         /\ proc[w].age <= proc'[w].age
  BY <1>4, AgedRec
<1>6. puller \in Rec
  BY <1>1 DEF TypeInv, PullerRec
<1>7. /\ puller' \in Rec /\ puller'.pc = puller.pc /\ puller'.piece = puller.piece
      /\ puller.age <= puller'.age
  <2>1. puller.age <= puller.age
    BY <1>6, Constants DEF Rec
  <2> QED
    BY <1>1, <1>6, <2>1, AgedRec
<1>8. TypeInv'
  <2>1. ASSUME NEW x \in Procs
        PROVE  (IF x \in Workers THEN Aged(proc[x]) ELSE proc[x]) \in ProcRec
    <3>1. proc[x] \in ProcRec /\ proc[x] \in Rec
      BY <1>1, ProcTypes
    <3>2. Aged(proc[x]) \in ProcRec
      BY <3>1, AgedRec DEF ProcRec
    <3> QED
      BY <3>1, <3>2
  <2>2. proc' \in [Procs -> ProcRec]
    BY <1>1, <2>1
  <2>3. puller' \in PullerRec
    BY <1>1, <1>7 DEF TypeInv, PullerRec
  <2>4. excused' \subseteq Pieces
    BY <1>1, ExcuseGrows
  <2> QED
    BY <1>1, <1>2, <2>2, <2>3, <2>4 DEF TypeInv
\* Whoever still holds a job has grown as old as the job did, or older.
<1>9. ASSUME NEW r \in Rec, r.pc # "idle", Lease(r), ~Expired(Aged(r))
      PROVE  \E i \in DOMAIN q : q[i].piece = r.piece /\ q[i].age <= Aged(r).age
  <2>1. PICK i \in DOMAIN queue : queue[i].piece = r.piece /\ queue[i].age <= r.age
    BY <1>9 DEF Lease
  <2>2. Aged(r).age \in 0 .. RetryInterval /\ r.age \in 0 .. RetryInterval
    BY <1>9, AgedRec DEF Rec
  <2>3. Aged(r).age < RetryInterval
    BY <1>9, <2>2, Constants DEF Expired
  <2>4. Aged(r).age = r.age + 1
    BY <1>9, <2>3, AgedRec
  <2>5. q[i].age <= queue[i].age + 1 /\ q[i].age \in Nat /\ queue[i].age \in Nat
        /\ q[i].piece = queue[i].piece /\ i \in DOMAIN q
    BY <1>2, <1>3, <2>1
  <2>6. q[i].age <= r.age + 1
    BY <2>1, <2>2, <2>5, Constants
  <2> QED
    BY <2>1, <2>4, <2>5, <2>6
<1>10. ASSUME NEW w \in Workers, Holds(proc'[w])
       PROVE  Holds(proc[w])
  <2>1. proc[w].age \in 0 .. RetryInterval /\ proc'[w].age \in 0 .. RetryInterval
    BY <1>4, <1>5 DEF Rec
  <2> QED
    BY <1>5, <1>10, <2>1, Constants DEF Holds, Expired
<1>11. Holds(puller') => Holds(puller)
  <2>1. puller.age \in 0 .. RetryInterval /\ puller'.age \in 0 .. RetryInterval
    BY <1>6, <1>7 DEF Rec
  <2> QED
    BY <1>7, <2>1, Constants DEF Holds, Expired
<1>12. LeaseInv'
  <2>1. ASSUME NEW w \in Workers, Holds(proc'[w])
        PROVE  Lease(proc[w])'
    <3>1. Lease(proc[w]) /\ proc[w].pc # "idle" /\ ~Expired(Aged(proc[w]))
      BY <1>4, <1>10, <2>1 DEF LeaseInv, Inv, Holds, Busy
    <3>2. \E i \in DOMAIN q : q[i].piece = proc[w].piece
                              /\ q[i].age <= Aged(proc[w]).age
      BY <1>4, <1>9, <3>1
    <3> QED
      BY <1>1, <1>4, <1>5, <3>2 DEF Lease
  <2>2. ASSUME Holds(puller')
        PROVE  Lease(puller)'
    <3>1. puller.pc = "wait" /\ Lease(puller)
      BY <1>1, <1>11, <2>2 DEF LeaseInv, Inv, Holds, TypeInv, PullerRec, Busy
    <3>2. puller' = Aged(puller)
      BY <1>1, <3>1
    <3>3. ~Expired(Aged(puller))
      BY <2>2, <3>2 DEF Holds
    <3>4. \E i \in DOMAIN q : q[i].piece = puller.piece
                              /\ q[i].age <= Aged(puller).age
      BY <1>6, <1>9, <3>1, <3>3
    <3> QED
      BY <1>1, <1>7, <3>2, <3>4 DEF Lease
  <2> QED
    BY <2>1, <2>2 DEF LeaseInv, Holds, Expired
<1>13. OneHolder'
  <2>1. ASSUME NEW u \in Workers, NEW v \in Workers,
               Holds(proc'[u]), Holds(proc'[v]), proc'[u].piece = proc'[v].piece
        PROVE  u = v
    BY <1>5, <1>10, <2>1 DEF OneHolder, Inv
  <2>2. ASSUME NEW v \in Workers, Holds(puller'), Holds(proc'[v]),
               puller'.piece = proc'[v].piece
        PROVE  FALSE
    BY <1>5, <1>7, <1>10, <1>11, <2>2 DEF OneHolder, Inv
  <2> QED
    BY <2>1, <2>2 DEF OneHolder, Holds, Expired
<1>14. \A s : Queued(s)' <=> Queued(s)
  BY <1>1, <1>2 DEF Queued
<1>15. ASSUME NEW w \in Workers, proc[w].pc \in Busy, Expired(proc'[w]),
              Queued(proc[w].piece), proc[w].piece \in Followed
       PROVE  proc[w].piece \in excused'
  <2>1. Late(w)
    BY <1>4, <1>15 DEF Late
  <2>2. w \in {v \in Workers : Late(v)} \intersect Workers
    BY <2>1
  <2> QED
    BY <1>1, <1>15, <2>2, ExcuseGrows
<1>16. LateInv'
  <2> SUFFICES ASSUME NEW w \in Workers, proc'[w].pc \in Busy,
                      Expired(proc'[w]), Queued(proc[w].piece)',
                      proc'[w].piece \in Followed
               PROVE  proc'[w].piece \in excused'
    BY DEF LateInv, Expired
  <2>1. \E i \in DOMAIN queue : queue[i].piece = proc'[w].piece
    BY <1>1, <1>2 DEF Queued
  <2>2. Queued(proc[w].piece)
    BY <1>5, <2>1 DEF Queued
  <2> QED
    BY <1>5, <1>15, <2>2
<1>17. CountInv'
  BY <1>1, <1>14 DEF CountInv, Inv
<1>18. RemovingInv'
  <2> SUFFICES ASSUME NEW s \in Pieces, s \notin excused', counted'[s] # 0
               PROVE  counted'[s] = 1 /\ \E w \in Workers : Removing(w, s)'
    BY DEF RemovingInv
  <2>1. s \notin excused
    BY <1>1, ExcuseGrows
  <2>2. counted[s] = 1 /\ Queued(s) /\ s \in Followed
    BY <1>1, <2>1 DEF RemovingInv, CountInv, Inv
  <2>3. PICK w \in Workers : Removing(w, s)
    BY <1>1, <2>1 DEF RemovingInv, Inv
  <2>4. ~Expired(proc'[w])
    BY <1>15, <2>2, <2>3 DEF Removing, Busy
  <2>5. Removing(w, s)'
    BY <1>5, <2>3, <2>4 DEF Removing, Expired
  <2> QED
    BY <1>1, <2>2, <2>5
<1> QED
  BY <1>8, <1>12, <1>13, <1>16, <1>17, <1>18 DEF Inv

LEMMA CrashInv ==
  ASSUME Inv, Crash
  PROVE  Inv'
<1>1. /\ TypeInv /\ faults' \in 0 .. MaxFaults
      /\ puller' = Idle /\ proc' = [x \in Procs |-> Idle]
      /\ Excuse(Workers)
      /\ UNCHANGED <<queue, contained, sync, counted>>
  BY FailsFaults DEF Crash, Inv
<1>2. \A w \in Workers : proc'[w] = Idle
  BY <1>1 DEF Procs
<1>3. excused \subseteq excused' /\ excused' \subseteq Pieces
  BY <1>1, ExcuseGrows
<1>4. TypeInv'
  BY <1>1, <1>3, IdleRec DEF TypeInv
<1>5. LeaseInv' /\ OneHolder' /\ LateInv'
  BY <1>1, <1>2, IdleRec DEF LeaseInv, OneHolder, LateInv, Holds, Busy
<1>6. CountInv'
  BY <1>1 DEF CountInv, Queued, Inv
<1>7. RemovingInv'
  <2> SUFFICES ASSUME NEW s \in Pieces, s \notin excused', counted'[s] # 0
               PROVE  FALSE
    BY DEF RemovingInv
  <2>1. Queued(s) /\ s \in Followed
    BY <1>1 DEF CountInv, Inv
  <2>2. PICK w \in Workers : Removing(w, s)
    BY <1>1, <1>3 DEF RemovingInv, Inv
  <2> QED
    BY <1>1, <2>1, <2>2, ExcuseGrows DEF Removing
<1> QED
  BY <1>4, <1>5, <1>6, <1>7 DEF Inv

LEMMA SyncInv ==
  ASSUME Inv, ReadAllContained \/ SetAllContainedNodes \/ SyncFails
  PROVE  Inv'
<1>1. /\ TypeInv /\ UNCHANGED <<queue, puller, proc, counted, excused>>
      /\ faults' \in 0 .. MaxFaults
  BY FailsFaults DEF ReadAllContained, SetAllContainedNodes, SyncFails, ghosts,
                     Inv, TypeInv
<1>2. contained' \subseteq Nodes /\ sync' \in [pc : {"idle", "set"}, nodes : SUBSET Nodes]
  BY <1>1 DEF ReadAllContained, SetAllContainedNodes, SyncFails, ContainedAfter,
              TypeInv
<1>3. TypeInv'
  BY <1>1, <1>2 DEF TypeInv
<1>4. LeaseInv' /\ OneHolder'
  BY <1>1 DEF LeaseInv, OneHolder, Lease, Holds, Expired, Inv
<1>5. LateInv' /\ CountInv' /\ RemovingInv'
  BY <1>1 DEF LateInv, CountInv, RemovingInv, Removing, Queued, Expired, Inv
<1> QED
  BY <1>3, <1>4, <1>5 DEF Inv
-----------------------------------------------------------------------------
LEMMA InitInv == Init => Inv
<1> SUFFICES ASSUME Init PROVE Inv
  OBVIOUS
<1>1. IsQueue(queue) /\ \A i \in DOMAIN queue : FALSE
  BY EmptySeq DEF Init, IsQueue
<1>2. TypeInv
  BY <1>1, IdleRec, Constants DEF Init, TypeInv
<1>3. LeaseInv /\ OneHolder /\ LateInv
  BY IdleRec DEF Init, LeaseInv, OneHolder, LateInv, Holds, Busy, Procs
<1>4. CountInv /\ RemovingInv
  BY DEF Init, CountInv, RemovingInv
<1> QED
  BY <1>2, <1>3, <1>4 DEF Inv

LEMMA NextInv == Inv /\ [Next]_vars => Inv'
<1> SUFFICES ASSUME Inv, [Next]_vars PROVE Inv'
  OBVIOUS
<1>1. CASE UNCHANGED vars
  <2>1. UNCHANGED <<faults, queue, contained, puller, proc, sync, counted, excused>>
    BY <1>1 DEF vars
  <2>2. TypeInv' /\ LateInv' /\ CountInv' /\ RemovingInv'
    BY <2>1 DEF TypeInv, LateInv, CountInv, RemovingInv, Removing, Queued,
                Expired, Inv
  <2>3. LeaseInv' /\ OneHolder'
    BY <2>1 DEF LeaseInv, OneHolder, Lease, Holds, Expired, Inv
  <2> QED
    BY <2>2, <2>3 DEF Inv
<1>2. CASE Tick
  BY <1>2, TickInv
<1>3. ASSUME NEW x \in Auditors, NEW p \in Pieces, Audit(x, p)
      PROVE  Inv'
  BY <1>3, AuditInv
<1>4. ASSUME NEW x \in Procs, ReporterStep(x)
      PROVE  Inv'
  BY <1>4, InsertInv, FlagInv, ReportFailsInv DEF ReporterStep
<1>5. CASE PullerStep
  BY <1>5, PullerInv, GetNextJobInv, GetNextJobLostInv, HandOverInv DEF PullerStep
<1>6. ASSUME NEW w \in Workers, WorkerStep(w)
      PROVE  Inv'
  BY <1>6, ReverifyInv, ApplyAuditInv, ApplyFailsInv, RemoveJobInv, StillInv,
     OverInv DEF WorkerStep
<1>7. CASE ReadAllContained \/ SetAllContainedNodes \/ SyncFails
  BY <1>7, SyncInv
<1>8. CASE Crash
  BY <1>8, CrashInv
<1> QED
  BY <1>1, <1>2, <1>3, <1>4, <1>5, <1>6, <1>7, <1>8 DEF Next

LEMMA Invariant == Spec => []Inv
  BY InitInv, NextInv, PTL DEF Spec

\* The queue has one job of a piece, and jobs, marks and what every process
\* keeps between its statements are well formed.
THEOREM TypeCorrect == Spec => []TypeOK
<1>1. Inv => TypeOK
  <2> SUFFICES ASSUME Inv PROVE TypeOK
    OBVIOUS
  <2>1. \A i \in DOMAIN queue : queue[i] \in Jobs
    BY JobsType DEF Inv, TypeInv
  <2>2. \A x \in Procs : /\ proc[x].pc \in Steps \union {"idle"}
                         /\ proc[x].pc # "idle" => proc[x].piece \in Pieces
                         /\ proc[x].tries \in 0 .. MaxRetries
    BY ProcTypes DEF Inv, Rec
  <2> QED
    BY <2>1, <2>2 DEF Inv, TypeInv, TypeOK, Jobs, IsQueue, PullerRec
<1> QED
  BY <1>1, Invariant, PTL

\* Until its deadline a job is in the hands of one worker and stays in the
\* queue (GetNextJob, and the deadline that process sets before it).
THEOREM LeaseCorrect == Spec => []LeaseHeld
<1>1. Inv => LeaseHeld
  BY DEF Inv, LeaseInv, Lease, LeaseHeld, HeldJobQueued, Queued
<1> QED
  BY <1>1, Invariant, PTL

\* A job is counted once while nothing fails and nobody is late (ApplyAudit
\* and Delete, in this order).
THEOREM CountedCorrect == Spec => []CountedOnce
<1>1. Inv => CountedOnce
  <2> SUFFICES ASSUME Inv, NEW p \in Pieces, p \notin excused
               PROVE  counted[p] <= 1
    BY DEF CountedOnce
  <2>1. counted[p] \in 0 .. 2
    BY DEF Inv, TypeInv
  <2>2. counted[p] # 0 => counted[p] = 1
    BY DEF Inv, RemovingInv
  <2> QED
    BY <2>1, <2>2
<1> QED
  BY <1>1, Invariant, PTL
=============================================================================
