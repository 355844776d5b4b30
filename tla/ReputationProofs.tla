------------------------- MODULE ReputationProofs -------------------------
(* Proofs about Reputation: types, the accounts of results, and the overlay *)
(* that is told of every disqualification unless the node has exited, for   *)
(* any number of processes and calls.                                       *)
EXTENDS Reputation, FiniteSetTheorems, TLAPS

-----------------------------------------------------------------------------
(* Sums over a finite set, which SumFunctionOnSet defines by recursion.        *)

\* A finite set is in Q if Q holds of a set whenever it holds of its proper subsets.
LEMMA SubsetInduction ==
    ASSUME NEW S, IsFiniteSet(S), NEW Q,
           \A T \in SUBSET S : (\A U \in SUBSET T : U # T => U \in Q) => T \in Q
    PROVE  S \in Q
<1> DEFINE C == {T \in FiniteSubsetsOf(S) : T \notin Q}
<1> SUFFICES ASSUME S \notin Q
             PROVE  FALSE
  OBVIOUS
<1>1. S \in C
  BY DEF FiniteSubsetsOf
<1>2. IsWellFoundedOn(StrictSubsetOrdering(S), FiniteSubsetsOf(S))
  BY FS_StrictSubsetOrderingWellFounded
<1>3. C \subseteq FiniteSubsetsOf(S) /\ C # {}
  BY <1>1
<1> HIDE DEF C
<1>4. PICK T \in C : \A U \in C : <<U, T>> \notin StrictSubsetOrdering(S)
  BY <1>2, <1>3, WFMin
<1>5. T \in SUBSET S /\ T \notin Q /\ IsFiniteSet(T)
  BY <1>4 DEF C, FiniteSubsetsOf
<1>6. PICK U \in SUBSET T : U # T /\ U \notin Q
  BY <1>5
<1>7. IsFiniteSet(U)
  BY <1>5, <1>6, FS_Subset
<1>8. U \in C
  BY <1>5, <1>6, <1>7 DEF C, FiniteSubsetsOf
<1>9. <<U, T>> \in StrictSubsetOrdering(S)
  BY <1>5, <1>6 DEF StrictSubsetOrdering
<1> QED
  BY <1>4, <1>8, <1>9

\* The element of a set that a sum takes first.
Element(s) == CHOOSE x \in s : TRUE

\* The recursive function that SumFunctionOnSet defines.
IsSum(g, f, S) ==
    g = [s \in SUBSET S |-> IF s = {} THEN 0 ELSE f[Element(s)] + g[s \ {Element(s)}]]

LEMMA SumDefinition ==
    ASSUME NEW f, NEW S
    PROVE  SumFunctionOnSet(f, S) = (CHOOSE g : IsSum(g, f, S))[S]
BY DEF SumFunctionOnSet, FoldFunctionOnSet, MapThenFoldSet, IsSum, Element

\* What it is on the empty set, and on another one.
Unfolds(g, f, s) ==
    /\ s = {} => g[s] = 0
    /\ s # {} => Element(s) \in s /\ g[s] = f[Element(s)] + g[s \ {Element(s)}]

LEMMA SumStep ==
    ASSUME NEW f, NEW S, NEW g, IsSum(g, f, S), NEW s \in SUBSET S
    PROVE  Unfolds(g, f, s)
<1>1. g[s] = IF s = {} THEN 0 ELSE f[Element(s)] + g[s \ {Element(s)}]
  BY DEF IsSum
<1>2. s # {} => Element(s) \in s
  BY DEF Element
<1> QED
  BY <1>1, <1>2 DEF Unfolds

\* It is unique ...
LEMMA SumUnique ==
    ASSUME NEW f, NEW S, NEW R, NEW g, IsSum(g, f, S), NEW h, IsSum(h, f, R),
           NEW s \in SUBSET S, s \in SUBSET R, IsFiniteSet(s)
    PROVE  g[s] = h[s]
<1> DEFINE Q == {t \in SUBSET s : g[t] = h[t]}
<1>1. ASSUME NEW t \in SUBSET s, \A u \in SUBSET t : u # t => u \in Q
      PROVE  t \in Q
  <2>1. t \in SUBSET S /\ t \in SUBSET R
    OBVIOUS
  <2>0. Unfolds(g, f, t) /\ Unfolds(h, f, t)
    <3>1. Unfolds(g, f, t)
      BY ONLY <2>1, SumStep, IsSum(g, f, S)
    <3>2. Unfolds(h, f, t)
      BY ONLY <2>1, SumStep, IsSum(h, f, R)
    <3> QED
      BY <3>1, <3>2
  <2>2. CASE t = {}
    BY <2>0, <2>2 DEF Unfolds
  <2>3. CASE t # {}
    <3>1. PICK x : x = Element(t)
      OBVIOUS
    <3>2. /\ x \in t
          /\ g[t] = f[x] + g[t \ {x}] /\ h[t] = f[x] + h[t \ {x}]
      BY <2>0, <2>3, <3>1 DEF Unfolds
    <3>3. t \ {x} \in Q
      BY <1>1, <3>2
    <3> QED
      BY <3>2, <3>3
  <2> QED
    BY <2>2, <2>3
<1> HIDE DEF Q
<1>2. s \in Q
  BY <1>1, SubsetInduction
<1> QED
  BY <1>2 DEF Q

\* ... and exists.
LEMMA SumExists ==
    ASSUME NEW f, NEW S, IsFiniteSet(S)
    PROVE  \E g : IsSum(g, f, S)
<1> DEFINE Q == {t \in SUBSET S : \E g : IsSum(g, f, t)}
<1>1. ASSUME NEW t \in SUBSET S, \A u \in SUBSET t : u # t => u \in Q
      PROVE  t \in Q
  <2> DEFINE G(u) == CHOOSE g : IsSum(g, f, u)
             V(u) == IF u = {} THEN 0
                     ELSE f[Element(u)] + G(u \ {Element(u)})[u \ {Element(u)}]
             H == [u \in SUBSET t |-> V(u)]
  <2>1. ASSUME NEW u \in SUBSET t, u # t
        PROVE  IsSum(G(u), f, u)
    BY <1>1, <2>1
  <2>2. ASSUME NEW u \in SUBSET t
        PROVE  IsFiniteSet(u)
    BY <2>2, FS_Subset
  <2> HIDE DEF G
  <2>3. ASSUME NEW u \in SUBSET t, u # t
        PROVE  V(u) = G(u)[u]
    <3>0. Unfolds(G(u), f, u)
      <4>1. IsSum(G(u), f, u) /\ u \in SUBSET u
        BY <2>1, <2>3
      <4> QED
        BY ONLY <4>1, SumStep
    <3>1. CASE u = {}
      BY <3>0, <3>1 DEF Unfolds
    <3>2. CASE u # {}
      <4>1. PICK x : x = Element(u)
        OBVIOUS
      <4>2. x \in u /\ G(u)[u] = f[x] + G(u)[u \ {x}]
        BY <3>0, <3>2, <4>1 DEF Unfolds
      <4>3. u \ {x} \in SUBSET t /\ u \ {x} # t /\ u \ {x} \in SUBSET u
        BY <2>3, <4>2
      <4>4. IsSum(G(u \ {x}), f, u \ {x}) /\ IsSum(G(u), f, u) /\ IsFiniteSet(u \ {x})
        BY <2>1, <2>2, <2>3, <4>3
      <4>5. G(u)[u \ {x}] = G(u \ {x})[u \ {x}]
        BY <4>3, <4>4, SumUnique
      <4>6. V(u) = f[x] + G(u \ {x})[u \ {x}]
        BY <3>2, <4>1
      <4> QED
        BY <4>2, <4>5, <4>6
    <3> QED
      BY <3>1, <3>2
  <2>4. ASSUME NEW u \in SUBSET t
        PROVE  V(u) = IF u = {} THEN 0 ELSE f[Element(u)] + H[u \ {Element(u)}]
    <3>1. CASE u = {}
      BY <3>1
    <3>2. CASE u # {}
      <4>1. PICK x : x = Element(u)
        OBVIOUS
      <4>2. x \in u /\ u \ {x} \in SUBSET t /\ u \ {x} # t
        BY <3>2, <4>1 DEF Element
      <4>3. V(u) = f[x] + G(u \ {x})[u \ {x}]
        BY <3>2, <4>1
      <4>4. PICK w : w = u \ {x}
        OBVIOUS
      <4>5. H[w] = V(w) /\ V(w) = G(w)[w]
        <5> HIDE DEF V
        <5> QED
          BY <2>3, <4>2, <4>4
      <4> QED
        BY <3>2, <4>1, <4>3, <4>4, <4>5
    <3> QED
      BY <3>1, <3>2
  <2> HIDE DEF V
  <2>5. IsSum(H, f, t)
    BY <2>4 DEF IsSum
  <2> HIDE DEF H
  <2> QED
    BY <2>5
<1> HIDE DEF Q
<1>2. S \in Q
  BY <1>1, SubsetInduction
<1> QED
  BY <1>2 DEF Q

\* A sum over a finite set.
LEMMA SumIs ==
    ASSUME NEW f, NEW S, IsFiniteSet(S)
    PROVE  /\ S = {} => SumFunctionOnSet(f, S) = 0
           /\ S # {} => /\ Element(S) \in S
                        /\ SumFunctionOnSet(f, S) =
                             f[Element(S)] + SumFunctionOnSet(f, S \ {Element(S)})
<1>1. PICK T : T = S \ {Element(S)}
  OBVIOUS
<1>2. IsFiniteSet(T) /\ T \in SUBSET S
  BY <1>1, FS_Subset
<1>3. PICK g : g = CHOOSE h : IsSum(h, f, S)
  OBVIOUS
<1>4. PICK h : h = CHOOSE g1 : IsSum(g1, f, T)
  OBVIOUS
<1>5. IsSum(g, f, S)
  BY <1>3, SumExists
<1>6. IsSum(h, f, T)
  BY <1>2, <1>4, SumExists
<1>7. SumFunctionOnSet(f, S) = g[S]
  BY <1>3, SumDefinition
<1>8. SumFunctionOnSet(f, T) = h[T]
  BY <1>4, SumDefinition
<1>9. g[T] = h[T]
  BY <1>2, <1>5, <1>6, SumUnique
<1>10. S \in SUBSET S
  OBVIOUS
<1>11. /\ S = {} => g[S] = 0
       /\ S # {} => Element(S) \in S /\ g[S] = f[Element(S)] + g[T]
  <2>1. Unfolds(g, f, S)
    BY ONLY <1>5, <1>10, SumStep
  <2> QED
    BY <1>1, <2>1 DEF Unfolds
<1> QED
  BY <1>1, <1>7, <1>8, <1>9, <1>11

LEMMA SumEmpty ==
    ASSUME NEW f
    PROVE  SumFunctionOnSet(f, {}) = 0
BY SumIs, FS_EmptySet

LEMMA SumInt ==
    ASSUME NEW f, NEW S, IsFiniteSet(S), \A x \in S : f[x] \in Int
    PROVE  SumFunctionOnSet(f, S) \in Int
<1> DEFINE Q == {t \in SUBSET S : SumFunctionOnSet(f, t) \in Int}
<1>1. ASSUME NEW t \in SUBSET S, \A u \in SUBSET t : u # t => u \in Q
      PROVE  t \in Q
  <2>1. IsFiniteSet(t)
    BY FS_Subset
  <2>2. PICK x : x = Element(t)
    OBVIOUS
  <2>3. t = {} => SumFunctionOnSet(f, t) = 0
    BY <2>1, SumIs
  <2>4. t # {} => x \in t /\ SumFunctionOnSet(f, t) = f[x] + SumFunctionOnSet(f, t \ {x})
    BY <2>1, <2>2, SumIs
  <2>5. CASE t # {}
    <3>1. t \ {x} \in Q /\ f[x] \in Int
      BY <1>1, <2>4, <2>5
    <3> QED
      BY <2>4, <2>5, <3>1
  <2> QED
    BY <2>3, <2>5
<1> HIDE DEF Q
<1>2. S \in Q
  BY <1>1, SubsetInduction
<1> QED
  BY <1>2 DEF Q

LEMMA SumRemove ==
    ASSUME NEW f, NEW S, IsFiniteSet(S), \A x \in S : f[x] \in Int, NEW y \in S
    PROVE  /\ SumFunctionOnSet(f, S) = f[y] + SumFunctionOnSet(f, S \ {y})
           /\ SumFunctionOnSet(f, S \ {y}) \in Int
<1> DEFINE Q == {t \in SUBSET S : \A z \in t :
                    SumFunctionOnSet(f, t) = f[z] + SumFunctionOnSet(f, t \ {z})}
<1>1. ASSUME NEW t \in SUBSET S, \A u \in SUBSET t : u # t => u \in Q
      PROVE  t \in Q
  <2> SUFFICES ASSUME NEW z \in t
               PROVE  SumFunctionOnSet(f, t) = f[z] + SumFunctionOnSet(f, t \ {z})
    OBVIOUS
  <2>1. IsFiniteSet(t)
    BY FS_Subset
  <2>2. PICK x : x = Element(t)
    OBVIOUS
  <2>3. x \in t /\ SumFunctionOnSet(f, t) = f[x] + SumFunctionOnSet(f, t \ {x})
    BY <2>1, <2>2, SumIs
  <2>4. CASE x = z
    BY <2>3, <2>4
  <2>5. CASE x # z
    <3>1. PICK a : a = t \ {x}
      OBVIOUS
    <3>2. PICK b : b = t \ {z}
      OBVIOUS
    <3>3. a \in Q /\ b \in Q /\ z \in a /\ x \in b
      BY <1>1, <2>3, <2>5, <3>1, <3>2
    <3>4. /\ SumFunctionOnSet(f, a) = f[z] + SumFunctionOnSet(f, a \ {z})
          /\ SumFunctionOnSet(f, b) = f[x] + SumFunctionOnSet(f, b \ {x})
      BY <3>3
    <3>5. PICK c : c = a \ {z}
      OBVIOUS
    <3>6. c = b \ {x} /\ IsFiniteSet(c) /\ c \in SUBSET S
      BY <2>1, <3>1, <3>2, <3>5, FS_Subset
    <3>7. SumFunctionOnSet(f, c) \in Int
      BY <3>6, SumInt
    <3>8. f[x] \in Int /\ f[z] \in Int
      BY <2>3
    <3>9. SumFunctionOnSet(f, t) = f[x] + SumFunctionOnSet(f, a)
      BY <2>3, <3>1
    <3>10. SumFunctionOnSet(f, b) = f[x] + SumFunctionOnSet(f, c)
      BY <3>4, <3>6
    <3>11. SumFunctionOnSet(f, a) = f[z] + SumFunctionOnSet(f, c)
      BY <3>4, <3>5
    <3> QED
      BY ONLY <3>2, <3>7, <3>8, <3>9, <3>10, <3>11
  <2> QED
    BY <2>4, <2>5
<1> HIDE DEF Q
<1>2. S \in Q
  BY <1>1, SubsetInduction
<1>3. IsFiniteSet(S \ {y})
  BY FS_Subset
<1>4. SumFunctionOnSet(f, S \ {y}) \in Int
  BY <1>3, SumInt
<1> QED
  BY <1>2, <1>4 DEF Q

LEMMA SumEqual ==
    ASSUME NEW f, NEW g, NEW S, IsFiniteSet(S), \A x \in S : f[x] = g[x]
    PROVE  SumFunctionOnSet(f, S) = SumFunctionOnSet(g, S)
<1> DEFINE Q == {t \in SUBSET S : SumFunctionOnSet(f, t) = SumFunctionOnSet(g, t)}
<1>1. ASSUME NEW t \in SUBSET S, \A u \in SUBSET t : u # t => u \in Q
      PROVE  t \in Q
  <2>1. IsFiniteSet(t)
    BY FS_Subset
  <2>2. PICK x : x = Element(t)
    OBVIOUS
  <2>3. CASE t = {}
    BY <2>3, SumEmpty
  <2>4. CASE t # {}
    <3>1. x \in t /\ SumFunctionOnSet(f, t) = f[x] + SumFunctionOnSet(f, t \ {x})
      BY <2>1, <2>2, <2>4, SumIs
    <3>2. SumFunctionOnSet(g, t) = g[x] + SumFunctionOnSet(g, t \ {x})
      BY <2>1, <2>2, <2>4, SumIs
    <3>3. t \ {x} \in Q /\ f[x] = g[x]
      BY <1>1, <3>1
    <3> QED
      BY <3>1, <3>2, <3>3
  <2> QED
    BY <2>3, <2>4
<1> HIDE DEF Q
<1>2. S \in Q
  BY <1>1, SubsetInduction
<1> QED
  BY <1>2 DEF Q

\* One value of the function changes.
LEMMA SumUpdate ==
    ASSUME NEW f, NEW g, NEW S, IsFiniteSet(S), \A x \in S : f[x] \in Int, NEW y \in S,
           g[y] \in Int, \A x \in S : x # y => g[x] = f[x]
    PROVE  SumFunctionOnSet(g, S) = SumFunctionOnSet(f, S) - f[y] + g[y]
<1>1. PICK T : T = S \ {y}
  OBVIOUS
<1>2. IsFiniteSet(T)
  BY <1>1, FS_Subset
<1>3. SumFunctionOnSet(g, T) = SumFunctionOnSet(f, T)
  BY <1>1, <1>2, SumEqual
<1>4. SumFunctionOnSet(f, S) = f[y] + SumFunctionOnSet(f, T)
  BY <1>1, SumRemove
<1>5. SumFunctionOnSet(f, T) \in Int
  BY <1>1, SumRemove
<1>6. \A x \in S : g[x] \in Int
  OBVIOUS
<1>7. SumFunctionOnSet(g, S) = g[y] + SumFunctionOnSet(g, T)
  BY <1>1, <1>6, SumRemove
<1> QED
  BY <1>3, <1>4, <1>5, <1>7

LEMMA SumZero ==
    ASSUME NEW f, NEW S, IsFiniteSet(S), \A x \in S : f[x] = 0
    PROVE  SumFunctionOnSet(f, S) = 0
<1> DEFINE Q == {t \in SUBSET S : SumFunctionOnSet(f, t) = 0}
<1>1. ASSUME NEW t \in SUBSET S, \A u \in SUBSET t : u # t => u \in Q
      PROVE  t \in Q
  <2>1. IsFiniteSet(t)
    BY FS_Subset
  <2>2. PICK x : x = Element(t)
    OBVIOUS
  <2>3. CASE t = {}
    BY <2>3, SumEmpty
  <2>4. CASE t # {}
    <3>1. x \in t /\ SumFunctionOnSet(f, t) = f[x] + SumFunctionOnSet(f, t \ {x})
      BY <2>1, <2>2, <2>4, SumIs
    <3>2. t \ {x} \in Q /\ f[x] = 0
      BY <1>1, <3>1
    <3> QED
      BY <3>1, <3>2
  <2> QED
    BY <2>3, <2>4
<1> HIDE DEF Q
<1>2. S \in Q
  BY <1>1, SubsetInduction
<1> QED
  BY <1>2 DEF Q

LEMMA SumNat ==
    ASSUME NEW f, NEW S, IsFiniteSet(S), \A x \in S : f[x] \in Nat
    PROVE  SumFunctionOnSet(f, S) \in Nat
<1> DEFINE Q == {t \in SUBSET S : SumFunctionOnSet(f, t) \in Nat}
<1>1. ASSUME NEW t \in SUBSET S, \A u \in SUBSET t : u # t => u \in Q
      PROVE  t \in Q
  <2>1. IsFiniteSet(t)
    BY FS_Subset
  <2>2. PICK x : x = Element(t)
    OBVIOUS
  <2>3. t = {} => SumFunctionOnSet(f, t) = 0
    BY <2>1, SumIs
  <2>4. t # {} => x \in t /\ SumFunctionOnSet(f, t) = f[x] + SumFunctionOnSet(f, t \ {x})
    BY <2>1, <2>2, SumIs
  <2>5. CASE t # {}
    <3>1. t \ {x} \in Q /\ f[x] \in Nat
      BY <1>1, <2>4, <2>5
    <3> QED
      BY <2>4, <2>5, <3>1
  <2> QED
    BY <2>3, <2>5
<1> HIDE DEF Q
<1>2. S \in Q
  BY <1>1, SubsetInduction
<1> QED
  BY <1>2 DEF Q
-----------------------------------------------------------------------------
\* What the model is built from keeps its shape.
LEMMA NoResultsIs == NoResults \in [Outcomes -> Nat]
  BY SMT DEF NoResults

LEMMA PlusIs ==
  ASSUME NEW r \in [Outcomes -> Nat], NEW more \in [Outcomes -> Nat]
  PROVE  Plus(r, more) \in [Outcomes -> Nat]
  BY SMT DEF Plus

LEMMA OneIs == ASSUME NEW o PROVE One(o) \in [Outcomes -> Nat]
  BY SMT DEF One

LEMMA NewNodeIs == NewNode \in Info
  BY NoResultsIs, SMT DEF NewNode, Info

LEMMA AfterIs ==
  ASSUME NEW info \in Info, NEW more \in [Outcomes -> Nat]
  PROVE  After(info, more) \in Info
<1>1. info.results \in [Outcomes -> Nat] /\ info.vetted \in BOOLEAN /\ info.disqualified \in BOOLEAN
  BY SMT DEF Info
<1>2. Plus(info.results, more) \in [Outcomes -> Nat]
  BY <1>1, PlusIs
<1>3. (Total(Plus(info.results, more)) >= AuditCount) \in BOOLEAN
      /\ AuditScoreLow(Plus(info.results, more)) \in BOOLEAN
      /\ UnknownScoreLow(Plus(info.results, more)) \in BOOLEAN
  BY SMT DEF AuditScoreLow, UnknownScoreLow, AtMost
<1> QED
  BY <1>1, <1>2, <1>3 DEF After, Info

LEMMA StatusIs == ASSUME NEW info \in Info PROVE Status(info) \in Statuses
  BY SMT DEF Status, Info, Statuses

LEMMA IdleIs == Idle \in CallStates
  BY NewNodeIs, StatusIs DEF Idle, CallStates, Away, None

LEMMA NoEntryIs == NoEntry \in Entries
  BY NewNodeIs, NoResultsIs DEF NoEntry, Entries, None

LEMMA SelectingIs == Selecting \in Managers
  BY DEF Selecting, Managers, None
-----------------------------------------------------------------------------
\* A call goes on only with a status that is not disqualified, so that a
\* disqualified answer is a change.
StatusClear == \A c \in Calls : ~call[c].status.disqualified

\* What Begin makes of a call: one of the process, or one that is done without an
\* answer.
Begins(z, p) ==
    /\ z.pc \in {"entry", "failed", "done"}
    /\ z.pc = "done" => ~z.answer.disqualified
    /\ z.pc # "done" => z.process = p
    /\ StatusClear => ~z.status.disqualified

LEMMA ReadStatusIs ==
  ASSUME TypeOK, NEW c \in Calls, NEW p, NEW x \in CallStates, x.process = p,
         StatusClear => ~x.status.disqualified, ReadStatus(c, p, x)
  PROVE  faults' \in Nat /\ \E z \in CallStates : Begin(c, p, z) /\ Begins(z, p)
<1>1. CASE ~Gone /\ Begin(c, p, [x EXCEPT !.pc = "entry", !.status = nodes])
             /\ UNCHANGED faults
  <2>1. PICK z : z = [x EXCEPT !.pc = "entry", !.status = nodes]
    OBVIOUS
  <2>2. z \in CallStates /\ z.pc = "entry" /\ z.process = p /\ z.status = nodes
    BY <2>1 DEF CallStates, TypeOK
  <2> QED
    BY <1>1, <2>1, <2>2 DEF Begins, Gone, TypeOK
<1>2. CASE Begin(c, p, [Idle EXCEPT !.pc = "done"]) /\ UNCHANGED faults
  <2>1. PICK z : z = [Idle EXCEPT !.pc = "done"]
    OBVIOUS
  <2>2. z \in CallStates
    BY <2>1, IdleIs DEF CallStates, Away
  <2>3. z.pc = "done" /\ ~z.answer.disqualified /\ ~z.status.disqualified
    BY <2>1 DEF Idle, Status, NewNode
  <2> QED
    BY <1>2, <2>1, <2>2, <2>3 DEF Begins, TypeOK
<1>3. CASE /\ (x.canceled /\ UNCHANGED faults) \/ (~x.canceled /\ Fault)
           /\ Begin(c, p, [x EXCEPT !.pc = "failed"])
  <2>1. PICK z : z = [x EXCEPT !.pc = "failed"]
    OBVIOUS
  <2>2. z \in CallStates /\ z.pc = "failed" /\ z.process = p /\ z.status = x.status
    BY <2>1 DEF CallStates
  <2>3. faults' \in Nat
    BY <1>3, SMT DEF Fault, TypeOK
  <2> QED
    BY <1>3, <2>1, <2>2, <2>3 DEF Begins
<1> QED
  BY <1>1, <1>2, <1>3 DEF ReadStatus

LEMMA BeginAuditIs ==
  ASSUME TypeOK, NEW c \in Calls, NEW p \in Processes, NEW o \in Outcomes,
         BeginAudit(c, p, o)
  PROVE  faults' \in Nat /\ \E z \in CallStates : Begin(c, p, z) /\ Begins(z, p)
<1>1. PICK x : x = [Idle EXCEPT !.process = p, !.outcome = o]
  OBVIOUS
<1>2. x \in CallStates /\ x.process = p
  BY <1>1, IdleIs DEF CallStates
<1>3. ~x.status.disqualified
  BY <1>1 DEF Idle, Status, NewNode
<1>4. CASE ~Gone /\ Begin(c, p, [x EXCEPT !.pc = "entry", !.status = nodes])
             /\ UNCHANGED faults
  <2>1. PICK z : z = [x EXCEPT !.pc = "entry", !.status = nodes]
    OBVIOUS
  <2>2. z \in CallStates /\ z.pc = "entry" /\ z.process = p /\ z.status = nodes
    BY <1>2, <2>1 DEF CallStates, TypeOK
  <2> QED
    BY <1>4, <2>1, <2>2 DEF Begins, Gone, TypeOK
<1>5. CASE ReadStatus(c, p, x)
  BY <1>2, <1>3, <1>5, ReadStatusIs
<1> QED
  BY <1>1, <1>4, <1>5 DEF BeginAudit

LEMMA RetryIs ==
  ASSUME TypeOK, NEW c \in Calls, Retry(c)
  PROVE  /\ faults' \in Nat /\ call[c].pc = "failed"
         /\ \E z \in CallStates : /\ Begin(c, call[c].process, z)
                                /\ Begins(z, call[c].process)
<1>1. PICK x : x = [call[c] EXCEPT !.tries = @ + 1, !.answer = Idle.answer, !.newly = FALSE]
  OBVIOUS
<1>2. call[c] \in CallStates /\ call[c].tries + 1 \in Nat /\ Idle.answer \in Statuses
  <2>1. Idle.answer \in Statuses
    BY NewNodeIs, StatusIs DEF Idle
  <2>2. call[c] \in CallStates /\ call[c].tries \in Nat
    BY DEF TypeOK, CallStates
  <2> QED
    BY <2>1, <2>2, SMT
<1>3. x \in CallStates /\ x.process = call[c].process /\ x.status = call[c].status
  BY <1>1, <1>2 DEF CallStates
<1>4. StatusClear => ~x.status.disqualified
  BY <1>3 DEF StatusClear
<1>5. CASE Begin(c, call[c].process, [x EXCEPT !.pc = "entry"]) /\ UNCHANGED faults
  <2>1. PICK z : z = [x EXCEPT !.pc = "entry"]
    OBVIOUS
  <2>2. z \in CallStates /\ z.pc = "entry" /\ z.process = x.process /\ z.status = x.status
    BY <1>3, <2>1 DEF CallStates
  <2> QED
    BY <1>3, <1>4, <1>5, <2>1, <2>2 DEF Begins, TypeOK, Retry
<1>6. CASE ReadStatus(c, call[c].process, x)
  BY <1>3, <1>4, <1>6, ReadStatusIs DEF Retry
<1> QED
  BY <1>1, <1>5, <1>6 DEF Retry

LEMMA InitTypes == Init => TypeOK
<1> SUFFICES ASSUME Init PROVE TypeOK
  OBVIOUS
<1>1. row \in Info /\ nodes \in Statuses /\ exited \in BOOLEAN /\ faults \in Nat
  BY NewNodeIs, StatusIs DEF Init
<1>2. /\ entry \in [Processes -> Entries] /\ manager \in [Processes -> Managers]
      /\ call \in [Calls -> CallStates]
  BY IdleIs, NoEntryIs, SelectingIs DEF Init
<1>3. recorded \in [Outcomes -> Nat] /\ lost \in [Outcomes -> Nat]
  BY NoResultsIs DEF Init
<1> QED
  BY <1>1, <1>2, <1>3 DEF TypeOK

\* The steps of the database and of the manager write an entry as typed.
LEMMA WrittenIs ==
  ASSUME TypeOK, NEW p \in Processes PROVE Written(p) \in Info
<1>1. entry[p].read \in Info /\ entry[p].mutations \in [Outcomes -> Nat]
  BY DEF TypeOK, Entries, None
<1> QED
  BY <1>1, AfterIs DEF Written

\* An entry after one of the assignments to it.
LEMMA EntryIs ==
  ASSUME NEW e \in Entries, NEW info \in Info, NEW error \in {None, "failed"},
         NEW holder \in Calls \union {"manager"}, NEW sync \in {"get", "done"}
  PROVE  /\ [e EXCEPT !.sync = "done", !.read = NewNode, !.info = info,
                      !.error = error, !.mutations = NoResults] \in Entries
         /\ [e EXCEPT !.read = info, !.sync = "write"] \in Entries
         /\ [e EXCEPT !.sync = "get"] \in Entries
         /\ [e EXCEPT !.there = TRUE] \in Entries
         /\ [e EXCEPT !.holder = holder, !.sync = sync] \in Entries
<1>1. [e EXCEPT !.sync = "done", !.read = NewNode, !.info = info,
                !.error = error, !.mutations = NoResults] \in Entries
  BY NewNodeIs, NoResultsIs DEF Entries, None
<1>2. [e EXCEPT !.read = info, !.sync = "write"] \in Entries
  BY DEF Entries, None
<1>3. [e EXCEPT !.sync = "get"] \in Entries
  BY DEF Entries, None
<1>4. [e EXCEPT !.there = TRUE] \in Entries
  BY DEF Entries, None
<1>5. [e EXCEPT !.holder = holder, !.sync = sync] \in Entries
  BY DEF Entries, None
<1> QED
  BY <1>1, <1>2, <1>3, <1>4, <1>5

LEMMA SyncedTypes ==
  ASSUME TypeOK, NEW p \in Processes, NEW info \in Info,
         NEW error \in {None, "failed"}, Synced(p, info, error)
  PROVE  entry' \in [Processes -> Entries]
<1>1. [entry[p] EXCEPT !.sync = "done", !.read = NewNode, !.info = info,
         !.error = error, !.mutations = NoResults] \in Entries
  BY EntryIs DEF TypeOK
<1> QED
  BY <1>1 DEF TypeOK, Synced

LEMMA UnlockedIs == ASSUME NEW e \in Entries PROVE Unlocked(e) \in Entries
  BY DEF Unlocked, Entries, None

LEMMA StepTypes ==
  ASSUME TypeOK, NEW c \in Calls,
         NEW pc \in {"locked", "wait", "failed", "decide"}, Step(c, pc)
  PROVE  call' \in [Calls -> CallStates]
  BY DEF TypeOK, Step, CallStates, None

LEMMA BeginTypes ==
  ASSUME TypeOK, NEW c \in Calls, NEW p \in Processes \union {None},
         NEW z \in CallStates, Begin(c, p, z), faults' \in Nat
  PROVE  TypeOK'
<1>1. entry' \in [Processes -> Entries]
  <2>1. CASE p \in Processes
    <3>1. [entry[p] EXCEPT !.there = entry[p].there \/ z.pc = "entry"] \in Entries
      <4>1. CASE z.pc = "entry"
        <5>1. [entry[p] EXCEPT !.there = TRUE] \in Entries
          BY <2>1, EntryIs, NewNodeIs DEF TypeOK
        <5>2. (entry[p].there \/ z.pc = "entry") = TRUE
          BY <4>1
        <5> QED
          BY <5>1, <5>2
      <4>2. CASE z.pc # "entry"
        <5>1. entry[p] \in Entries /\ entry[p].there \in BOOLEAN
          BY <2>1 DEF TypeOK, Entries
        <5>2. (entry[p].there \/ z.pc = "entry") = entry[p].there
          BY <4>2, <5>1
        <5>3. [entry[p] EXCEPT !.there = entry[p].there] \in Entries
          BY <5>1 DEF Entries
        <5> QED
          BY <5>2, <5>3
      <4> QED
        BY <4>1, <4>2
    <3> QED
      BY <3>1 DEF TypeOK, Begin
  <2>2. CASE p \notin Processes
    BY <2>2 DEF TypeOK, Begin
  <2> QED
    BY <2>1, <2>2
<1> QED
  BY <1>1 DEF TypeOK, Begin

LEMMA DatabaseTypes ==
  ASSUME TypeOK, NEW p \in Processes, DatabaseStep(p) \/ SyncFails(p)
  PROVE  TypeOK'
<1>1. entry[p] \in Entries /\ entry[p].read \in Info
      /\ entry[p].mutations \in [Outcomes -> Nat]
  BY DEF TypeOK, Entries, None
<1>2. CASE Get(p)
  <2>1. entry' \in [Processes -> Entries]
    BY <1>1, <1>2, EntryIs DEF Get, TypeOK
  <2> QED
    BY <1>2, <2>1 DEF Get, TypeOK
<1>3. CASE Update(p)
  <2>1. entry' \in [Processes -> Entries] /\ row' \in Info
    <3>1. CASE ReadsOnly(p) /\ Synced(p, entry[p].read, None) /\ UNCHANGED row
      BY <3>1, <1>1, SyncedTypes DEF TypeOK
    <3>2. CASE row' = Written(p) /\ Synced(p, Written(p), None)
      BY <3>2, WrittenIs, SyncedTypes
    <3>3. CASE entry' = [entry EXCEPT ![p] = [@ EXCEPT !.sync = "get"]] /\ UNCHANGED row
      BY <1>1, <3>3, EntryIs, NewNodeIs DEF TypeOK
    <3> QED
      BY <1>3, <3>1, <3>2, <3>3 DEF Update
  <2> QED
    BY <1>3, <2>1 DEF Update, TypeOK
<1>4. CASE SyncFails(p)
  <2>1. entry' \in [Processes -> Entries]
    BY <1>4, NewNodeIs, SyncedTypes DEF SyncFails
  <2>2. row' \in Info /\ lost' \in [Outcomes -> Nat]
    BY <1>1, <1>4, WrittenIs, PlusIs DEF SyncFails, TypeOK
  <2>3. faults' \in Nat
    BY <1>4, SMT DEF SyncFails, Fault, TypeOK
  <2> QED
    BY <1>4, <2>1, <2>2, <2>3 DEF SyncFails, TypeOK
<1> QED
  BY <1>2, <1>3, <1>4 DEF DatabaseStep

LEMMA AuditTypes ==
  ASSUME TypeOK, NEW c \in Calls,
         AuditStep(c) \/ DecideFails(c) \/ RequestCanceled(c) \/ Retry(c)
  PROVE  TypeOK'
<1> DEFINE p == call[c].process
<1>1. /\ call[c] \in CallStates /\ p \in Processes \union {None}
      /\ call[c].status \in Statuses /\ call[c].answer \in Statuses
      /\ call[c].tries \in Nat /\ call[c].outcome \in Outcomes \union {None}
  BY DEF TypeOK, CallStates, None
<1>2. CASE Lock(c)
  <2>1. entry' \in [Processes -> Entries]
    <3>1. PICK sync \in {"get", "done"} :
            entry' = [entry EXCEPT ![p] = [@ EXCEPT !.holder = c, !.sync = sync]]
      BY <1>2 DEF Lock
    <3>2. CASE p \in Processes
      BY <3>1, <3>2, EntryIs, NewNodeIs DEF TypeOK
    <3>3. CASE p \notin Processes
      BY <3>1, <3>3 DEF TypeOK
    <3> QED
      BY <3>2, <3>3
  <2>2. call' \in [Calls -> CallStates]
    BY <1>2, StepTypes DEF Lock
  <2> QED
    BY <1>2, <2>1, <2>2 DEF Lock, TypeOK
<1>3. CASE Refuse(c)
  <2>1. entry' \in [Processes -> Entries]
    BY <1>3, UnlockedIs DEF Refuse, TypeOK
  <2>2. call' \in [Calls -> CallStates]
    BY <1>3, StepTypes DEF Refuse
  <2> QED
    BY <1>3, <2>1, <2>2 DEF Refuse, TypeOK
<1>4. CASE Record(c)
  <2> DEFINE result == One(call[c].outcome)
  <2>1. result \in [Outcomes -> Nat]
    BY OneIs
  <2>2. recorded' \in [Outcomes -> Nat]
    BY <1>4, <2>1, PlusIs DEF Record, TypeOK
  <2>3. entry' \in [Processes -> Entries]
    <3>1. CASE p \in Processes
      <4>1. entry[p] \in Entries /\ entry[p].info \in Info
            /\ entry[p].mutations \in [Outcomes -> Nat]
        BY <3>1 DEF TypeOK, Entries, None
      <4>2. Estimate(c) \in Info /\ Plus(entry[p].mutations, result) \in [Outcomes -> Nat]
        BY <2>1, <4>1, AfterIs, PlusIs DEF Estimate
      <4> DEFINE e == [entry[p] EXCEPT !.mutations = Plus(entry[p].mutations, result),
                                       !.info = Estimate(c)]
      <4>3. e \in Entries
        <5> HIDE DEF result
        <5> QED
          BY <4>1, <4>2 DEF Entries, None
      <4>4. Unlocked(e) \in Entries
        BY <4>3, UnlockedIs
      <4>5. entry' = [entry EXCEPT ![p] = Unlocked(e)]
        BY <1>4 DEF Record, AfterRecord
      <4> QED
        BY <4>4, <4>5 DEF TypeOK
    <3>2. CASE p \notin Processes
      BY <1>4, <3>2 DEF Record, TypeOK
    <3> QED
      BY <3>1, <3>2
  <2>4. call' \in [Calls -> CallStates]
    <3>1. Status(Estimate(c)) \in Statuses /\ NewlyVetted(c) \in BOOLEAN
      BY DEF Status, Estimate, After, Statuses, AuditScoreLow,
             UnknownScoreLow, AtMost, NewlyVetted
    <3>2. [call[c] EXCEPT !.pc = IF WantsSync(c) THEN "request" ELSE "decide",
                          !.answer = Status(Estimate(c)),
                          !.newly = NewlyVetted(c)] \in CallStates
      BY <1>1, <3>1 DEF CallStates, None
    <3> QED
      BY <1>4, <3>2 DEF Record, TypeOK
  <2> QED
    BY <1>4, <2>2, <2>3, <2>4 DEF Record, TypeOK
<1>5. CASE Decide(c)
  <2>1. nodes' \in Statuses
    BY <1>1, <1>5 DEF Decide, TypeOK
  <2>2. [Idle EXCEPT !.pc = "done", !.answer = call[c].answer] \in CallStates
    BY <1>1, IdleIs DEF CallStates, Away, None
  <2> QED
    BY <1>5, <2>1, <2>2 DEF Decide, TypeOK
<1>6. CASE DecideFails(c)
  <2>1. nodes' \in Statuses
    BY <1>1, <1>6 DEF DecideFails, TypeOK
  <2>2. call' \in [Calls -> CallStates]
    BY <1>6, StepTypes DEF DecideFails
  <2>3. faults' \in Nat
    BY <1>6, SMT DEF DecideFails, Fault, TypeOK
  <2> QED
    BY <1>6, <2>1, <2>2, <2>3 DEF DecideFails, TypeOK
<1>7. CASE Retry(c)
  BY <1>1, <1>7, RetryIs, BeginTypes
<1>8. CASE DecideCanceled(c)
  BY <1>8, StepTypes DEF DecideCanceled, TypeOK
<1>9. CASE RequestCanceled(c)
  <2>1. [call[c] EXCEPT !.pc = "decide", !.canceled = TRUE] \in CallStates
    BY <1>1 DEF CallStates
  <2>2. faults' \in Nat
    BY <1>9, SMT DEF RequestCanceled, Fault, TypeOK
  <2> QED
    BY <1>9, <2>1, <2>2 DEF RequestCanceled, TypeOK
<1> QED
  BY <1>2, <1>3, <1>4, <1>5, <1>6, <1>7, <1>8, <1>9 DEF AuditStep

LEMMA ManagerTypes ==
  ASSUME TypeOK, NEW p \in Processes, ManagerStep(p) \/ Restart(p)
  PROVE  TypeOK'
<1>1. /\ entry[p] \in Entries /\ entry[p].mutations \in [Outcomes -> Nat]
      /\ manager[p] \in Managers /\ manager[p].request \in Calls \union {None}
  BY DEF TypeOK, Entries, Managers, None
<1>2. CASE TimerFires(p)
  <2>1. [manager[p] EXCEPT !.pc = "lock", !.timer = FALSE] \in Managers
    BY <1>1 DEF Managers, None
  <2> QED
    BY <1>2, <2>1 DEF TimerFires, TypeOK
<1>3. CASE ManagerLocks(p)
  <2>1. [manager[p] EXCEPT !.pc = "sync"] \in Managers
    BY <1>1 DEF Managers, None
  <2>2. [entry[p] EXCEPT !.holder = "manager", !.sync = "get"] \in Entries
    BY <1>1, EntryIs, NewNodeIs
  <2> QED
    BY <1>3, <2>1, <2>2 DEF ManagerLocks, TypeOK
<1>4. CASE ManagerUnlocks(p)
  <2>1. Unlocked(entry[p]) \in Entries
    BY <1>1, UnlockedIs
  <2>2. call' \in [Calls -> CallStates]
    <3>1. ASSUME NEW d \in Calls PROVE [call[d] EXCEPT !.pc = "decide"] \in CallStates
      BY DEF TypeOK, CallStates
    <3> QED
      BY <1>4, <3>1 DEF ManagerUnlocks, TypeOK
  <2> QED
    BY <1>4, <2>1, <2>2, SelectingIs DEF ManagerUnlocks, Again, TypeOK
<1>5. CASE \E c \in Calls : call[c].process = p /\ ReceiveRequest(c)
  <2>1. PICK c \in Calls : call[c].process = p /\ ReceiveRequest(c)
    BY <1>5
  <2>2. [manager[p] EXCEPT !.pc = "lock", !.request = c] \in Managers
    BY <1>1 DEF Managers, None
  <2>3. call' \in [Calls -> CallStates]
    BY <2>1, StepTypes DEF ReceiveRequest
  <2> QED
    BY <2>1, <2>2, <2>3 DEF ReceiveRequest, TypeOK
<1>6. CASE Restart(p)
  <2>1. [Idle EXCEPT !.pc = "stopped"] \in CallStates
    BY IdleIs DEF CallStates, Away, None
  <2>2. call' \in [Calls -> CallStates]
    BY <1>6, <2>1 DEF Restart, TypeOK
  <2>3. lost' \in [Outcomes -> Nat]
    BY <1>1, <1>6, PlusIs DEF Restart, TypeOK
  <2>4. faults' \in Nat
    BY <1>6, SMT DEF Restart, Fault, TypeOK
  <2> QED
    BY <1>6, <2>2, <2>3, <2>4, NoEntryIs, SelectingIs DEF Restart, TypeOK
<1> QED
  BY <1>2, <1>3, <1>4, <1>5, <1>6 DEF ManagerStep

LEMMA NextTypes == TypeOK /\ [Next]_vars => TypeOK'
<1> SUFFICES ASSUME TypeOK, [Next]_vars PROVE TypeOK'
  OBVIOUS
<1>1. CASE UNCHANGED vars
  BY <1>1 DEF vars, TypeOK
<1>2. ASSUME NEW c \in Calls, NEW p \in ProcessesOf[c], NEW o \in Reported,
             BeginAudit(c, p, o)
      PROVE  TypeOK'
  <2>1. p \in Processes /\ o \in Outcomes
    BY ReputationAssumption
  <2> QED
    BY <1>2, <2>1, BeginAuditIs, BeginTypes
<1>3. ASSUME NEW c \in Calls,
             AuditStep(c) \/ DecideFails(c) \/ RequestCanceled(c) \/ Retry(c)
      PROVE  TypeOK'
  BY <1>3, AuditTypes
<1>4. ASSUME NEW p \in Processes,
             DatabaseStep(p) \/ SyncFails(p) \/ ManagerStep(p) \/ Restart(p)
      PROVE  TypeOK'
  BY <1>4, DatabaseTypes, ManagerTypes
<1>5. CASE ExitFinishes
  BY <1>5 DEF ExitFinishes, TypeOK
<1> QED
  BY <1>1, <1>2, <1>3, <1>4, <1>5 DEF Next

\* Every entry, call and row keeps the shape the code gives it: a manager's
\* request is one of a call, an entry is held by the manager or a call.
THEOREM TypeCorrect == Spec => []TypeOK
  BY InitTypes, NextTypes, PTL DEF Spec
-----------------------------------------------------------------------------
\* A step of a call keeps its status and its answer, and the other calls.
LEMMA StepKeeps ==
  ASSUME TypeOK, NEW c \in Calls, NEW pc, Step(c, pc), NEW d \in Calls
  PROVE  call'[d].status = call[d].status
<1>1. call[c] \in CallStates
  BY DEF TypeOK
<1>2. [call[c] EXCEPT !.pc = pc].status = call[c].status
  BY <1>1 DEF CallStates
<1> QED
  BY <1>2 DEF Step, TypeOK

\* So does the manager that answers one, and one whose wait is ended.
LEMMA ChangeKeeps ==
  ASSUME TypeOK, NEW d \in Calls
  PROVE  /\ [call[d] EXCEPT !.pc = "decide"].status = call[d].status
         /\ [call[d] EXCEPT !.pc = "decide", !.canceled = TRUE].status = call[d].status
         /\ [call[d] EXCEPT !.pc = "decide"].pc = "decide"
         /\ [call[d] EXCEPT !.pc = "decide", !.canceled = TRUE].pc = "decide"
         /\ [call[d] EXCEPT !.pc = "decide"].process = call[d].process
         /\ [call[d] EXCEPT !.pc = "decide", !.canceled = TRUE].process = call[d].process
<1>1. call[d] \in CallStates
  BY DEF TypeOK
<1> QED
  BY <1>1 DEF CallStates

LEMMA BeginKeepsClear ==
  ASSUME TypeOK, StatusClear, NEW c \in Calls, NEW p, NEW z, Begin(c, p, z), Begins(z, p)
  PROVE  StatusClear'
  BY DEF Begin, Begins, StatusClear, TypeOK

\* No call goes on with a status that is disqualified.
LEMMA StatusKept ==
  ASSUME TypeOK, StatusClear, [Next]_vars
  PROVE  StatusClear'
<1> SUFFICES ASSUME NEW d \in Calls PROVE ~call'[d].status.disqualified
  BY DEF StatusClear
<1>1. CASE call' = call
  BY <1>1 DEF StatusClear
<1>2. ASSUME NEW c \in Calls, NEW pc, Step(c, pc)
      PROVE  ~call'[d].status.disqualified
  BY <1>2, StepKeeps DEF StatusClear
<1>3. ASSUME NEW c \in Calls, Record(c) PROVE ~call'[d].status.disqualified
  <2>1. call[c] \in CallStates
    BY DEF TypeOK
  <2>2. ASSUME NEW pc, NEW answer, NEW newly
        PROVE [call[c] EXCEPT !.pc = pc, !.answer = answer, !.newly = newly].status
                = call[c].status
    BY <2>1 DEF CallStates
  <2>3. call'[d].status = call[d].status
    BY <1>3, <2>2 DEF Record, TypeOK
  <2> QED
    BY <2>3 DEF StatusClear
<1>4. ASSUME NEW c \in Calls, Decide(c) PROVE ~call'[d].status.disqualified
  BY <1>4 DEF Decide, TypeOK, StatusClear, Idle, Status, NewNode
<1>5. ASSUME NEW c \in Calls, NEW p \in ProcessesOf[c], NEW o \in Reported,
             BeginAudit(c, p, o)
      PROVE  ~call'[d].status.disqualified
  <2>1. p \in Processes /\ o \in Outcomes
    BY ReputationAssumption
  <2>2. StatusClear'
    BY <1>5, <2>1, BeginAuditIs, BeginKeepsClear
  <2> QED
    BY <2>2 DEF StatusClear
<1>6. ASSUME NEW c \in Calls, Retry(c) PROVE ~call'[d].status.disqualified
  <2>1. StatusClear'
    BY <1>6, RetryIs, BeginKeepsClear
  <2> QED
    BY <2>1 DEF StatusClear
<1>7. ASSUME NEW c \in Calls, AuditStep(c) \/ DecideFails(c) \/ RequestCanceled(c)
      PROVE  ~call'[d].status.disqualified
  <2>1. CASE RequestCanceled(c)
    BY <2>1, ChangeKeeps DEF RequestCanceled, TypeOK, StatusClear
  <2> QED
    BY <1>2, <1>3, <1>4, <1>7, <2>1
    DEF AuditStep, Lock, Refuse, DecideFails, DecideCanceled
<1>8. ASSUME NEW p \in Processes, ManagerStep(p)
      PROVE  ~call'[d].status.disqualified
  <2>1. CASE ManagerUnlocks(p)
    BY <2>1, ChangeKeeps DEF ManagerUnlocks, StatusClear
  <2>2. CASE TimerFires(p) \/ ManagerLocks(p)
    BY <1>1, <2>2 DEF TimerFires, ManagerLocks
  <2>3. CASE \E c \in Calls : call[c].process = p /\ ReceiveRequest(c)
    BY <1>2, <2>3 DEF ReceiveRequest
  <2> QED
    BY <1>8, <2>1, <2>2, <2>3 DEF ManagerStep
<1>9. ASSUME NEW p \in Processes, Restart(p) PROVE ~call'[d].status.disqualified
  BY <1>9 DEF Restart, StatusClear, Idle, Status, NewNode
<1>10. ASSUME NEW p \in Processes, DatabaseStep(p) \/ SyncFails(p)
       PROVE  ~call'[d].status.disqualified
  BY <1>1, <1>10 DEF DatabaseStep, Get, Update, SyncFails
<1>11. CASE ExitFinishes
  BY <1>1, <1>11 DEF ExitFinishes
<1>12. CASE UNCHANGED vars
  BY <1>1, <1>12 DEF vars
<1> QED
  BY <1>5, <1>6, <1>7, <1>8, <1>9, <1>10, <1>11, <1>12 DEF Next

\* The overlay takes back neither a disqualification nor the end of an exit.
LEMMA GoneForGood ==
  ASSUME [Next]_vars
  PROVE  /\ nodes.disqualified => nodes'.disqualified
         /\ exited => exited'
<1>1. CASE UNCHANGED vars
  BY <1>1 DEF vars
<1>2. ASSUME NEW c \in Calls, NEW p, NEW z, Begin(c, p, z) PROVE UNCHANGED <<nodes, exited>>
  BY <1>2 DEF Begin
<1>3. ASSUME NEW c \in Calls, NEW p, NEW o, BeginAudit(c, p, o) \/ Retry(c)
      PROVE  UNCHANGED <<nodes, exited>>
  <2>1. ASSUME NEW q, NEW x, ReadStatus(c, q, x) PROVE UNCHANGED <<nodes, exited>>
    BY <1>2, <2>1 DEF ReadStatus
  <2> QED
    BY <1>2, <1>3, <2>1 DEF BeginAudit, Retry
<1>4. ASSUME NEW c \in Calls, Decide(c) \/ DecideFails(c)
      PROVE  UNCHANGED exited /\ (nodes.disqualified => nodes' = nodes)
  BY <1>4 DEF Decide, DecideFails, Updates
<1>5. ASSUME NEW c \in Calls, AuditStep(c) \/ RequestCanceled(c), ~Decide(c)
      PROVE  UNCHANGED <<nodes, exited>>
  BY <1>5 DEF AuditStep, Lock, Refuse, Record, DecideCanceled, RequestCanceled
<1>6. ASSUME NEW p \in Processes,
             DatabaseStep(p) \/ SyncFails(p) \/ ManagerStep(p) \/ Restart(p)
      PROVE  UNCHANGED <<nodes, exited>>
  BY <1>6 DEF DatabaseStep, Get, Update, SyncFails, ManagerStep,
     TimerFires, ManagerLocks, ManagerUnlocks, ReceiveRequest, Restart
<1>7. CASE ExitFinishes
  BY <1>7 DEF ExitFinishes
<1> QED
  BY <1>1, <1>3, <1>4, <1>5, <1>6, <1>7 DEF Next

\* A call is done by Decide, or without an answer.
LEMMA DoneIs ==
  ASSUME TypeOK, [Next]_vars, NEW c \in Calls, call'[c].pc = "done"
  PROVE  call'[c] = call[c] \/ ~call'[c].answer.disqualified \/ Decide(c)
<1> DEFINE Goal == call'[c] = call[c] \/ ~call'[c].answer.disqualified \/ Decide(c)
<1>1. CASE call' = call
  BY <1>1
<1>2. ASSUME NEW d \in Calls, NEW pc, pc # "done", Step(d, pc) PROVE Goal
  <2>1. CASE c = d
    <3>1. call[c] \in CallStates
      BY DEF TypeOK
    <3>2. [call[c] EXCEPT !.pc = pc].pc = pc
      BY <3>1 DEF CallStates
    <3> QED
      BY <1>2, <2>1, <3>2 DEF Step, TypeOK
  <2> QED
    BY <1>2, <2>1 DEF Step, TypeOK
<1>3. ASSUME NEW d \in Calls, Record(d) PROVE Goal
  <2>1. CASE c = d
    <3>1. call[c] \in CallStates
      BY DEF TypeOK
    <3>2. ASSUME NEW pc, NEW answer, NEW newly
          PROVE [call[c] EXCEPT !.pc = pc, !.answer = answer, !.newly = newly].pc = pc
      BY <3>1 DEF CallStates
    <3>3. call'[c].pc = IF WantsSync(c) THEN "request" ELSE "decide"
      BY <1>3, <2>1, <3>2 DEF Record, TypeOK
    <3> QED
      BY <3>3
  <2> QED
    BY <1>3, <2>1 DEF Record, TypeOK
<1>4. ASSUME NEW d \in Calls, Decide(d) PROVE Goal
  BY <1>4 DEF Decide, TypeOK
<1>5. ASSUME NEW d \in Calls, NEW p, NEW z, Begin(d, p, z), Begins(z, p)
      PROVE  Goal
  BY <1>5 DEF Begin, Begins, TypeOK
<1>6. ASSUME NEW d \in Calls, NEW p \in ProcessesOf[d], NEW o \in Reported,
             BeginAudit(d, p, o)
      PROVE  Goal
  <2>1. p \in Processes /\ o \in Outcomes
    BY ReputationAssumption
  <2> QED
    BY <1>5, <1>6, <2>1, BeginAuditIs
<1>7. ASSUME NEW d \in Calls, Retry(d) PROVE Goal
  BY <1>5, <1>7, RetryIs
<1>8. ASSUME NEW d \in Calls, AuditStep(d) \/ DecideFails(d) \/ RequestCanceled(d) PROVE Goal
  <2>1. CASE RequestCanceled(d)
    BY <2>1, ChangeKeeps DEF RequestCanceled, TypeOK
  <2> QED
    BY <1>2, <1>3, <1>4, <1>8, <2>1
    DEF AuditStep, Lock, Refuse, DecideFails, DecideCanceled
<1>9. ASSUME NEW p \in Processes, ManagerStep(p) PROVE Goal
  <2>1. CASE ManagerUnlocks(p)
    BY <2>1, ChangeKeeps DEF ManagerUnlocks
  <2>2. CASE TimerFires(p) \/ ManagerLocks(p)
    BY <1>1, <2>2 DEF TimerFires, ManagerLocks
  <2>3. CASE \E d \in Calls : call[d].process = p /\ ReceiveRequest(d)
    BY <1>2, <2>3 DEF ReceiveRequest
  <2> QED
    BY <1>9, <2>1, <2>2, <2>3 DEF ManagerStep
<1>10. ASSUME NEW p \in Processes, Restart(p) PROVE Goal
  BY <1>10 DEF Restart, Idle, Status, NewNode
<1>11. ASSUME NEW p \in Processes, DatabaseStep(p) \/ SyncFails(p) PROVE Goal
  BY <1>1, <1>11 DEF DatabaseStep, Get, Update, SyncFails
<1>12. CASE UNCHANGED vars
  BY <1>1, <1>12 DEF vars
<1>13. CASE ExitFinishes
  BY <1>1, <1>13 DEF ExitFinishes
<1>14. CASE Next
  BY <1>6, <1>7, <1>8, <1>9, <1>10, <1>11, <1>13, <1>14 DEF Next
<1> QED
  BY <1>12, <1>14

LEMMA NextTold ==
  ASSUME TypeOK, StatusClear, DisqualificationTold, [Next]_vars
  PROVE  DisqualificationTold'
<1> SUFFICES ASSUME NEW c \in Calls, call'[c].pc = "done", call'[c].answer.disqualified
             PROVE  nodes'.disqualified \/ exited'
  BY DEF DisqualificationTold
<1>1. CASE call'[c] = call[c]
  BY <1>1, GoneForGood DEF DisqualificationTold
<1>2. CASE Decide(c)
  <2>1. call'[c].answer = call[c].answer
    BY <1>2 DEF Decide, TypeOK, Idle
  <2>2. ~call[c].status.disqualified
    BY DEF StatusClear
  <2>3. \A recent \in BOOLEAN : Changed(c, recent)
    BY <2>1, <2>2 DEF Changed
  <2> QED
    BY <1>2, <2>1, <2>3 DEF Decide, Updates
<1> QED
  BY <1>1, <1>2, DoneIs

\* Once a call has returned that found the node disqualified, the overlay says so
\* for good or counts the node as exited (DisqualificationTold), whatever the
\* caches of other processes estimate, however late their calls write, and whether
\* a time limit or the end of the node's exit falls between the steps of the call.
THEOREM ToldCorrect == Spec => []DisqualificationTold
<1>1. Init => StatusClear /\ DisqualificationTold
  BY DEF Init, StatusClear, DisqualificationTold, Idle, Status, NewNode
<1>2. TypeOK /\ StatusClear /\ DisqualificationTold /\ [Next]_vars
        => StatusClear' /\ DisqualificationTold'
  BY StatusKept, NextTold
<1> QED
  BY <1>1, <1>2, TypeCorrect, PTL DEF Spec
-----------------------------------------------------------------------------
(* Accounts.  A write of the row adds the mutations to what was read, and goes *)
(* through only if the row has as many results as when it was read.  Rows only *)
(* grow, so it is then the same row, and no result is undone or counted twice. *)

Held(es, o) == [p \in Processes |-> es[p].mutations[o]]

LEMMA CachedIs ==
  ASSUME NEW o
  PROVE  /\ Cached(o) = SumFunctionOnSet(Held(entry, o), Processes)
         /\ Cached(o)' = SumFunctionOnSet(Held(entry', o), Processes)
BY DEF Cached, SumFunction, Held

LEMMA MutationsAre ==
  ASSUME TypeOK, NEW p \in Processes
  PROVE  entry[p] \in Entries /\ entry[p].mutations \in [Outcomes -> Nat]
BY DEF TypeOK, Entries

LEMMA HeldIs ==
  ASSUME TypeOK, NEW o \in Outcomes
  PROVE  /\ IsFiniteSet(Processes)
         /\ \A p \in Processes : /\ Held(entry, o)[p] = entry[p].mutations[o]
                                 /\ entry[p].mutations[o] \in Nat
         /\ Cached(o) \in Nat
<1>1. \A p \in Processes : /\ Held(entry, o)[p] = entry[p].mutations[o]
                           /\ entry[p].mutations[o] \in Nat
  BY MutationsAre DEF Held
<1> QED
  BY <1>1, CachedIs, SumNat, ReputationAssumption

LEMMA CachedSame ==
  ASSUME TypeOK, \A p \in Processes : entry'[p].mutations = entry[p].mutations,
         NEW o \in Outcomes
  PROVE  Cached(o)' = Cached(o)
<1>1. \A p \in Processes : Held(entry', o)[p] = Held(entry, o)[p]
  BY DEF Held
<1> QED
  BY <1>1, CachedIs, SumEqual, ReputationAssumption

LEMMA CachedOne ==
  ASSUME TypeOK, NEW p \in Processes, NEW e, e.mutations \in [Outcomes -> Nat],
         entry' = [entry EXCEPT ![p] = e], NEW o \in Outcomes
  PROVE  Cached(o)' = Cached(o) - entry[p].mutations[o] + e.mutations[o]
<1>1. PICK f : f = Held(entry, o)
  OBVIOUS
<1>2. PICK g : g = Held(entry', o)
  OBVIOUS
<1>3. /\ g[p] = e.mutations[o] /\ g[p] \in Int
      /\ \A q \in Processes : q # p => g[q] = f[q]
  BY <1>1, <1>2 DEF Held, TypeOK
<1>4. f[p] = entry[p].mutations[o] /\ \A q \in Processes : f[q] \in Int
  BY <1>1, HeldIs
<1>5. SumFunctionOnSet(g, Processes) = SumFunctionOnSet(f, Processes) - f[p] + g[p]
  BY <1>3, <1>4, SumUpdate, ReputationAssumption
<1> QED
  BY <1>1, <1>2, <1>3, <1>4, <1>5, CachedIs

\* What a holder read is an earlier version of the row.
ReadsEarlier ==
  \A p \in Processes : entry[p].sync = "write" =>
      \A o \in Outcomes : entry[p].read.results[o] <= row.results[o]

\* A call that is under way is one of a process.
CallsSomewhere == \A c \in Calls : call[c].pc \notin Away => call[c].process \in Processes

LEMMA SameRow ==
  ASSUME TypeOK, ReadsEarlier, NEW p \in Processes, entry[p].sync = "write",
         UnchangedSince(entry[p].read)
  PROVE  entry[p].read.results = row.results
<1>1. PICK r : r = entry[p].read.results
  OBVIOUS
<1>2. PICK s : s = row.results
  OBVIOUS
<1>3. r \in [Outcomes -> Nat] /\ s \in [Outcomes -> Nat]
  <2>1. entry[p].read \in Info /\ row \in Info
    BY DEF TypeOK, Entries
  <2> QED
    BY <1>1, <1>2, <2>1 DEF Info
<1>4. /\ r["success"] <= s["success"] /\ r["failure"] <= s["failure"]
      /\ r["unknown"] <= s["unknown"] /\ r["offline"] <= s["offline"]
  BY <1>1, <1>2 DEF ReadsEarlier, Outcomes
<1>5. r["success"] + r["failure"] + r["unknown"] + r["offline"]
        = s["success"] + s["failure"] + s["unknown"] + s["offline"]
  BY <1>1, <1>2 DEF UnchangedSince, Total
<1>6. /\ r["success"] \in Nat /\ r["failure"] \in Nat /\ r["unknown"] \in Nat /\ r["offline"] \in Nat
      /\ s["success"] \in Nat /\ s["failure"] \in Nat /\ s["unknown"] \in Nat /\ s["offline"] \in Nat
  BY <1>3 DEF Outcomes
<1>7. /\ r["success"] = s["success"] /\ r["failure"] = s["failure"]
      /\ r["unknown"] = s["unknown"] /\ r["offline"] = s["offline"]
  BY <1>4, <1>5, <1>6
<1>8. \A o \in Outcomes : r[o] = s[o]
  BY <1>7 DEF Outcomes
<1> QED
  BY <1>1, <1>2, <1>3, <1>8

\* A write adds the mutations.
LEMMA WrittenAdds ==
  ASSUME TypeOK, ReadsEarlier, NEW p \in Processes, entry[p].sync = "write",
         UnchangedSince(entry[p].read), NEW o \in Outcomes
  PROVE  /\ Written(p).results[o] = row.results[o] + entry[p].mutations[o]
         /\ row.results[o] \in Nat /\ entry[p].mutations[o] \in Nat
<1>1. Written(p).results = Plus(row.results, entry[p].mutations)
  BY SameRow DEF Written, After
<1>2. row \in Info
  BY DEF TypeOK
<1> QED
  BY <1>1, <1>2, MutationsAre DEF Plus, Info

\* Entries whose mutations stay, whatever else becomes of them.
LEMMA QuietStep ==
  ASSUME TypeOK, ReadsEarlier, ResultsAccounted, UNCHANGED <<row, recorded, lost>>,
         \A p \in Processes :
            /\ entry'[p].mutations = entry[p].mutations
            /\ \/ entry'[p].sync # "write" \/ entry'[p].read = row
               \/ entry'[p].sync = entry[p].sync /\ entry'[p].read = entry[p].read
  PROVE  ReadsEarlier' /\ ResultsAccounted'
<1>1. \A o \in Outcomes : row.results[o] <= row.results[o]
  <2>1. \A o \in Outcomes : row.results[o] \in Nat
    BY DEF TypeOK, Info
  <2> QED
    BY <2>1
<1>2. ReadsEarlier'
  BY <1>1 DEF ReadsEarlier
<1>3. ResultsAccounted'
  BY CachedSame DEF ResultsAccounted
<1> QED
  BY <1>2, <1>3

\* Results move between an entry, the row and what is lost, or are added.
LEMMA FlowStep ==
  ASSUME TypeOK, ReadsEarlier, ResultsAccounted, NEW p \in Processes,
         NEW e, e.mutations \in [Outcomes -> Nat], e.sync # "write",
         entry' = [entry EXCEPT ![p] = e],
         \A o \in Outcomes :
            /\ recorded'[o] \in Nat /\ row'.results[o] \in Nat /\ lost'[o] \in Nat
            /\ row'.results[o] >= row.results[o]
            /\ row'.results[o] + lost'[o] + e.mutations[o] + recorded[o]
                  = row.results[o] + lost[o] + entry[p].mutations[o] + recorded'[o]
  PROVE  ReadsEarlier' /\ ResultsAccounted'
<1>1. ReadsEarlier'
  <2> SUFFICES ASSUME NEW q \in Processes, entry'[q].sync = "write", NEW o \in Outcomes
               PROVE  entry'[q].read.results[o] <= row'.results[o]
    BY DEF ReadsEarlier
  <2>1. entry'[q] = entry[q]
    BY DEF TypeOK
  <2>2. entry[q].read.results[o] \in Nat /\ row.results[o] \in Nat
    BY DEF TypeOK, Entries, Info
  <2>3. entry[q].read.results[o] <= row.results[o] /\ row'.results[o] >= row.results[o]
        /\ row'.results[o] \in Nat
    BY <2>1 DEF ReadsEarlier
  <2> QED
    BY <2>1, <2>2, <2>3
<1>2. ResultsAccounted'
  <2> SUFFICES ASSUME NEW o \in Outcomes
               PROVE  recorded'[o] = row'.results[o] + Cached(o)' + lost'[o]
    BY DEF ResultsAccounted
  <2>1. PICK held : held = entry[p].mutations[o]
    OBVIOUS
  <2>2. PICK waits : waits = e.mutations[o]
    OBVIOUS
  <2>3. PICK cached : cached = Cached(o)
    OBVIOUS
  <2>4. Cached(o)' = cached - held + waits
    BY <2>1, <2>2, <2>3, CachedOne
  <2>5. recorded[o] = row.results[o] + cached + lost[o]
    BY <2>3 DEF ResultsAccounted
  <2>6. /\ recorded[o] \in Nat /\ row.results[o] \in Nat /\ lost[o] \in Nat
        /\ cached \in Nat /\ held \in Nat /\ waits \in Nat
    BY <2>1, <2>2, <2>3, HeldIs DEF TypeOK, Info
  <2>7. /\ recorded'[o] \in Nat /\ row'.results[o] \in Nat /\ lost'[o] \in Nat
        /\ row'.results[o] + lost'[o] + waits + recorded[o]
              = row.results[o] + lost[o] + held + recorded'[o]
    BY <2>1, <2>2
  <2>8. recorded'[o] = row'.results[o] + (cached - held + waits) + lost'[o]
    BY ONLY <2>5, <2>6, <2>7
  <2> QED
    BY <2>4, <2>8
<1> QED
  BY <1>1, <1>2

\* One call goes on.
LEMMA CallStep ==
  ASSUME TypeOK, CallsSomewhere, NEW c \in Calls, NEW x,
         call' = [call EXCEPT ![c] = x], x.pc \notin Away => x.process \in Processes
  PROVE  CallsSomewhere'
BY DEF CallsSomewhere, TypeOK

LEMMA PcStep ==
  ASSUME TypeOK, CallsSomewhere, NEW c \in Calls, call[c].pc \notin Away, NEW pc, Step(c, pc)
  PROVE  CallsSomewhere'
<1>1. PICK x : x = [call[c] EXCEPT !.pc = pc]
  OBVIOUS
<1>2. call[c] \in CallStates
  BY DEF TypeOK
<1>3. x.process = call[c].process
  BY <1>1, <1>2 DEF CallStates
<1>4. call[c].process \in Processes
  BY DEF CallsSomewhere
<1>5. call' = [call EXCEPT ![c] = x]
  BY <1>1 DEF Step
<1> QED
  BY <1>3, <1>4, <1>5, CallStep

LEMMA SameCalls == CallsSomewhere /\ call' = call => CallsSomewhere'
BY DEF CallsSomewhere

AccountInv == ReadsEarlier /\ ResultsAccounted /\ CallsSomewhere

LEMMA BeginAccounts ==
  ASSUME TypeOK, AccountInv, NEW c \in Calls, NEW p \in Processes, NEW z,
         Begin(c, p, z), Begins(z, p)
  PROVE  AccountInv'
<1>1. PICK e : e = [entry[p] EXCEPT !.there = entry[p].there \/ z.pc = "entry"]
  OBVIOUS
<1>2. /\ entry' = [entry EXCEPT ![p] = e] /\ call' = [call EXCEPT ![c] = z]
      /\ UNCHANGED <<row, recorded, lost>>
  BY <1>1 DEF Begin
<1>3. /\ e.mutations = entry[p].mutations /\ e.sync = entry[p].sync
      /\ e.read = entry[p].read
  BY <1>1, MutationsAre DEF Entries
<1>4. \A q \in Processes : /\ entry'[q].mutations = entry[q].mutations
                           /\ entry'[q].sync = entry[q].sync
                           /\ entry'[q].read = entry[q].read
  BY <1>2, <1>3 DEF TypeOK
<1>5. z.pc \notin Away => z.process \in Processes
  BY DEF Begins, Away
<1> QED
  BY <1>2, <1>4, <1>5, QuietStep, CallStep DEF AccountInv

\* The holder of an entry synchronises it.
LEMMA SyncedKeeps ==
  ASSUME TypeOK, AccountInv, NEW p \in Processes, NEW info, NEW error, Synced(p, info, error),
         \/ row' = row /\ lost' = Plus(lost, entry[p].mutations)
         \/ row' = row /\ lost' = lost /\ entry[p].mutations = NoResults
         \/ /\ row' = Written(p) /\ lost' = lost /\ entry[p].sync = "write"
            /\ UnchangedSince(entry[p].read),
         UNCHANGED recorded
  PROVE  ReadsEarlier' /\ ResultsAccounted'
<1>1. PICK e : e = [entry[p] EXCEPT !.sync = "done", !.read = NewNode, !.info = info,
                                    !.error = error, !.mutations = NoResults]
  OBVIOUS
<1>2. entry' = [entry EXCEPT ![p] = e]
  BY <1>1 DEF Synced
<1>3. e.sync = "done" /\ e.mutations = NoResults
  BY <1>1, MutationsAre DEF Entries
<1>4. e.mutations \in [Outcomes -> Nat] /\ e.sync # "write"
  BY <1>3, NoResultsIs
<1>5. ASSUME NEW o \in Outcomes
      PROVE  /\ recorded'[o] \in Nat /\ row'.results[o] \in Nat /\ lost'[o] \in Nat
             /\ row'.results[o] >= row.results[o]
             /\ row'.results[o] + lost'[o] + e.mutations[o] + recorded[o]
                   = row.results[o] + lost[o] + entry[p].mutations[o] + recorded'[o]
  <2>1. PICK held : held = entry[p].mutations[o]
    OBVIOUS
  <2>2. PICK r : r = row.results[o]
    OBVIOUS
  <2>3. held \in Nat /\ r \in Nat /\ recorded[o] \in Nat /\ lost[o] \in Nat /\ recorded' = recorded
    BY <2>1, <2>2, HeldIs DEF TypeOK, Info
  <2>4. e.mutations[o] = 0
    BY <1>3 DEF NoResults
  <2>5. CASE row' = row /\ lost' = Plus(lost, entry[p].mutations)
    <3>1. lost'[o] = lost[o] + held /\ row'.results[o] = r
      BY <2>1, <2>2, <2>5 DEF Plus
    <3> QED
      BY <2>1, <2>2, <2>3, <2>4, <3>1
  <2>6. CASE row' = row /\ lost' = lost /\ entry[p].mutations = NoResults
    <3>1. held = 0 /\ row'.results[o] = r
      BY <2>1, <2>2, <2>6 DEF NoResults
    <3> QED
      BY <2>1, <2>2, <2>3, <2>4, <2>6, <3>1
  <2>7. CASE /\ row' = Written(p) /\ lost' = lost /\ entry[p].sync = "write"
             /\ UnchangedSince(entry[p].read)
    <3>1. row'.results[o] = r + held
      BY <2>1, <2>2, <2>7, WrittenAdds DEF AccountInv
    <3> QED
      BY <2>1, <2>2, <2>3, <2>4, <2>7, <3>1
  <2> QED
    BY <2>5, <2>6, <2>7
<1> QED
  BY <1>2, <1>4, <1>5, FlowStep DEF AccountInv

LEMMA DatabaseAccounts ==
  ASSUME TypeOK, AccountInv, NEW p \in Processes, DatabaseStep(p) \/ SyncFails(p)
  PROVE  AccountInv'
<1>1. CallsSomewhere'
  BY SameCalls DEF AccountInv, DatabaseStep, Get, Update, SyncFails
<1>2. UNCHANGED recorded
  BY DEF DatabaseStep, Get, Update, SyncFails
<1>3. CASE Get(p)
  <2>1. PICK e : e = [entry[p] EXCEPT !.read = row, !.sync = "write"]
    OBVIOUS
  <2>2. e.mutations = entry[p].mutations /\ e.read = row
    BY <2>1, MutationsAre DEF Entries
  <2>3. entry' = [entry EXCEPT ![p] = e] /\ UNCHANGED <<row, lost>>
    BY <1>3, <2>1 DEF Get
  <2>4. \A q \in Processes : /\ entry'[q].mutations = entry[q].mutations
                             /\ entry'[q] = entry[q] \/ entry'[q].read = row
    BY <2>2, <2>3 DEF TypeOK
  <2> QED
    BY <1>1, <1>2, <2>3, <2>4, QuietStep DEF AccountInv
<1>4. CASE Update(p)
  <2>0. entry[p].sync = "write" /\ UNCHANGED lost
    BY <1>4 DEF Update
  <2>1. CASE ReadsOnly(p) /\ Synced(p, entry[p].read, None) /\ UNCHANGED row
    BY <1>1, <1>2, <2>0, <2>1, SyncedKeeps DEF AccountInv, ReadsOnly
  <2>2. CASE UnchangedSince(entry[p].read) /\ row' = Written(p) /\ Synced(p, Written(p), None)
    BY <1>1, <1>2, <2>0, <2>2, SyncedKeeps DEF AccountInv
  <2>3. CASE entry' = [entry EXCEPT ![p] = [@ EXCEPT !.sync = "get"]] /\ UNCHANGED row
    <3>1. PICK e : e = [entry[p] EXCEPT !.sync = "get"]
      OBVIOUS
    <3>2. e.mutations = entry[p].mutations /\ e.sync = "get"
      BY <3>1, MutationsAre DEF Entries
    <3>3. entry' = [entry EXCEPT ![p] = e]
      BY <2>3, <3>1
    <3>4. \A q \in Processes : /\ entry'[q].mutations = entry[q].mutations
                               /\ entry'[q] = entry[q] \/ entry'[q].sync # "write"
      BY <3>2, <3>3 DEF TypeOK
    <3> QED
      BY <1>1, <1>2, <2>0, <2>3, <3>4, QuietStep DEF AccountInv
  <2> QED
    BY <1>4, <2>1, <2>2, <2>3 DEF Update
<1>5. CASE SyncFails(p)
  <2>1. Synced(p, NewNode, "failed")
    BY <1>5 DEF SyncFails
  <2>2. \/ row' = row /\ lost' = Plus(lost, entry[p].mutations)
        \/ /\ row' = Written(p) /\ lost' = lost /\ entry[p].sync = "write"
           /\ UnchangedSince(entry[p].read)
    BY <1>5 DEF SyncFails
  <2> QED
    BY <1>1, <1>2, <2>1, <2>2, SyncedKeeps DEF AccountInv
<1> QED
  BY <1>3, <1>4, <1>5 DEF DatabaseStep

\* An entry is locked or released.
LEMMA LockKeeps ==
  ASSUME TypeOK, AccountInv, NEW p \in Processes, NEW holder, NEW sync, sync # "write",
         entry' = [entry EXCEPT ![p] = [@ EXCEPT !.holder = holder, !.sync = sync]],
         UNCHANGED <<row, recorded, lost>>
  PROVE  ReadsEarlier' /\ ResultsAccounted'
<1>1. PICK e : e = [entry[p] EXCEPT !.holder = holder, !.sync = sync]
  OBVIOUS
<1>2. e.mutations = entry[p].mutations /\ e.sync = sync
  BY <1>1, MutationsAre DEF Entries
<1>3. entry' = [entry EXCEPT ![p] = e]
  BY <1>1
<1>4. \A q \in Processes : /\ entry'[q].mutations = entry[q].mutations
                           /\ entry'[q] = entry[q] \/ entry'[q].sync # "write"
  BY <1>2, <1>3 DEF TypeOK
<1> QED
  BY <1>4, QuietStep DEF AccountInv

LEMMA SameEntries ==
  ASSUME TypeOK, AccountInv, UNCHANGED <<entry, row, recorded, lost>>
  PROVE  ReadsEarlier' /\ ResultsAccounted'
BY QuietStep DEF AccountInv

\* A result is taken.
LEMMA RecordAccounts ==
  ASSUME TypeOK, AccountInv, NEW c \in Calls, Record(c)
  PROVE  AccountInv'
<1>1. PICK p : p = call[c].process
  OBVIOUS
<1>2. p \in Processes /\ call[c] \in CallStates /\ call[c].pc = "locked"
  BY <1>1 DEF Record, AccountInv, CallsSomewhere, Away, TypeOK
<1>3. PICK result : result = One(call[c].outcome)
  OBVIOUS
<1>4. PICK more : more = Plus(entry[p].mutations, result)
  OBVIOUS
<1>5. result \in [Outcomes -> Nat] /\ more \in [Outcomes -> Nat]
  BY <1>2, <1>3, <1>4, OneIs, PlusIs, MutationsAre
<1>6. PICK e : e = Unlocked([entry[p] EXCEPT !.mutations = more, !.info = Estimate(c)])
  OBVIOUS
<1>7. PICK x : x = [call[c] EXCEPT !.pc = IF WantsSync(c) THEN "request" ELSE "decide",
                                   !.answer = Status(Estimate(c)), !.newly = NewlyVetted(c)]
  OBVIOUS
<1>8. /\ entry' = [entry EXCEPT ![p] = e] /\ call' = [call EXCEPT ![c] = x]
      /\ recorded' = Plus(recorded, result) /\ UNCHANGED <<row, lost>>
  BY <1>1, <1>3, <1>4, <1>6, <1>7 DEF Record, AfterRecord
<1>9. e.mutations = more /\ e.sync = None /\ x.process = p
  BY <1>1, <1>2, <1>6, <1>7, MutationsAre DEF Unlocked, Entries, CallStates
<1>10. CallsSomewhere'
  BY <1>2, <1>8, <1>9, CallStep DEF AccountInv
<1>11. ASSUME NEW o \in Outcomes
       PROVE  /\ recorded'[o] \in Nat /\ row'.results[o] \in Nat /\ lost'[o] \in Nat
              /\ row'.results[o] >= row.results[o]
              /\ row'.results[o] + lost'[o] + e.mutations[o] + recorded[o]
                    = row.results[o] + lost[o] + entry[p].mutations[o] + recorded'[o]
  <2>1. PICK held : held = entry[p].mutations[o]
    OBVIOUS
  <2>2. PICK r : r = row.results[o]
    OBVIOUS
  <2>3. /\ held \in Nat /\ r \in Nat /\ recorded[o] \in Nat /\ lost[o] \in Nat /\ lost' = lost
        /\ result[o] \in Nat
    BY <1>2, <1>5, <1>8, <2>1, <2>2, HeldIs DEF TypeOK, Info
  <2>4. e.mutations[o] = held + result[o]
    BY <1>4, <1>9, <2>1 DEF Plus
  <2>5. recorded'[o] = recorded[o] + result[o] /\ row'.results[o] = r
    BY <1>8, <2>2 DEF Plus
  <2> QED
    BY <2>1, <2>2, <2>3, <2>4, <2>5
<1>12. e.mutations \in [Outcomes -> Nat] /\ e.sync # "write"
  BY <1>5, <1>9 DEF None
<1> QED
  BY <1>2, <1>8, <1>10, <1>11, <1>12, FlowStep DEF AccountInv

LEMMA AuditAccounts ==
  ASSUME TypeOK, AccountInv, NEW c \in Calls,
         AuditStep(c) \/ DecideFails(c) \/ RequestCanceled(c) \/ Retry(c)
  PROVE  AccountInv'
<1>1. PICK p : p = call[c].process
  OBVIOUS
<1>2. call[c].pc \notin Away => p \in Processes
  BY <1>1 DEF AccountInv, CallsSomewhere
<1>3. CASE Lock(c)
  <2>1. /\ call[c].pc = "entry" /\ Step(c, "locked") /\ UNCHANGED <<row, recorded, lost>>
    BY <1>3 DEF Lock
  <2>2. PICK sync \in {"get", "done"} :
           entry' = [entry EXCEPT ![p] = [@ EXCEPT !.holder = c, !.sync = sync]]
    BY <1>1, <1>3 DEF Lock
  <2>3. p \in Processes /\ call[c].pc \notin Away /\ sync # "write"
    BY <1>2, <2>1 DEF Away
  <2>4. ReadsEarlier' /\ ResultsAccounted'
    BY <2>1, <2>2, <2>3, LockKeeps
  <2>5. CallsSomewhere'
    BY <2>1, <2>3, PcStep DEF AccountInv
  <2> QED
    BY <2>4, <2>5 DEF AccountInv
<1>4. CASE Refuse(c)
  <2>1. /\ call[c].pc = "locked" /\ Step(c, "failed") /\ UNCHANGED <<row, recorded, lost>>
        /\ entry' = [entry EXCEPT ![p] = [@ EXCEPT !.holder = None, !.sync = None]]
    BY <1>1, <1>4 DEF Refuse, Unlocked
  <2>2. p \in Processes /\ call[c].pc \notin Away /\ None # "write"
    BY <1>2, <2>1 DEF Away, None
  <2> QED
    BY <2>1, <2>2, LockKeeps, PcStep DEF AccountInv
<1>5. CASE Record(c)
  BY <1>5, RecordAccounts
<1>6. CASE Decide(c)
  <2>1. PICK x : x = [Idle EXCEPT !.pc = "done", !.answer = call[c].answer]
    OBVIOUS
  <2>2. /\ call' = [call EXCEPT ![c] = x]
        /\ UNCHANGED <<entry, row, recorded, lost>>
    BY <1>6, <2>1 DEF Decide
  <2>3. x.pc \in Away
    BY <2>1 DEF Idle, Away
  <2> QED
    BY <2>2, <2>3, CallStep, SameEntries DEF AccountInv
<1>7. CASE DecideFails(c)
  <2>1. /\ call[c].pc = "decide" /\ Step(c, "failed")
        /\ UNCHANGED <<entry, row, recorded, lost>>
    BY <1>7 DEF DecideFails
  <2>2. call[c].pc \notin Away
    BY <2>1 DEF Away
  <2> QED
    BY <2>1, <2>2, PcStep, SameEntries DEF AccountInv
<1>8. CASE Retry(c)
  <2>1. p \in Processes
    BY <1>2, <1>8, RetryIs DEF Away
  <2> QED
    BY <1>1, <1>8, <2>1, RetryIs, BeginAccounts
<1>9. CASE DecideCanceled(c)
  <2>1. /\ call[c].pc = "decide" /\ Step(c, "failed")
        /\ UNCHANGED <<entry, row, recorded, lost>>
    BY <1>9 DEF DecideCanceled
  <2>2. call[c].pc \notin Away
    BY <2>1 DEF Away
  <2> QED
    BY <2>1, <2>2, PcStep, SameEntries DEF AccountInv
<1>10. CASE RequestCanceled(c)
  <2>1. PICK x : x = [call[c] EXCEPT !.pc = "decide", !.canceled = TRUE]
    OBVIOUS
  <2>2. /\ call[c].pc \in {"request", "wait"} /\ call' = [call EXCEPT ![c] = x]
        /\ UNCHANGED <<entry, row, recorded, lost>>
    BY <1>10, <2>1 DEF RequestCanceled
  <2>3. x.process \in Processes
    BY <1>1, <1>2, <2>1, <2>2, ChangeKeeps DEF Away
  <2> QED
    BY <2>2, <2>3, CallStep, SameEntries DEF AccountInv
<1> QED
  BY <1>3, <1>4, <1>5, <1>6, <1>7, <1>8, <1>9, <1>10 DEF AuditStep

LEMMA ManagerAccounts ==
  ASSUME TypeOK, AccountInv, NEW p \in Processes, ManagerStep(p)
  PROVE  AccountInv'
<1>1. CASE TimerFires(p)
  BY <1>1, SameCalls, SameEntries DEF TimerFires, AccountInv
<1>2. CASE ManagerLocks(p)
  BY <1>2, SameCalls, LockKeeps DEF ManagerLocks, AccountInv
<1>3. CASE ManagerUnlocks(p)
  <2>1. /\ entry' = [entry EXCEPT ![p] = [@ EXCEPT !.holder = None, !.sync = None]]
        /\ UNCHANGED <<row, recorded, lost>>
    BY <1>3 DEF ManagerUnlocks, Unlocked
  <2>2. ReadsEarlier' /\ ResultsAccounted'
    BY <2>1, LockKeeps DEF None
  <2>3. ASSUME NEW d \in Calls, call'[d].pc \notin Away
        PROVE  call'[d].process \in Processes
    <3>1. CASE call'[d] = call[d]
      BY <2>3, <3>1 DEF AccountInv, CallsSomewhere
    <3>2. CASE call[d].pc = "wait" /\ call'[d] = [call[d] EXCEPT !.pc = "decide"]
      BY <3>2, ChangeKeeps DEF AccountInv, CallsSomewhere, Away
    <3> QED
      BY <1>3, <3>1, <3>2 DEF ManagerUnlocks
  <2> QED
    BY <2>2, <2>3 DEF AccountInv, CallsSomewhere
<1>4. ASSUME NEW c \in Calls, ReceiveRequest(c)
      PROVE  AccountInv'
  <2>1. /\ call[c].pc = "request" /\ Step(c, "wait") /\ UNCHANGED <<entry, row, recorded, lost>>
    BY <1>4 DEF ReceiveRequest
  <2>2. call[c].pc \notin Away
    BY <2>1 DEF Away
  <2> QED
    BY <2>1, <2>2, PcStep, SameEntries DEF AccountInv
<1> QED
  BY <1>1, <1>2, <1>3, <1>4 DEF ManagerStep

\* What the cache of a process holds is lost with it, and its calls end.
LEMMA RestartAccounts ==
  ASSUME TypeOK, AccountInv, NEW p \in Processes, Restart(p)
  PROVE  AccountInv'
<1>1. PICK e : e = NoEntry
  OBVIOUS
<1>2. /\ lost' = Plus(lost, entry[p].mutations)
      /\ entry' = [entry EXCEPT ![p] = e]
      /\ call' = [c \in Calls |-> IF call[c].process = p
                                  THEN [Idle EXCEPT !.pc = "stopped"] ELSE call[c]]
      /\ UNCHANGED <<row, recorded>>
  BY <1>1 DEF Restart
<1>3. e.mutations = NoResults /\ e.sync # "write"
  BY <1>1 DEF NoEntry, None
<1>4. ASSUME NEW o \in Outcomes
      PROVE  /\ recorded'[o] \in Nat /\ row'.results[o] \in Nat /\ lost'[o] \in Nat
             /\ row'.results[o] >= row.results[o]
             /\ row'.results[o] + lost'[o] + e.mutations[o] + recorded[o]
                   = row.results[o] + lost[o] + entry[p].mutations[o] + recorded'[o]
  <2>1. PICK held : held = entry[p].mutations[o]
    OBVIOUS
  <2>2. PICK r : r = row.results[o]
    OBVIOUS
  <2>3. held \in Nat /\ r \in Nat /\ recorded[o] \in Nat /\ lost[o] \in Nat
    BY <2>1, <2>2, HeldIs DEF TypeOK, Info
  <2>4. e.mutations[o] = 0
    BY <1>3 DEF NoResults
  <2>5. lost'[o] = lost[o] + held /\ row'.results[o] = r /\ recorded' = recorded
    BY <1>2, <2>1, <2>2 DEF Plus
  <2> QED
    BY <2>1, <2>2, <2>3, <2>4, <2>5
<1>5. e.mutations \in [Outcomes -> Nat]
  BY <1>3, NoResultsIs
<1>6. ReadsEarlier' /\ ResultsAccounted'
  <2>1. entry' = [entry EXCEPT ![p] = e]
    BY <1>2
  <2>2. ReadsEarlier /\ ResultsAccounted
    BY DEF AccountInv
  <2>3. e.sync # "write"
    BY <1>3
  <2> QED
    BY <1>4, <1>5, <2>1, <2>2, <2>3, FlowStep
<1>7. CallsSomewhere'
  BY <1>2 DEF AccountInv, CallsSomewhere, Idle, Away
<1> QED
  BY <1>6, <1>7 DEF AccountInv

LEMMA NextAccounts ==
  ASSUME TypeOK, AccountInv, [Next]_vars
  PROVE  AccountInv'
<1>1. CASE UNCHANGED vars
  BY <1>1, SameEntries, SameCalls DEF vars, AccountInv
<1>2. ASSUME NEW c \in Calls, NEW p \in ProcessesOf[c], NEW o \in Reported, BeginAudit(c, p, o)
      PROVE  AccountInv'
  <2>1. p \in Processes
    BY ReputationAssumption
  <2>2. o \in Outcomes
    BY ReputationAssumption
  <2> QED
    BY <1>2, <2>1, <2>2, BeginAuditIs, BeginAccounts
<1>3. ASSUME NEW c \in Calls,
             AuditStep(c) \/ DecideFails(c) \/ RequestCanceled(c) \/ Retry(c)
      PROVE  AccountInv'
  BY <1>3, AuditAccounts
<1>4. ASSUME NEW p \in Processes,
             DatabaseStep(p) \/ SyncFails(p) \/ ManagerStep(p) \/ Restart(p)
      PROVE  AccountInv'
  BY <1>4, DatabaseAccounts, ManagerAccounts, RestartAccounts
<1>5. CASE ExitFinishes
  BY <1>5, SameEntries, SameCalls DEF ExitFinishes, AccountInv
<1> QED
  BY <1>1, <1>2, <1>3, <1>4, <1>5 DEF Next

LEMMA InitAccounts == Init => AccountInv
<1> SUFFICES ASSUME Init PROVE AccountInv
  OBVIOUS
<1>1. ReadsEarlier
  BY DEF Init, ReadsEarlier, NoEntry, None
<1>3. CallsSomewhere
  BY DEF Init, CallsSomewhere, Idle, Away
<1>2. ASSUME NEW o \in Outcomes
      PROVE  recorded[o] = row.results[o] + Cached(o) + lost[o]
  <2>1. \A p \in Processes : Held(entry, o)[p] = 0
    BY DEF Init, Held, NoEntry, NoResults
  <2>2. Cached(o) = 0
    BY <2>1, CachedIs, SumZero, ReputationAssumption
  <2>3. recorded[o] = 0 /\ row.results[o] = 0 /\ lost[o] = 0
    BY DEF Init, NewNode, NoResults
  <2> QED
    BY <2>2, <2>3
<1> QED
  BY <1>1, <1>2, <1>3 DEF AccountInv, ResultsAccounted

\* Every result that a cache took is in the row once, waits in one cache, or was lost with
\* an error or a restart (ResultsAccounted), however many processes write the row together.
THEOREM AccountedCorrect == Spec => []ResultsAccounted
<1>1. TypeOK /\ AccountInv /\ [Next]_vars => AccountInv'
  BY NextAccounts
<1>2. AccountInv => ResultsAccounted
  BY DEF AccountInv
<1> QED
  BY <1>1, <1>2, InitAccounts, TypeCorrect, PTL DEF Spec
=============================================================================
