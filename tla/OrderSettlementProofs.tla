------------------------ MODULE OrderSettlementProofs ------------------------
(* Theorems about OrderSettlement, for any orders and amounts, any lengths of *)
(* the intervals that AgesAssumption allows, any time and number of faults.   *)
EXTENDS OrderSettlement, FiniteSetTheorems, TLAPS

-----------------------------------------------------------------------------
(* Sums over a finite set, which SumFunctionOnSet defines by recursion.        *)

\* A finite set is in Q if Q holds of a set whenever it holds of its proper subsets.
LEMMA SubsetInduction ==
    ASSUME NEW S, IsFiniteSet(S), NEW Q,
           \A T \in SUBSET S : (\A U \in SUBSET T : U # T => U \in Q) => T \in Q
    PROVE  S \in Q
<1> DEFINE C == {T \in FiniteSubsetsOf(S) : T \notin Q}
<1> SUFFICES ASSUME S \notin Q
             PROVE  FALSE
  OBVIOUS
<1>1. S \in C
  BY DEF FiniteSubsetsOf
<1>2. IsWellFoundedOn(StrictSubsetOrdering(S), FiniteSubsetsOf(S))
  BY FS_StrictSubsetOrderingWellFounded
<1>3. C \subseteq FiniteSubsetsOf(S) /\ C # {}
  BY <1>1
<1> HIDE DEF C
<1>4. PICK T \in C : \A U \in C : <<U, T>> \notin StrictSubsetOrdering(S)
  BY <1>2, <1>3, WFMin
<1>5. T \in SUBSET S /\ T \notin Q /\ IsFiniteSet(T)
  BY <1>4 DEF C, FiniteSubsetsOf
<1>6. PICK U \in SUBSET T : U # T /\ U \notin Q
  BY <1>5
<1>7. IsFiniteSet(U)
  BY <1>5, <1>6, FS_Subset
<1>8. U \in C
  BY <1>5, <1>6, <1>7 DEF C, FiniteSubsetsOf
<1>9. <<U, T>> \in StrictSubsetOrdering(S)
  BY <1>5, <1>6 DEF StrictSubsetOrdering
<1> QED
  BY <1>4, <1>8, <1>9

\* The element of a set that a sum takes first.
Element(s) == CHOOSE x \in s : TRUE

\* The recursive function that SumFunctionOnSet defines.
IsSum(g, f, S) ==
    g = [s \in SUBSET S |-> IF s = {} THEN 0 ELSE f[Element(s)] + g[s \ {Element(s)}]]

LEMMA SumDefinition ==
    ASSUME NEW f, NEW S
    PROVE  SumFunctionOnSet(f, S) = (CHOOSE g : IsSum(g, f, S))[S]
BY DEF SumFunctionOnSet, FoldFunctionOnSet, MapThenFoldSet, IsSum, Element

\* What it is on the empty set, and on another one.
Unfolds(g, f, s) ==
    /\ s = {} => g[s] = 0
    /\ s # {} => Element(s) \in s /\ g[s] = f[Element(s)] + g[s \ {Element(s)}]

LEMMA SumStep ==
    ASSUME NEW f, NEW S, NEW g, IsSum(g, f, S), NEW s \in SUBSET S
    PROVE  Unfolds(g, f, s)
<1>1. g[s] = IF s = {} THEN 0 ELSE f[Element(s)] + g[s \ {Element(s)}]
  BY DEF IsSum
<1>2. s # {} => Element(s) \in s
  BY DEF Element
<1> QED
  BY <1>1, <1>2 DEF Unfolds

\* It is unique ...
LEMMA SumUnique ==
    ASSUME NEW f, NEW S, NEW R, NEW g, IsSum(g, f, S), NEW h, IsSum(h, f, R),
           NEW s \in SUBSET S, s \in SUBSET R, IsFiniteSet(s)
    PROVE  g[s] = h[s]
<1> DEFINE Q == {t \in SUBSET s : g[t] = h[t]}
<1>1. ASSUME NEW t \in SUBSET s, \A u \in SUBSET t : u # t => u \in Q
      PROVE  t \in Q
  <2>1. t \in SUBSET S /\ t \in SUBSET R
    OBVIOUS
  <2>0. Unfolds(g, f, t) /\ Unfolds(h, f, t)
    <3>1. Unfolds(g, f, t)
      BY ONLY <2>1, SumStep, IsSum(g, f, S)
    <3>2. Unfolds(h, f, t)
      BY ONLY <2>1, SumStep, IsSum(h, f, R)
    <3> QED
      BY <3>1, <3>2
  <2>2. CASE t = {}
    BY <2>0, <2>2 DEF Unfolds
  <2>3. CASE t # {}
    <3>1. PICK x : x = Element(t)
      OBVIOUS
    <3>2. /\ x \in t
          /\ g[t] = f[x] + g[t \ {x}] /\ h[t] = f[x] + h[t \ {x}]
      BY <2>0, <2>3, <3>1 DEF Unfolds
    <3>3. t \ {x} \in Q
      BY <1>1, <3>2
    <3> QED
      BY <3>2, <3>3
  <2> QED
    BY <2>2, <2>3
<1> HIDE DEF Q
<1>2. s \in Q
  BY <1>1, SubsetInduction
<1> QED
  BY <1>2 DEF Q

\* ... and exists.
LEMMA SumExists ==
    ASSUME NEW f, NEW S, IsFiniteSet(S)
    PROVE  \E g : IsSum(g, f, S)
<1> DEFINE Q == {t \in SUBSET S : \E g : IsSum(g, f, t)}
<1>1. ASSUME NEW t \in SUBSET S, \A u \in SUBSET t : u # t => u \in Q
      PROVE  t \in Q
  <2> DEFINE G(u) == CHOOSE g : IsSum(g, f, u)
             V(u) == IF u = {} THEN 0
                     ELSE f[Element(u)] + G(u \ {Element(u)})[u \ {Element(u)}]
             H == [u \in SUBSET t |-> V(u)]
  <2>1. ASSUME NEW u \in SUBSET t, u # t
        PROVE  IsSum(G(u), f, u)
    BY <1>1, <2>1
  <2>2. ASSUME NEW u \in SUBSET t
        PROVE  IsFiniteSet(u)
    BY <2>2, FS_Subset
  <2> HIDE DEF G
  <2>3. ASSUME NEW u \in SUBSET t, u # t
        PROVE  V(u) = G(u)[u]
    <3>0. Unfolds(G(u), f, u)
      <4>1. IsSum(G(u), f, u) /\ u \in SUBSET u
        BY <2>1, <2>3
      <4> QED
        BY ONLY <4>1, SumStep
    <3>1. CASE u = {}
      BY <3>0, <3>1 DEF Unfolds
    <3>2. CASE u # {}
      <4>1. PICK x : x = Element(u)
        OBVIOUS
      <4>2. x \in u /\ G(u)[u] = f[x] + G(u)[u \ {x}]
        BY <3>0, <3>2, <4>1 DEF Unfolds
      <4>3. u \ {x} \in SUBSET t /\ u \ {x} # t /\ u \ {x} \in SUBSET u
        BY <2>3, <4>2
      <4>4. IsSum(G(u \ {x}), f, u \ {x}) /\ IsSum(G(u), f, u) /\ IsFiniteSet(u \ {x})
        BY <2>1, <2>2, <2>3, <4>3
      <4>5. G(u)[u \ {x}] = G(u \ {x})[u \ {x}]
        BY <4>3, <4>4, SumUnique
      <4>6. V(u) = f[x] + G(u \ {x})[u \ {x}]
        BY <3>2, <4>1
      <4> QED
        BY <4>2, <4>5, <4>6
    <3> QED
      BY <3>1, <3>2
  <2>4. ASSUME NEW u \in SUBSET t
        PROVE  V(u) = IF u = {} THEN 0 ELSE f[Element(u)] + H[u \ {Element(u)}]
    <3>1. CASE u = {}
      BY <3>1
    <3>2. CASE u # {}
      <4>1. PICK x : x = Element(u)
        OBVIOUS
      <4>2. x \in u /\ u \ {x} \in SUBSET t /\ u \ {x} # t
        BY <3>2, <4>1 DEF Element
      <4>3. V(u) = f[x] + G(u \ {x})[u \ {x}]
        BY <3>2, <4>1
      <4>4. PICK w : w = u \ {x}
        OBVIOUS
      <4>5. H[w] = V(w) /\ V(w) = G(w)[w]
        <5> HIDE DEF V
        <5> QED
          BY <2>3, <4>2, <4>4
      <4> QED
        BY <3>2, <4>1, <4>3, <4>4, <4>5
    <3> QED
      BY <3>1, <3>2
  <2> HIDE DEF V
  <2>5. IsSum(H, f, t)
    BY <2>4 DEF IsSum
  <2> HIDE DEF H
  <2> QED
    BY <2>5
<1> HIDE DEF Q
<1>2. S \in Q
  BY <1>1, SubsetInduction
<1> QED
  BY <1>2 DEF Q

\* A sum over a finite set.
LEMMA SumIs ==
    ASSUME NEW f, NEW S, IsFiniteSet(S)
    PROVE  /\ S = {} => SumFunctionOnSet(f, S) = 0
           /\ S # {} => /\ Element(S) \in S
                        /\ SumFunctionOnSet(f, S) =
                             f[Element(S)] + SumFunctionOnSet(f, S \ {Element(S)})
<1>1. PICK T : T = S \ {Element(S)}
  OBVIOUS
<1>2. IsFiniteSet(T) /\ T \in SUBSET S
  BY <1>1, FS_Subset
<1>3. PICK g : g = CHOOSE h : IsSum(h, f, S)
  OBVIOUS
<1>4. PICK h : h = CHOOSE g1 : IsSum(g1, f, T)
  OBVIOUS
<1>5. IsSum(g, f, S)
  BY <1>3, SumExists
<1>6. IsSum(h, f, T)
  BY <1>2, <1>4, SumExists
<1>7. SumFunctionOnSet(f, S) = g[S]
  BY <1>3, SumDefinition
<1>8. SumFunctionOnSet(f, T) = h[T]
  BY <1>4, SumDefinition
<1>9. g[T] = h[T]
  BY <1>2, <1>5, <1>6, SumUnique
<1>10. S \in SUBSET S
  OBVIOUS
<1>11. /\ S = {} => g[S] = 0
       /\ S # {} => Element(S) \in S /\ g[S] = f[Element(S)] + g[T]
  <2>1. Unfolds(g, f, S)
    BY ONLY <1>5, <1>10, SumStep
  <2> QED
    BY <1>1, <2>1 DEF Unfolds
<1> QED
  BY <1>1, <1>7, <1>8, <1>9, <1>11

LEMMA SumEmpty ==
    ASSUME NEW f
    PROVE  SumFunctionOnSet(f, {}) = 0
BY SumIs, FS_EmptySet

LEMMA SumInt ==
    ASSUME NEW f, NEW S, IsFiniteSet(S), \A x \in S : f[x] \in Int
    PROVE  SumFunctionOnSet(f, S) \in Int
<1> DEFINE Q == {t \in SUBSET S : SumFunctionOnSet(f, t) \in Int}
<1>1. ASSUME NEW t \in SUBSET S, \A u \in SUBSET t : u # t => u \in Q
      PROVE  t \in Q
  <2>1. IsFiniteSet(t)
    BY FS_Subset
  <2>2. PICK x : x = Element(t)
    OBVIOUS
  <2>3. t = {} => SumFunctionOnSet(f, t) = 0
    BY <2>1, SumIs
  <2>4. t # {} => x \in t /\ SumFunctionOnSet(f, t) = f[x] + SumFunctionOnSet(f, t \ {x})
    BY <2>1, <2>2, SumIs
  <2>5. CASE t # {}
    <3>1. t \ {x} \in Q /\ f[x] \in Int
      BY <1>1, <2>4, <2>5
    <3> QED
      BY <2>4, <2>5, <3>1
  <2> QED
    BY <2>3, <2>5
<1> HIDE DEF Q
<1>2. S \in Q
  BY <1>1, SubsetInduction
<1> QED
  BY <1>2 DEF Q

LEMMA SumRemove ==
    ASSUME NEW f, NEW S, IsFiniteSet(S), \A x \in S : f[x] \in Int, NEW y \in S
    PROVE  /\ SumFunctionOnSet(f, S) = f[y] + SumFunctionOnSet(f, S \ {y})
           /\ SumFunctionOnSet(f, S \ {y}) \in Int
<1> DEFINE Q == {t \in SUBSET S : \A z \in t :
                    SumFunctionOnSet(f, t) = f[z] + SumFunctionOnSet(f, t \ {z})}
<1>1. ASSUME NEW t \in SUBSET S, \A u \in SUBSET t : u # t => u \in Q
      PROVE  t \in Q
  <2> SUFFICES ASSUME NEW z \in t
               PROVE  SumFunctionOnSet(f, t) = f[z] + SumFunctionOnSet(f, t \ {z})
    OBVIOUS
  <2>1. IsFiniteSet(t)
    BY FS_Subset
  <2>2. PICK x : x = Element(t)
    OBVIOUS
  <2>3. x \in t /\ SumFunctionOnSet(f, t) = f[x] + SumFunctionOnSet(f, t \ {x})
    BY <2>1, <2>2, SumIs
  <2>4. CASE x = z
    BY <2>3, <2>4
  <2>5. CASE x # z
    <3>1. PICK a : a = t \ {x}
      OBVIOUS
    <3>2. PICK b : b = t \ {z}
      OBVIOUS
    <3>3. a \in Q /\ b \in Q /\ z \in a /\ x \in b
      BY <1>1, <2>3, <2>5, <3>1, <3>2
    <3>4. /\ SumFunctionOnSet(f, a) = f[z] + SumFunctionOnSet(f, a \ {z})
          /\ SumFunctionOnSet(f, b) = f[x] + SumFunctionOnSet(f, b \ {x})
      BY <3>3
    <3>5. PICK c : c = a \ {z}
      OBVIOUS
    <3>6. c = b \ {x} /\ IsFiniteSet(c) /\ c \in SUBSET S
      BY <2>1, <3>1, <3>2, <3>5, FS_Subset
    <3>7. SumFunctionOnSet(f, c) \in Int
      BY <3>6, SumInt
    <3>8. f[x] \in Int /\ f[z] \in Int
      BY <2>3
    <3>9. SumFunctionOnSet(f, t) = f[x] + SumFunctionOnSet(f, a)
      BY <2>3, <3>1
    <3>10. SumFunctionOnSet(f, b) = f[x] + SumFunctionOnSet(f, c)
      BY <3>4, <3>6
    <3>11. SumFunctionOnSet(f, a) = f[z] + SumFunctionOnSet(f, c)
      BY <3>4, <3>5
    <3> QED
      BY ONLY <3>2, <3>7, <3>8, <3>9, <3>10, <3>11
  <2> QED
    BY <2>4, <2>5
<1> HIDE DEF Q
<1>2. S \in Q
  BY <1>1, SubsetInduction
<1>3. IsFiniteSet(S \ {y})
  BY FS_Subset
<1>4. SumFunctionOnSet(f, S \ {y}) \in Int
  BY <1>3, SumInt
<1> QED
  BY <1>2, <1>4 DEF Q

LEMMA SumEqual ==
    ASSUME NEW f, NEW g, NEW S, IsFiniteSet(S), \A x \in S : f[x] = g[x]
    PROVE  SumFunctionOnSet(f, S) = SumFunctionOnSet(g, S)
<1> DEFINE Q == {t \in SUBSET S : SumFunctionOnSet(f, t) = SumFunctionOnSet(g, t)}
<1>1. ASSUME NEW t \in SUBSET S, \A u \in SUBSET t : u # t => u \in Q
      PROVE  t \in Q
  <2>1. IsFiniteSet(t)
    BY FS_Subset
  <2>2. PICK x : x = Element(t)
    OBVIOUS
  <2>3. CASE t = {}
    BY <2>3, SumEmpty
  <2>4. CASE t # {}
    <3>1. x \in t /\ SumFunctionOnSet(f, t) = f[x] + SumFunctionOnSet(f, t \ {x})
      BY <2>1, <2>2, <2>4, SumIs
    <3>2. SumFunctionOnSet(g, t) = g[x] + SumFunctionOnSet(g, t \ {x})
      BY <2>1, <2>2, <2>4, SumIs
    <3>3. t \ {x} \in Q /\ f[x] = g[x]
      BY <1>1, <3>1
    <3> QED
      BY <3>1, <3>2, <3>3
  <2> QED
    BY <2>3, <2>4
<1> HIDE DEF Q
<1>2. S \in Q
  BY <1>1, SubsetInduction
<1> QED
  BY <1>2 DEF Q

\* One value of the function changes.
LEMMA SumUpdate ==
    ASSUME NEW f, NEW g, NEW S, IsFiniteSet(S), \A x \in S : f[x] \in Int, NEW y \in S,
           g[y] \in Int, \A x \in S : x # y => g[x] = f[x]
    PROVE  SumFunctionOnSet(g, S) = SumFunctionOnSet(f, S) - f[y] + g[y]
<1>1. PICK T : T = S \ {y}
  OBVIOUS
<1>2. IsFiniteSet(T)
  BY <1>1, FS_Subset
<1>3. SumFunctionOnSet(g, T) = SumFunctionOnSet(f, T)
  BY <1>1, <1>2, SumEqual
<1>4. SumFunctionOnSet(f, S) = f[y] + SumFunctionOnSet(f, T)
  BY <1>1, SumRemove
<1>5. SumFunctionOnSet(f, T) \in Int
  BY <1>1, SumRemove
<1>6. \A x \in S : g[x] \in Int
  OBVIOUS
<1>7. SumFunctionOnSet(g, S) = g[y] + SumFunctionOnSet(g, T)
  BY <1>1, <1>6, SumRemove
<1> QED
  BY <1>3, <1>4, <1>5, <1>7

LEMMA SumZero ==
    ASSUME NEW f, NEW S, IsFiniteSet(S), \A x \in S : f[x] = 0
    PROVE  SumFunctionOnSet(f, S) = 0
<1> DEFINE Q == {t \in SUBSET S : SumFunctionOnSet(f, t) = 0}
<1>1. ASSUME NEW t \in SUBSET S, \A u \in SUBSET t : u # t => u \in Q
      PROVE  t \in Q
  <2>1. IsFiniteSet(t)
    BY FS_Subset
  <2>2. PICK x : x = Element(t)
    OBVIOUS
  <2>3. CASE t = {}
    BY <2>3, SumEmpty
  <2>4. CASE t # {}
    <3>1. x \in t /\ SumFunctionOnSet(f, t) = f[x] + SumFunctionOnSet(f, t \ {x})
      BY <2>1, <2>2, <2>4, SumIs
    <3>2. t \ {x} \in Q /\ f[x] = 0
      BY <1>1, <3>1
    <3> QED
      BY <3>1, <3>2
  <2> QED
    BY <2>3, <2>4
<1> HIDE DEF Q
<1>2. S \in Q
  BY <1>1, SubsetInduction
<1> QED
  BY <1>2 DEF Q

LEMMA SumNat ==
    ASSUME NEW f, NEW S, IsFiniteSet(S), \A x \in S : f[x] \in Nat
    PROVE  SumFunctionOnSet(f, S) \in Nat
<1> DEFINE Q == {t \in SUBSET S : SumFunctionOnSet(f, t) \in Nat}
<1>1. ASSUME NEW t \in SUBSET S, \A u \in SUBSET t : u # t => u \in Q
      PROVE  t \in Q
  <2>1. IsFiniteSet(t)
    BY FS_Subset
  <2>2. PICK x : x = Element(t)
    OBVIOUS
  <2>3. t = {} => SumFunctionOnSet(f, t) = 0
    BY <2>1, SumIs
  <2>4. t # {} => x \in t /\ SumFunctionOnSet(f, t) = f[x] + SumFunctionOnSet(f, t \ {x})
    BY <2>1, <2>2, SumIs
  <2>5. CASE t # {}
    <3>1. t \ {x} \in Q /\ f[x] \in Nat
      BY <1>1, <2>4, <2>5
    <3> QED
      BY <2>4, <2>5, <3>1
  <2> QED
    BY <2>3, <2>5
<1> HIDE DEF Q
<1>2. S \in Q
  BY <1>1, SubsetInduction
<1> QED
  BY <1>2 DEF Q

\* More elements do not make a sum of naturals smaller.
LEMMA SumGrows ==
    ASSUME NEW f, NEW S, IsFiniteSet(S), \A x \in S : f[x] \in Nat, NEW T \in SUBSET S
    PROVE  SumFunctionOnSet(f, T) <= SumFunctionOnSet(f, S)
<1> DEFINE Q == {t \in SUBSET S : \A u \in SUBSET t :
                    SumFunctionOnSet(f, u) <= SumFunctionOnSet(f, t)}
<1>1. ASSUME NEW t \in SUBSET S, \A v \in SUBSET t : v # t => v \in Q
      PROVE  t \in Q
  <2> SUFFICES ASSUME NEW u \in SUBSET t
               PROVE  SumFunctionOnSet(f, u) <= SumFunctionOnSet(f, t)
    OBVIOUS
  <2>1. IsFiniteSet(t)
    BY FS_Subset
  <2>2. SumFunctionOnSet(f, t) \in Nat
    BY <2>1, SumNat
  <2>3. CASE u = t
    BY <2>2, <2>3
  <2>4. CASE u # t
    <3>1. PICK x \in t : x \notin u
      BY <2>4
    <3>2. PICK v : v = t \ {x}
      OBVIOUS
    <3>3. v \in Q /\ u \in SUBSET v /\ IsFiniteSet(u) /\ u \in SUBSET S /\ IsFiniteSet(v)
          /\ v \in SUBSET S
      BY <1>1, <2>1, <3>1, <3>2, FS_Subset
    <3>4. SumFunctionOnSet(f, u) <= SumFunctionOnSet(f, v)
      BY <3>3
    <3>5. SumFunctionOnSet(f, u) \in Nat /\ SumFunctionOnSet(f, v) \in Nat
      BY <3>3, SumNat
    <3>6. \A y \in t : f[y] \in Int
      OBVIOUS
    <3>7. SumFunctionOnSet(f, t) = f[x] + SumFunctionOnSet(f, v)
      BY <2>1, <3>1, <3>2, <3>6, SumRemove
    <3>8. f[x] \in Nat
      OBVIOUS
    <3> QED
      BY <3>4, <3>5, <3>7, <3>8
  <2> QED
    BY <2>3, <2>4
<1> HIDE DEF Q
<1>2. S \in Q
  BY <1>1, SubsetInduction
<1> QED
  BY <1>2 DEF Q
-----------------------------------------------------------------------------
(* The flag of the cache *)

FlusherInv == DOMAIN flusher = Flushers /\ OneFlush

LEMMA InitFlusher == Init => FlusherInv
BY CacheAssumption DEF Init, CacheInit, FlusherInv, OneFlush

\* A flusher that takes the data is the only one.
LEMMA TakeKeepsOne ==
    ASSUME FlusherInv, NEW f \in Flushers, NEW data, MayFlush, Take(f, data)
    PROVE  FlusherInv'
BY DEF FlusherInv, OneFlush, MayFlush, Take

LEMMA FlushKeepsOne ==
    ASSUME FlusherInv, NEW f \in Flushers, NEW from, from # "flushing", Flush(f, from)
    PROVE  FlusherInv'
<1>1. CASE MayFlush
  BY <1>1, TakeKeepsOne DEF Flush
<1>2. CASE ~MayFlush
  BY <1>2 DEF Flush, FlusherInv, OneFlush
<1> QED
  BY <1>1, <1>2

LEMMA OverKeepsOne ==
    ASSUME FlusherInv, NEW f \in Flushers, FlushOver(f)
    PROVE  FlusherInv'
BY DEF FlusherInv, OneFlush, FlushOver

LEMMA FlusherStepKeepsOne ==
    ASSUME FlusherInv, FlusherStep
    PROVE  FlusherInv'
<1>1. CASE ChoreFlush
  BY <1>1, FlushKeepsOne DEF ChoreFlush, Flush
<1>2. CASE AbandonFlush
  BY <1>2 DEF AbandonFlush, FlusherInv, OneFlush
<1>3. CASE CloseFlush
  BY <1>3, FlushKeepsOne DEF CloseFlush, Flush
<1>4. ASSUME NEW f \in {"chore", "close"}, Retry(f) PROVE FlusherInv'
  BY <1>4, FlushKeepsOne DEF Retry, Flush
<1>5. ASSUME NEW f \in Flushers, WriteBatch(f) PROVE FlusherInv'
  BY <1>5, OverKeepsOne DEF WriteBatch
<1> QED
  BY <1>1, <1>2, <1>3, <1>4, <1>5 DEF FlusherStep

LEMMA NextFlusher ==
    ASSUME FlusherInv, [Next]_vars
    PROVE  FlusherInv'
<1>1. ASSUME UNCHANGED cacheVars PROVE FlusherInv'
  BY <1>1 DEF cacheVars, FlusherInv, OneFlush
<1>2. CASE Flusher
  BY <1>2, FlusherStepKeepsOne DEF Flusher
<1>3. CASE FlushFails
  BY <1>3, OverKeepsOne DEF FlushFails, LoseBatch
<1>4. CASE StopSatellite
  BY <1>4 DEF StopSatellite, Stop, FlusherInv, OneFlush
<1>5. CASE SatelliteRestart
  BY <1>5 DEF SatelliteRestart, NewProcess, FlusherInv, OneFlush
<1>6. ASSUME NEW c \in DOMAIN calls, NEW a \in UserActions, Charge(c, a) PROVE FlusherInv'
  <2>1. ASSUME NEW key, NEW n, Update(key, n) PROVE FlusherInv'
    <3>1. ASSUME NEW data, Take("worker", data), MayFlush PROVE FlusherInv'
      BY <3>1, TakeKeepsOne, CacheAssumption
    <3>2. ASSUME NEW data, Keep(data) PROVE FlusherInv'
      BY <3>2 DEF Keep, FlusherInv, OneFlush
    <3> QED
      BY <2>1, <3>1, <3>2 DEF Update
  <2>2. ASSUME NEW key, NEW n, UpdateStopped(key, n) PROVE FlusherInv'
    BY <2>2 DEF UpdateStopped, FlusherInv, OneFlush
  <2> QED
    BY <1>6, <2>1, <2>2 DEF Charge
<1>7. ASSUME NEW c \in DOMAIN calls, SettleUnknown(c) PROVE FlusherInv'
  BY <1>7 DEF SettleUnknown, FlusherInv, OneFlush
<1>8. CASE UNCHANGED vars
  BY <1>1, <1>8 DEF vars
<1>9. ASSUME NEW o \in Orders, BeginEnqueue(o) \/ Commit(o) \/ Abort(o) \/ CommitFails(o)
      PROVE  FlusherInv'
  BY <1>1, <1>9 DEF BeginEnqueue, Commit, Abort, CommitFails
<1>10. CASE SenderStep \/ SettleFails \/ ArchiveFails \/ NodeRestart
  BY <1>1, <1>10 DEF SenderStep, SendOrders, List, Read, Send, Archive, SettleFails,
     ArchiveFails, NodeRestart
<1>11. ASSUME NEW w \in Windows, CleanArchive(w) PROVE FlusherInv'
  BY <1>1, <1>11 DEF CleanArchive
<1>12. ASSUME NEW c \in DOMAIN calls, Receive(c) \/ Settle(c) \/ Answer(c) \/ HandlerFails(c)
       PROVE  FlusherInv'
  BY <1>1, <1>12 DEF Receive, Settle, Answer, HandlerFails
<1>13. CASE ArchiveRollups \/ Tick
  BY <1>1, <1>13 DEF ArchiveRollups, Tick
<1> QED
  BY <1>2, <1>3, <1>4, <1>5, <1>6, <1>7, <1>8, <1>9, <1>10, <1>11, <1>12, <1>13
     DEF Next, HandlerStep

\* The batches of two flushers are never written at the same time (OneFlush),
\* whoever of the goroutine, the chore and CloseAndFlush comes first.
THEOREM OneFlushCorrect == Spec => []OneFlush
<1>1. FlusherInv /\ [Next]_vars => FlusherInv'
  BY NextFlusher
<1>2. FlusherInv => OneFlush
  BY DEF FlusherInv
<1> QED
  BY <1>1, <1>2, InitFlusher, PTL DEF Spec

-----------------------------------------------------------------------------
(* Types *)

OrdersOf(w) == {o \in Orders : Window(o) = w}
Settlements == UNION {[A -> Nat \ {0}] : A \in SUBSET Actions}

SenderStates ==
    [pc : {"idle", "list", "read", "send", "wait", "archive"}, now : Nat, window : Nat,
     orders : Seq(Orders), status : Statuses \cup {None}]

CallStates ==
    [pc : {"receive", "settle", "charge"}, waited : BOOLEAN, rest : Seq(Orders),
     seen : SUBSET Orders, window : Windows, settled : Settlements,
     charge : SUBSET UserActions, status : Statuses \cup {None}, until : Nat]

LEMMA IdleIs == Idle \in SenderStates
BY DEF Idle, SenderStates, None, Statuses

\* The files have orders of their window; the sender and the calls are records.
NodeTypes ==
    /\ now \in Nat
    /\ active \subseteq Orders
    /\ DOMAIN unsent \subseteq Windows
    /\ \A w \in DOMAIN unsent : unsent[w] \in Seq(OrdersOf(w))
    /\ DOMAIN archive \subseteq Windows
    /\ sender \in SenderStates

\* An order is taken for an hour: its window begins at most that long before it.
LEMMA WindowIs ==
    ASSUME NEW o \in Orders
    PROVE  /\ Window(o) \in Nat /\ Window(o) \in Windows
           /\ Window(o) <= CreatedAt[o] /\ CreatedAt[o] < Window(o) + Hour
<1>1. CreatedAt[o] \in Nat /\ Hour \in Nat /\ Hour > 0
  BY OrdersAssumption, AgesAssumption
<1>2. \A a, h \in Nat : h > 0 => a % h \in 0 .. (h - 1) /\ a % h <= a
  OBVIOUS
<1>3. CreatedAt[o] % Hour \in 0 .. (Hour - 1) /\ CreatedAt[o] % Hour <= CreatedAt[o]
  BY <1>1, <1>2
<1>4. Window(o) \in Windows
  BY DEF Windows
<1> QED
  BY <1>1, <1>3, <1>4 DEF Window

LEMMA WindowsAre == Windows \subseteq Nat
BY WindowIs DEF Windows

-----------------------------------------------------------------------------
(* Files that are sent.  That nothing is added to one needs the time: its   *)
(* window is over for longer than the grace period, so no order of it is    *)
(* taken any more, and when it was listed none was under way.               *)

FileInv ==
    /\ sender.now <= now
    /\ sender.pc \in {"read", "send", "wait", "archive"} =>
          /\ sender.window \in DOMAIN unsent
          /\ sender.now > sender.window + Hour + Grace
          /\ \A o \in active : Window(o) # sender.window
    /\ sender.pc \in {"send", "wait", "archive"} => unsent[sender.window] = sender.orders
    /\ \A w \in DOMAIN archive :
          /\ w \notin DOMAIN unsent /\ now > w + Hour + Grace
          /\ \A o \in active : Window(o) # w

LEMMA InitFiles == Init => NodeTypes /\ FileInv
BY DEF Init, NodeTypes, FileInv, Idle, SenderStates, None, Statuses

\* An order is taken while its window lasts, and the grace period.
LEMMA TakenEarly ==
    ASSUME NodeTypes, NEW o \in Orders, Takes(o)
    PROVE  now < Window(o) + Hour + Grace
<1>1. now - CreatedAt[o] <= Grace /\ CreatedAt[o] < Window(o) + Hour /\ Window(o) \in Nat
  BY WindowIs DEF Takes
<1>2. CreatedAt[o] \in Nat /\ Grace \in Nat /\ Hour \in Nat /\ now \in Nat
  BY OrdersAssumption, AgesAssumption DEF NodeTypes
<1> QED
  BY <1>1, <1>2

\* Any step of the files that leaves the windows in hand alone.
LEMMA FilesUntouched ==
    ASSUME NodeTypes, FileInv, now' \in Nat, now' >= now,
           unsent' = unsent, archive' = archive, active' \subseteq active,
           sender' = sender \/ sender' = Idle
    PROVE  NodeTypes' /\ FileInv'
<1>1. Idle \in SenderStates
  BY DEF Idle, SenderStates, None, Statuses
<1>2. sender' \in SenderStates
  BY <1>1 DEF NodeTypes
<1>3. NodeTypes'
  BY <1>2 DEF NodeTypes, OrdersOf
<1>4. sender'.now <= now'
  BY <1>1, <1>2 DEF FileInv, NodeTypes, Idle, SenderStates
<1>5. \A w \in DOMAIN archive : now' > w + Hour + Grace
  <2>1. now \in Nat /\ Hour \in Nat /\ Grace \in Nat /\ \A w \in DOMAIN archive : w \in Nat
    BY AgesAssumption, WindowsAre DEF NodeTypes
  <2>2. \A w \in DOMAIN archive : now > w + Hour + Grace
    BY DEF FileInv
  <2> QED
    BY <2>1, <2>2
<1>6. CASE sender' = Idle
  <2>1. sender'.pc = "idle"
    BY <1>6 DEF Idle
  <2> QED
    BY <1>3, <1>4, <1>5, <2>1 DEF FileInv
<1>7. CASE sender' = sender
  BY <1>3, <1>4, <1>5, <1>7 DEF FileInv
<1> QED
  BY <1>6, <1>7
-----------------------------------------------------------------------------
(* Calls: the node waits for at most one, and only in settleWindow.        *)

CallTypes ==
    \A c \in DOMAIN calls :
        calls[c] \in CallStates /\ calls[c].rest \in Seq(OrdersOf(calls[c].window))

Waiting ==
    \A c \in DOMAIN calls : calls[c].waited =>
        sender.pc = "wait" /\ \A d \in DOMAIN calls : calls[d].waited => c = d

LEMMA InitCalls == Init => CallTypes /\ Waiting
BY DEF Init, CallTypes, Waiting

\* The amounts of one more order are still amounts.
LEMMA AddedIs ==
    ASSUME NEW settled \in Settlements, NEW o \in Orders
    PROVE  Added(settled, ActionOf[o], Amounts[o]) \in Settlements
<1>1. ActionOf[o] \in Actions /\ Amounts[o] \in Nat \ {0}
  BY OrdersAssumption
<1>2. PICK A \in SUBSET Actions : settled \in [A -> Nat \ {0}]
  BY DEF Settlements
<1>3. Added(settled, ActionOf[o], Amounts[o]) \in [A \cup {ActionOf[o]} -> Nat \ {0}]
  BY <1>1, <1>2 DEF Added, Amount
<1> QED
  BY <1>1, <1>3 DEF Settlements

LEMMA NoDataIs == NoData \in Settlements
<1>1. NoData \in [{} -> Nat \ {0}]
  BY DEF NoData
<1> QED
  BY <1>1 DEF Settlements

\* Calls that are gone, or that the node hung up on.
LEMMA CallsFewer ==
    ASSUME CallTypes, Waiting, DOMAIN calls' \subseteq DOMAIN calls,
           \A c \in DOMAIN calls' :
              calls'[c] = calls[c] \/ calls'[c] = [calls[c] EXCEPT !.waited = FALSE],
           (\E c \in DOMAIN calls' : calls'[c].waited) => sender'.pc = sender.pc
    PROVE  CallTypes' /\ Waiting'
<1>1. ASSUME NEW c \in DOMAIN calls'
      PROVE  /\ calls'[c] \in CallStates /\ calls'[c].rest \in Seq(OrdersOf(calls'[c].window))
             /\ calls'[c].waited => calls[c].waited
  <2>1. c \in DOMAIN calls /\ calls[c] \in CallStates
        /\ calls[c].rest \in Seq(OrdersOf(calls[c].window))
    BY <1>1 DEF CallTypes
  <2>2. CASE calls'[c] = calls[c]
    BY <2>1, <2>2
  <2>3. CASE calls'[c] = [calls[c] EXCEPT !.waited = FALSE]
    BY <2>1, <2>3 DEF CallStates
  <2> QED
    BY <1>1, <2>2, <2>3
<1>2. CallTypes'
  BY <1>1 DEF CallTypes, OrdersOf
<1>3. Waiting'
  BY <1>1 DEF Waiting
<1> QED
  BY <1>2, <1>3

\* One call goes on.
LEMMA CallChanged ==
    ASSUME CallTypes, Waiting, NEW c \in DOMAIN calls, NEW call \in CallStates,
           call.rest \in Seq(OrdersOf(call.window)), call.waited = calls[c].waited,
           calls' = [calls EXCEPT ![c] = call], sender' = sender
    PROVE  CallTypes' /\ Waiting'
<1>1. DOMAIN calls' = DOMAIN calls /\ calls'[c] = call
      /\ \A d \in DOMAIN calls : d # c => calls'[d] = calls[d]
  OBVIOUS
<1>2. CallTypes'
  BY <1>1 DEF CallTypes, OrdersOf
<1>3. \A d \in DOMAIN calls : calls'[d].waited = calls[d].waited
  BY <1>1
<1>4. Waiting'
  BY <1>1, <1>3 DEF Waiting
<1> QED
  BY <1>2, <1>4

LEMMA NextCalls ==
    ASSUME NodeTypes, FileInv, CallTypes, Waiting, [Next]_vars
    PROVE  CallTypes' /\ Waiting'
<1>1. ASSUME calls' = calls, sender' = sender PROVE CallTypes' /\ Waiting'
  BY <1>1, CallsFewer
<1>2. ASSUME calls' = calls, sender.pc # "wait" PROVE CallTypes' /\ Waiting'
  <2>1. \A c \in DOMAIN calls' : ~calls'[c].waited
    BY <1>2 DEF Waiting
  <2> QED
    BY <1>2, <2>1, CallsFewer
<1>3. ASSUME calls' = HungUp PROVE CallTypes' /\ Waiting'
  <2>1. DOMAIN calls' = DOMAIN calls
        /\ \A c \in DOMAIN calls' : calls'[c] = [calls[c] EXCEPT !.waited = FALSE]
    BY <1>3 DEF HungUp
  <2>2. \A c \in DOMAIN calls' : ~calls'[c].waited
    BY <2>1 DEF CallTypes, CallStates
  <2> QED
    BY <2>1, <2>2, CallsFewer
<1>4. ASSUME NEW c \in DOMAIN calls, calls' = Without(calls, c),
             calls[c].waited \/ sender' = sender
      PROVE  CallTypes' /\ Waiting'
  <2>1. DOMAIN calls' = DOMAIN calls \ {c}
        /\ \A d \in DOMAIN calls' : calls'[d] = calls[d]
    BY <1>4 DEF Without, Restrict
  <2>2. (\E d \in DOMAIN calls' : calls'[d].waited) => sender'.pc = sender.pc
    BY <1>4, <2>1 DEF Waiting
  <2> QED
    BY <2>1, <2>2, CallsFewer
<1>5. CASE Send
  <2>1. PICK x : calls' = With(calls, x,
                     [pc |-> "receive", waited |-> TRUE, rest |-> sender.orders, seen |-> {},
                      window |-> sender.window, settled |-> NoData, charge |-> {},
                      status |-> None, until |-> now + SenderTimeout])
    BY <1>5 DEF Send
  <2> DEFINE call == [pc |-> "receive", waited |-> TRUE, rest |-> sender.orders, seen |-> {},
                      window |-> sender.window, settled |-> NoData, charge |-> {},
                      status |-> None, until |-> now + SenderTimeout]
  <2>2. sender.pc = "send" /\ sender'.pc = "wait"
    BY <1>5 DEF Send, NodeTypes, SenderStates
  <2>3. sender.window \in DOMAIN unsent /\ unsent[sender.window] = sender.orders
    BY <2>2 DEF FileInv
  <2>4. sender.orders \in Seq(Orders) /\ sender.orders \in Seq(OrdersOf(sender.window))
        /\ sender.window \in Windows
    BY <2>3 DEF NodeTypes, SenderStates
  <2>5. now + SenderTimeout \in Nat
    BY AgesAssumption DEF NodeTypes
  <2>6. call \in CallStates
    BY <2>4, <2>5, NoDataIs DEF CallStates, None, Statuses
  <2>7. DOMAIN calls' = DOMAIN calls \cup {x} /\ calls'[x] = call
        /\ \A d \in DOMAIN calls : d # x => calls'[d] = calls[d]
    BY <2>1 DEF With
  <2>8. \A d \in DOMAIN calls : ~calls[d].waited
    BY <2>2 DEF Waiting
  <2> HIDE DEF call
  <2>9. call.rest \in Seq(OrdersOf(call.window))
    BY <2>4 DEF call
  <2>10. CallTypes'
    BY <2>6, <2>7, <2>9 DEF CallTypes, OrdersOf
  <2>11. Waiting'
    BY <2>2, <2>7, <2>8 DEF Waiting
  <2> QED
    BY <2>10, <2>11
<1>6. ASSUME NEW c \in DOMAIN calls, Receive(c) PROVE CallTypes' /\ Waiting'
  <2> DEFINE call == calls[c]
  <2>1. /\ call \in CallStates /\ call.rest \in Seq(OrdersOf(call.window)) /\ sender' = sender
    BY <1>6 DEF Receive, CallTypes
  <2>2. CASE call.rest = <<>>
    <3>1. calls' = [calls EXCEPT ![c] = [call EXCEPT !.pc = "settle"]]
      BY <1>6, <2>2 DEF Receive
    <3>2. [call EXCEPT !.pc = "settle"] \in CallStates
      BY <2>1 DEF CallStates
    <3> QED
      BY <2>1, <3>1, <3>2, CallChanged DEF CallStates
  <2>3. CASE call.rest # <<>>
    <3>1. /\ Head(call.rest) \in Orders /\ Tail(call.rest) \in Seq(Orders)
          /\ Tail(call.rest) \in Seq(OrdersOf(call.window))
      BY <2>1, <2>3 DEF CallStates
    <3>2. CASE ~Counts(call, Head(call.rest))
      <4>1. calls' = [calls EXCEPT ![c] = [call EXCEPT !.rest = Tail(@)]]
        BY <1>6, <2>3, <3>2 DEF Receive
      <4>2. [call EXCEPT !.rest = Tail(@)] \in CallStates
        BY <2>1, <3>1 DEF CallStates
      <4> QED
        BY <2>1, <3>1, <4>1, <4>2, CallChanged DEF CallStates
    <3>3. CASE Counts(call, Head(call.rest))
      <4> DEFINE o == Head(call.rest)
                 next == [call EXCEPT !.rest = Tail(call.rest), !.seen = call.seen \union {o},
                             !.settled = Added(call.settled, ActionOf[o], Amounts[o])]
      <4>1. calls' = [calls EXCEPT ![c] = next]
        BY <1>6, <2>3, <3>3 DEF Receive
      <4>2. Added(call.settled, ActionOf[o], Amounts[o]) \in Settlements
        BY <2>1, <3>1, AddedIs DEF CallStates
      <4>3. next \in CallStates
        BY <2>1, <3>1, <4>2 DEF CallStates
      <4> QED
        BY <2>1, <3>1, <4>1, <4>3, CallChanged DEF CallStates
    <3> QED
      BY <3>2, <3>3
  <2> QED
    BY <2>2, <2>3
<1>7. ASSUME NEW c \in DOMAIN calls, Settle(c) PROVE CallTypes' /\ Waiting'
  <2> DEFINE call == calls[c]
  <2>1. /\ call \in CallStates /\ call.rest \in Seq(OrdersOf(call.window)) /\ sender' = sender
    BY <1>7 DEF Settle, CallTypes
  <2>2. PICK charge \in SUBSET UserActions :
           calls' = [calls EXCEPT ![c] =
                       [@ EXCEPT !.pc = "charge", !.status = StatusOf(call), !.seen = {},
                                 !.charge = charge]]
    BY <1>7 DEF Settle, ToCharge
  <2>3. StatusOf(call) \in Statuses
    BY DEF StatusOf, Statuses
  <2>4. [call EXCEPT !.pc = "charge", !.status = StatusOf(call), !.seen = {}, !.charge = charge]
           \in CallStates
    BY <2>1, <2>2, <2>3 DEF CallStates
  <2> QED
    BY <2>1, <2>2, <2>4, CallChanged DEF CallStates
<1>8. ASSUME NEW c \in DOMAIN calls, NEW a \in UserActions, Charge(c, a) PROVE CallTypes' /\ Waiting'
  <2> DEFINE call == calls[c]
  <2>1. /\ call \in CallStates /\ call.rest \in Seq(OrdersOf(call.window)) /\ sender' = sender
        /\ calls' = [calls EXCEPT ![c] = [call EXCEPT !.charge = @ \ {a}]]
    BY <1>8 DEF Charge, CallTypes
  <2>2. [call EXCEPT !.charge = @ \ {a}] \in CallStates
    BY <2>1 DEF CallStates
  <2> QED
    BY <2>1, <2>2, CallChanged DEF CallStates
<1>9. ASSUME NEW c \in DOMAIN calls, HandlerFails(c) \/ SettleUnknown(c) \/ Answer(c)
      PROVE  CallTypes' /\ Waiting'
  BY <1>4, <1>9 DEF HandlerFails, SettleUnknown, Answer, Failing
<1>10. CASE SatelliteRestart
  BY <1>10 DEF SatelliteRestart, CallTypes, Waiting
<1>11. CASE SettleFails \/ NodeRestart
  BY <1>3, <1>11 DEF SettleFails, NodeRestart
<1>12. CASE SendOrders \/ List \/ Read \/ Archive \/ ArchiveFails
  BY <1>2, <1>12 DEF SendOrders, List, Read, Archive, ArchiveFails
<1>13. ASSUME NEW o \in Orders, BeginEnqueue(o) \/ Commit(o) \/ Abort(o) \/ CommitFails(o)
       PROVE  CallTypes' /\ Waiting'
  BY <1>1, <1>13 DEF BeginEnqueue, Commit, Abort, CommitFails
<1>14. ASSUME NEW w \in Windows, CleanArchive(w) PROVE CallTypes' /\ Waiting'
  BY <1>1, <1>14 DEF CleanArchive
<1>15. CASE ArchiveRollups \/ StopSatellite \/ Flusher \/ FlushFails \/ Tick \/ UNCHANGED vars
  BY <1>1, <1>15 DEF ArchiveRollups, StopSatellite, Flusher, FlushFails, Tick, vars
<1> QED
  BY <1>5, <1>6, <1>7, <1>8, <1>9, <1>10, <1>11, <1>12, <1>13, <1>14, <1>15
     DEF Next, SenderStep, HandlerStep

-----------------------------------------------------------------------------
(* The steps that the files are about *)

\* Something is written to a file of a window with an upload.
LEMMA FileWritten ==
    ASSUME NodeTypes, FileInv, NEW o \in active, NEW file \in Seq(OrdersOf(Window(o))),
           active' = active \ {o}, unsent' = With(unsent, Window(o), file),
           now' = now, archive' = archive, sender' = sender
    PROVE  NodeTypes' /\ FileInv'
<1>1. /\ DOMAIN unsent' = DOMAIN unsent \cup {Window(o)} /\ unsent'[Window(o)] = file
      /\ \A w \in DOMAIN unsent : w # Window(o) => unsent'[w] = unsent[w]
  BY DEF With
<1>2. Window(o) \in Windows
  BY WindowIs DEF NodeTypes
<1>3. NodeTypes'
  BY <1>1, <1>2 DEF NodeTypes, OrdersOf
<1>4. \A w \in DOMAIN archive : w \notin DOMAIN unsent'
  BY <1>1 DEF FileInv
<1>5. CASE sender.pc \in {"read", "send", "wait", "archive"}
  <2>1. sender.window # Window(o)
    BY <1>5 DEF FileInv
  <2> QED
    BY <1>1, <1>3, <1>4, <1>5, <2>1 DEF FileInv
<1>6. CASE sender.pc \notin {"read", "send", "wait", "archive"}
  BY <1>3, <1>4, <1>6 DEF FileInv
<1> QED
  BY <1>5, <1>6

\* The sender goes on; the files stay.
LEMMA SenderGoesOn ==
    ASSUME NodeTypes, FileInv, sender' \in SenderStates, sender'.now <= now,
           now' = now, unsent' = unsent, archive' = archive, active' = active,
           sender'.pc \in {"read", "send", "wait", "archive"} =>
              /\ sender'.window \in DOMAIN unsent
              /\ sender'.now > sender'.window + Hour + Grace
              /\ \A o \in active : Window(o) # sender'.window,
           sender'.pc \in {"send", "wait", "archive"} => unsent[sender'.window] = sender'.orders
    PROVE  NodeTypes' /\ FileInv'
BY DEF NodeTypes, FileInv, OrdersOf

LEMMA ListFiles ==
    ASSUME NodeTypes, FileInv, List
    PROVE  NodeTypes' /\ FileInv'
<1>1. CASE sender' = Idle
  <2>1. now \in Nat /\ now >= now
    BY DEF NodeTypes
  <2> QED
    BY <1>1, <2>1, FilesUntouched DEF List, nodeVars
<1>2. ASSUME NEW w \in Listed, sender' = [sender EXCEPT !.pc = "read", !.window = w]
      PROVE  NodeTypes' /\ FileInv'
  <2>1. w \in DOMAIN unsent /\ sender.now - (w + Hour) > Grace /\ \A o \in active : Window(o) # w
    BY DEF Listed, GraceOver, NoneActive, ActiveIn
  <2>2. w \in Nat /\ sender.now \in Nat /\ Hour \in Nat /\ Grace \in Nat
    BY <2>1, AgesAssumption, WindowsAre DEF NodeTypes, SenderStates
  <2>3. sender.now > w + Hour + Grace
    BY <2>1, <2>2
  <2>4. /\ sender' \in SenderStates /\ sender'.now = sender.now /\ sender'.window = w
        /\ sender'.pc = "read"
    BY <1>2, <2>2 DEF NodeTypes, SenderStates
  <2> QED
    BY <2>1, <2>3, <2>4, SenderGoesOn DEF List, nodeVars, FileInv
<1> QED
  BY <1>1, <1>2 DEF List

LEMMA ReadFiles ==
    ASSUME NodeTypes, FileInv, Read
    PROVE  NodeTypes' /\ FileInv'
<1>1. sender.pc = "read"
  BY DEF Read
<1>2. sender.window \in DOMAIN unsent /\ unsent[sender.window] \in Seq(OrdersOf(sender.window))
  BY <1>1 DEF FileInv, NodeTypes
<1>3. unsent[sender.window] \in Seq(Orders)
  BY <1>2 DEF OrdersOf
<1>4. /\ sender' \in SenderStates /\ sender'.now = sender.now /\ sender'.window = sender.window
      /\ sender'.pc = "send" /\ sender'.orders = unsent[sender.window]
  BY <1>3 DEF Read, NodeTypes, SenderStates
<1> QED
  BY <1>1, <1>2, <1>4, SenderGoesOn DEF Read, nodeVars, FileInv

LEMMA ArchiveFiles ==
    ASSUME NodeTypes, FileInv, Archive
    PROVE  NodeTypes' /\ FileInv'
<1> DEFINE w == sender.window
<1>1. sender.pc = "archive" /\ sender \in SenderStates
  BY DEF Archive, NodeTypes
<1>2. w \in DOMAIN unsent /\ sender.now > w + Hour + Grace /\ sender.now <= now
      /\ \A o \in active : Window(o) # w
  BY <1>1 DEF FileInv
<1>3. /\ DOMAIN archive' = DOMAIN archive \cup {w} /\ DOMAIN unsent' = DOMAIN unsent \ {w}
      /\ \A v \in DOMAIN unsent' : unsent'[v] = unsent[v]
  BY DEF Archive, With, Without, Restrict
<1>4. now' = now /\ active' = active
  BY DEF Archive
<1>5. sender' \in SenderStates /\ sender'.now = sender.now /\ sender'.pc = "list"
  BY <1>1, IdleIs DEF Archive, SenderStates
<1>6. NodeTypes'
  BY <1>2, <1>3, <1>4, <1>5 DEF NodeTypes, OrdersOf
<1>7. now > w + Hour + Grace
  <2>1. now \in Nat /\ sender.now \in Nat /\ w \in Nat /\ Hour \in Nat /\ Grace \in Nat
    BY <1>1, AgesAssumption DEF NodeTypes, SenderStates
  <2> QED
    BY <1>2, <2>1
<1>8. \A v \in DOMAIN archive' : v \notin DOMAIN unsent' /\ now' > v + Hour + Grace
                                 /\ \A o \in active' : Window(o) # v
  BY <1>2, <1>3, <1>4, <1>7 DEF FileInv
<1>9. FileInv'
  BY <1>2, <1>4, <1>5, <1>8 DEF FileInv
<1> QED
  BY <1>6, <1>9

LEMMA BeginFiles ==
    ASSUME NodeTypes, FileInv, NEW o \in Orders, BeginEnqueue(o)
    PROVE  NodeTypes' /\ FileInv'
<1>1. Window(o) \in Nat /\ Window(o) \in Windows /\ now < Window(o) + Hour + Grace
  BY WindowIs, TakenEarly DEF BeginEnqueue
<1>2. now \in Nat /\ Hour \in Nat /\ Grace \in Nat /\ sender.now \in Nat /\ sender.window \in Nat
      /\ \A w \in DOMAIN archive : w \in Nat
  BY AgesAssumption, WindowsAre DEF NodeTypes, SenderStates
<1>3. \A w \in Nat : now > w + Hour + Grace => Window(o) # w
  BY <1>1, <1>2
<1>4. now' = now /\ unsent' = unsent /\ archive' = archive /\ sender' = sender
      /\ active' = active \cup {o}
  BY DEF BeginEnqueue
<1>5. NodeTypes'
  BY <1>4 DEF NodeTypes, OrdersOf
<1>6. \A w \in DOMAIN archive : Window(o) # w
  BY <1>2, <1>3 DEF FileInv
<1>7. sender.pc \in {"read", "send", "wait", "archive"} => Window(o) # sender.window
  <2>1. sender.now > sender.window + Hour + Grace /\ sender.now <= now
           => now > sender.window + Hour + Grace
    BY <1>2
  <2> QED
    BY <1>2, <1>3, <2>1 DEF FileInv
<1> QED
  BY <1>4, <1>5, <1>6, <1>7 DEF FileInv

LEMMA FileIs ==
    ASSUME NodeTypes, NEW w
    PROVE  File(w) \in Seq(OrdersOf(w))
BY DEF File, NodeTypes

LEMMA NextFiles ==
    ASSUME NodeTypes, FileInv, CallTypes, Waiting, [Next]_vars
    PROVE  NodeTypes' /\ FileInv'
<1>0. now \in Nat /\ now + 1 \in Nat /\ now + 1 >= now /\ now >= now
  BY DEF NodeTypes
<1>1. ASSUME NEW o \in Orders, BeginEnqueue(o) PROVE NodeTypes' /\ FileInv'
  BY <1>1, BeginFiles
<1>2. ASSUME NEW o \in Orders, Commit(o) PROVE NodeTypes' /\ FileInv'
  <2>1. o \in OrdersOf(Window(o))
    BY DEF OrdersOf
  <2>2. Append(File(Window(o)), o) \in Seq(OrdersOf(Window(o)))
    BY <2>1, FileIs
  <2> QED
    BY <1>2, <2>2, FileWritten DEF Commit
<1>3. ASSUME NEW o \in Orders, CommitFails(o) PROVE NodeTypes' /\ FileInv'
  BY <1>3, FileIs, FileWritten DEF CommitFails
<1>4. CASE SendOrders
  <2>1. sender' \in SenderStates /\ sender'.now = now /\ sender'.pc = "list"
    BY <1>4 DEF SendOrders, NodeTypes, SenderStates
  <2> QED
    BY <1>0, <1>4, <2>1, SenderGoesOn DEF SendOrders, nodeVars
<1>5. CASE Send
  <2>1. sender.pc = "send" /\ sender' \in SenderStates /\ sender'.now = sender.now
        /\ sender'.pc = "wait" /\ sender'.window = sender.window /\ sender'.orders = sender.orders
    BY <1>5 DEF Send, NodeTypes, SenderStates
  <2> QED
    BY <1>5, <2>1, SenderGoesOn DEF Send, nodeVars, FileInv
<1>6. ASSUME NEW c \in DOMAIN calls, Answer(c) PROVE NodeTypes' /\ FileInv'
  <2>1. CASE ~calls[c].waited
    BY <1>0, <1>6, <2>1, FilesUntouched DEF Answer, nodeVars
  <2>2. CASE calls[c].waited
    <3>1. sender.pc = "wait" /\ calls[c].status \in Statuses \cup {None}
      BY <2>2 DEF Waiting, CallTypes, CallStates
    <3>2. sender' \in SenderStates /\ sender'.now = sender.now /\ sender'.pc = "archive"
          /\ sender'.window = sender.window /\ sender'.orders = sender.orders
      BY <1>6, <2>2, <3>1 DEF Answer, NodeTypes, SenderStates
    <3> QED
      BY <1>6, <3>1, <3>2, SenderGoesOn DEF Answer, nodeVars, FileInv
  <2> QED
    BY <2>1, <2>2
<1>7. CASE ArchiveFails
  <2>1. sender' \in SenderStates /\ sender'.now = sender.now /\ sender'.pc = "list"
    BY <1>7, IdleIs DEF ArchiveFails, NodeTypes, SenderStates
  <2> QED
    BY <1>7, <2>1, SenderGoesOn DEF ArchiveFails, nodeVars, FileInv
<1>8. ASSUME NEW w \in Windows, CleanArchive(w) PROVE NodeTypes' /\ FileInv'
  <2>1. DOMAIN archive' \subseteq DOMAIN archive
    BY <1>8 DEF CleanArchive, Without, Restrict
  <2>2. NodeTypes'
    BY <1>8, <2>1 DEF CleanArchive, NodeTypes, OrdersOf
  <2> QED
    BY <1>8, <2>1, <2>2 DEF CleanArchive, FileInv
<1>9. ASSUME NEW o \in Orders, Abort(o) PROVE NodeTypes' /\ FileInv'
  BY <1>0, <1>9, FilesUntouched DEF Abort
<1>10. CASE SettleFails \/ NodeRestart
  BY <1>0, <1>10, FilesUntouched DEF SettleFails, NodeRestart, nodeVars
<1>11. ASSUME NEW c \in DOMAIN calls, HandlerFails(c) \/ SettleUnknown(c)
       PROVE  NodeTypes' /\ FileInv'
  BY <1>0, <1>11, FilesUntouched DEF HandlerFails, SettleUnknown, Failing, nodeVars
<1>12. ASSUME NEW c \in DOMAIN calls, Receive(c) \/ Settle(c) \/ \E a \in UserActions : Charge(c, a)
       PROVE  NodeTypes' /\ FileInv'
  BY <1>0, <1>12, FilesUntouched DEF Receive, Settle, Charge, nodeVars
<1>13. CASE ArchiveRollups \/ StopSatellite \/ SatelliteRestart \/ Flusher \/ FlushFails \/ Tick
            \/ UNCHANGED vars
  BY <1>0, <1>13, FilesUntouched DEF ArchiveRollups, StopSatellite, SatelliteRestart, Flusher,
     FlushFails, Tick, nodeVars, vars
<1>14. CASE List
  BY <1>14, ListFiles
<1>15. CASE Read
  BY <1>15, ReadFiles
<1>16. CASE Archive
  BY <1>16, ArchiveFiles
<1> QED
  BY <1>1, <1>2, <1>3, <1>4, <1>5, <1>6, <1>7, <1>8, <1>9, <1>10, <1>11, <1>12, <1>13, <1>14,
     <1>15, <1>16 DEF Next, SenderStep, HandlerStep

\* While a file is sent and after it was archived nothing is added to it
\* (SentFileComplete), though it is read without the lock of Commit.
THEOREM SentFileCorrect == Spec => []SentFileComplete
<1> DEFINE IInv == NodeTypes /\ FileInv /\ CallTypes /\ Waiting
<1>1. Init => IInv
  BY InitFiles, InitCalls
<1>2. IInv /\ [Next]_vars => IInv'
  BY NextFiles, NextCalls
<1>3. IInv => SentFileComplete
  BY DEF FileInv, SentFileComplete
<1> QED
  BY <1>1, <1>2, <1>3, PTL DEF Spec

-----------------------------------------------------------------------------
(* What the node is credited.  A row is made once, and before any row of its *)
(* window is archived: a call that counted an order ends before that, for no *)
(* order is counted after it expired, and no call lasts longer than           *)
(* SenderTimeout (AgesAssumption).                                            *)

CreditInv ==
    /\ DOMAIN rows \subseteq Windows
    /\ \A w \in DOMAIN rows : rows[w] \in Settlements
    /\ rowArchive \in [Windows -> [Actions -> Nat]]
    /\ \A w \in Windows, a \in Actions :
          rowArchive[w][a] # 0 => w \notin DOMAIN rows /\ now >= w + ArchiveAge
    /\ \A c \in DOMAIN calls :
          /\ now <= calls[c].until /\ calls[c].until <= now + SenderTimeout
          /\ calls[c].settled # NoData =>
                calls[c].until < calls[c].window + Hour + Lifetime + SenderTimeout
          /\ calls[c].status # None => calls[c].pc = "charge"
          /\ calls[c].status = "ACCEPTED" =>
                /\ calls[c].settled # NoData
                /\ calls[c].window \in DOMAIN rows =>
                      rows[calls[c].window] = calls[c].settled
                /\ calls[c].window \notin DOMAIN rows =>
                      \A a \in Actions :
                         rowArchive[calls[c].window][a] = Amount(calls[c].settled, a)

LEMMA InitCredits == Init => CreditInv
BY DEF Init, CreditInv

LEMMA AmountIs ==
    ASSUME NEW settled \in Settlements, NEW a
    PROVE  Amount(settled, a) \in Nat
<1>1. PICK A \in SUBSET Actions : settled \in [A -> Nat \ {0}]
  BY DEF Settlements
<1> QED
  BY <1>1 DEF Amount

\* A settlement of any order is of some amount.
LEMMA SomethingSettled ==
    ASSUME NEW settled \in Settlements, settled # NoData
    PROVE  \E a \in Actions : Amount(settled, a) # 0
<1>1. PICK A \in SUBSET Actions : settled \in [A -> Nat \ {0}]
  BY DEF Settlements
<1>2. CASE A = {}
  BY <1>1, <1>2 DEF NoData
<1>3. CASE A # {}
  BY <1>1, <1>3 DEF Amount
<1> QED
  BY <1>2, <1>3

\* What was settled for a window was settled while no row of it is archived.
LEMMA NotArchivedYet ==
    ASSUME NodeTypes, CallTypes, CreditInv, NEW c \in DOMAIN calls, calls[c].settled # NoData,
           NEW a \in Actions
    PROVE  rowArchive[calls[c].window][a] = 0
<1> DEFINE w == calls[c].window
<1>1. w \in Windows /\ w \in Nat /\ calls[c].until \in Nat
  BY WindowsAre DEF CallTypes, CallStates
<1>2. now <= calls[c].until /\ calls[c].until < w + Hour + Lifetime + SenderTimeout
  BY DEF CreditInv
<1>3. ~(now >= w + ArchiveAge)
  BY <1>1, <1>2, AgesAssumption, SMTT(30) DEF NodeTypes
<1> QED
  BY <1>1, <1>3 DEF CreditInv

\* What a call that was accepted has counted is what the node was paid.
LEMMA AcceptedPaid ==
    ASSUME NodeTypes, CallTypes, CreditInv
    PROVE  AcceptedIsPaid
<1> SUFFICES ASSUME NEW c \in DOMAIN calls, calls[c].status = "ACCEPTED", NEW a \in Actions
             PROVE  Paid(calls[c].window, a) = Amount(calls[c].settled, a)
  BY DEF AcceptedIsPaid
<1> DEFINE w == calls[c].window
<1>1. w \in Windows /\ calls[c].settled \in Settlements
  BY DEF CallTypes, CallStates
<1>2. Amount(calls[c].settled, a) \in Nat /\ rowArchive[w][a] \in Nat
  BY <1>1, AmountIs DEF CreditInv
<1>3. CASE w \in DOMAIN rows
  <2>1. rows[w] = calls[c].settled /\ calls[c].settled # NoData
    BY <1>3 DEF CreditInv
  <2>2. rowArchive[w][a] = 0
    BY <2>1, NotArchivedYet
  <2> QED
    BY <1>2, <1>3, <2>1, <2>2 DEF Paid
<1>4. CASE w \notin DOMAIN rows
  <2>1. rowArchive[w][a] = Amount(calls[c].settled, a)
    BY <1>4 DEF CreditInv
  <2> QED
    BY <1>2, <1>4, <2>1 DEF Paid
<1> QED
  BY <1>3, <1>4

\* Calls that end, or that go on without counting.
LEMMA CreditsUntouched ==
    ASSUME CreditInv, now' = now, rows' = rows, rowArchive' = rowArchive,
           DOMAIN calls' \subseteq DOMAIN calls,
           \A c \in DOMAIN calls' :
              /\ calls'[c].until = calls[c].until /\ calls'[c].window = calls[c].window
              /\ calls'[c].settled = calls[c].settled /\ calls'[c].status = calls[c].status
              /\ calls[c].pc = "charge" => calls'[c].pc = "charge"
    PROVE  CreditInv'
<1>1. ASSUME NEW c \in DOMAIN calls'
      PROVE  /\ now' <= calls'[c].until /\ calls'[c].until <= now' + SenderTimeout
             /\ calls'[c].settled # NoData =>
                   calls'[c].until < calls'[c].window + Hour + Lifetime + SenderTimeout
             /\ calls'[c].status # None => calls'[c].pc = "charge"
             /\ calls'[c].status = "ACCEPTED" =>
                  /\ calls'[c].settled # NoData
                  /\ calls'[c].window \in DOMAIN rows' =>
                        rows'[calls'[c].window] = calls'[c].settled
                  /\ calls'[c].window \notin DOMAIN rows' =>
                        \A a \in Actions :
                           rowArchive'[calls'[c].window][a] = Amount(calls'[c].settled, a)
  BY <1>1 DEF CreditInv
<1> QED
  BY <1>1 DEF CreditInv

\* A window that had no row gets one.
LEMMA RowMade ==
    ASSUME NodeTypes, CallTypes, CreditInv, NEW c \in DOMAIN calls,
           calls[c].settled # NoData, calls[c].window \notin DOMAIN rows, calls[c].pc = "settle",
           now' = now, rowArchive' = rowArchive,
           rows' = With(rows, calls[c].window, calls[c].settled),
           DOMAIN calls' \subseteq DOMAIN calls,
           \A d \in DOMAIN calls' :
              /\ calls'[d].until = calls[d].until /\ calls'[d].window = calls[d].window
              /\ calls'[d].settled = calls[d].settled
              /\ d # c => calls'[d] = calls[d]
              /\ d = c => calls'[d].pc = "charge"
    PROVE  CreditInv'
<1> DEFINE w == calls[c].window
<1>1. w \in Windows /\ calls[c].settled \in Settlements
  BY DEF CallTypes, CallStates
<1>2. /\ DOMAIN rows' = DOMAIN rows \cup {w} /\ rows'[w] = calls[c].settled
      /\ \A v \in DOMAIN rows : v # w => rows'[v] = rows[v]
  BY DEF With
<1>3. \A a \in Actions : rowArchive[w][a] = 0
  BY NotArchivedYet
<1>4. ASSUME NEW d \in DOMAIN calls, d # c PROVE ~(calls[d].status = "ACCEPTED" /\ calls[d].window = w)
  <2>1. SUFFICES ASSUME calls[d].status = "ACCEPTED", calls[d].window = w PROVE FALSE
    OBVIOUS
  <2>2. calls[d].settled \in Settlements /\ calls[d].settled # NoData
    BY <2>1 DEF CallTypes, CallStates, CreditInv
  <2>3. \A a \in Actions : rowArchive[w][a] = Amount(calls[d].settled, a)
    BY <2>1 DEF CreditInv
  <2> QED
    BY <1>3, <2>2, <2>3, SomethingSettled
<1>5. ASSUME NEW d \in DOMAIN calls'
      PROVE  /\ now' <= calls'[d].until /\ calls'[d].until <= now' + SenderTimeout
             /\ calls'[d].settled # NoData =>
                   calls'[d].until < calls'[d].window + Hour + Lifetime + SenderTimeout
             /\ calls'[d].status # None => calls'[d].pc = "charge"
             /\ calls'[d].status = "ACCEPTED" =>
                  /\ calls'[d].settled # NoData
                  /\ calls'[d].window \in DOMAIN rows' =>
                        rows'[calls'[d].window] = calls'[d].settled
                  /\ calls'[d].window \notin DOMAIN rows' =>
                        \A a \in Actions :
                           rowArchive'[calls'[d].window][a] = Amount(calls'[d].settled, a)
  <2>1. CASE d = c
    BY <1>2, <2>1 DEF CreditInv
  <2>2. CASE d # c
    BY <1>2, <1>4, <1>5, <2>2 DEF CreditInv
  <2> QED
    BY <2>1, <2>2
<1>6. DOMAIN rows' \subseteq Windows /\ \A v \in DOMAIN rows' : rows'[v] \in Settlements
  BY <1>1, <1>2 DEF CreditInv
<1>7. \A v \in Windows, a \in Actions :
         rowArchive'[v][a] # 0 => v \notin DOMAIN rows' /\ now' >= v + ArchiveAge
  BY <1>2, <1>3 DEF CreditInv
<1> QED
  BY <1>5, <1>6, <1>7 DEF CreditInv

\* An order is counted no later than it expires.
LEMMA CountedInTime ==
    ASSUME NodeTypes, CallTypes, CreditInv, NEW c \in DOMAIN calls,
           calls[c].rest # <<>>, Counts(calls[c], Head(calls[c].rest))
    PROVE  calls[c].until < calls[c].window + Hour + Lifetime + SenderTimeout
<1> DEFINE o == Head(calls[c].rest)
<1>1. calls[c] \in CallStates /\ calls[c].rest \in Seq(OrdersOf(calls[c].window))
  BY DEF CallTypes
<1>2. o \in OrdersOf(calls[c].window)
  BY <1>1
<1>3. o \in Orders /\ Window(o) = calls[c].window
  BY <1>2 DEF OrdersOf
<1>4. CreatedAt[o] < calls[c].window + Hour /\ calls[c].window \in Nat /\ CreatedAt[o] \in Nat
  BY <1>3, WindowIs, OrdersAssumption
<1>5. ~(CreatedAt[o] + Lifetime < now)
  BY DEF Counts, Expired, ExpiresAt
<1>6. calls[c].until <= now + SenderTimeout /\ calls[c].until \in Nat
  BY <1>1 DEF CreditInv, CallStates
<1>7. now \in Nat /\ Hour \in Nat /\ Lifetime \in Nat /\ SenderTimeout \in Nat
  BY AgesAssumption DEF NodeTypes
<1> HIDE DEF o
<1>8. now < calls[c].window + Hour + Lifetime
  BY <1>4, <1>5, <1>7
<1> QED
  BY <1>4, <1>6, <1>7, <1>8

LEMMA ReceiveCredits ==
    ASSUME NodeTypes, CallTypes, CreditInv, NEW c \in DOMAIN calls, Receive(c)
    PROVE  CreditInv'
<1> DEFINE call == calls[c]
           o == Head(call.rest)
<1>1. call \in CallStates /\ call.pc = "receive"
  BY DEF Receive, CallTypes
<1>0. call.status = None
  BY <1>1 DEF CreditInv
<1>2. now' = now /\ rows' = rows /\ rowArchive' = rowArchive
  BY DEF Receive, dbVars
<1>3. CASE call.rest = <<>> \/ ~Counts(call, o)
  <2>1. CASE call.rest = <<>>
    <3>1. calls' = [calls EXCEPT ![c] = [call EXCEPT !.pc = "settle"]]
      BY <2>1 DEF Receive
    <3> QED
      BY <1>1, <1>2, <3>1, CreditsUntouched DEF CallStates
  <2>2. CASE call.rest # <<>> /\ ~Counts(call, o)
    <3>1. calls' = [calls EXCEPT ![c] = [call EXCEPT !.rest = Tail(@)]]
      BY <2>2 DEF Receive
    <3> QED
      BY <1>1, <1>2, <3>1, CreditsUntouched DEF CallStates
  <2> QED
    BY <1>3, <2>1, <2>2
<1>4. CASE call.rest # <<>> /\ Counts(call, o)
  <2>1. calls' = [calls EXCEPT ![c] =
                    [call EXCEPT !.rest = Tail(call.rest), !.seen = call.seen \union {o},
                       !.settled = Added(call.settled, ActionOf[o], Amounts[o])]]
    BY <1>4 DEF Receive
  <2>2. /\ DOMAIN calls' = DOMAIN calls /\ calls'[c].status = None
        /\ calls'[c].until = call.until /\ calls'[c].window = call.window
        /\ \A d \in DOMAIN calls : d # c => calls'[d] = calls[d]
    BY <1>0, <1>1, <2>1 DEF CallStates
  <2>3. call.until < call.window + Hour + Lifetime + SenderTimeout
    BY <1>4, CountedInTime
  <2>4. ASSUME NEW d \in DOMAIN calls'
        PROVE  /\ now' <= calls'[d].until /\ calls'[d].until <= now' + SenderTimeout
               /\ calls'[d].settled # NoData =>
                     calls'[d].until < calls'[d].window + Hour + Lifetime + SenderTimeout
               /\ calls'[d].status # None => calls'[d].pc = "charge"
               /\ calls'[d].status = "ACCEPTED" =>
                    /\ calls'[d].settled # NoData
                    /\ calls'[d].window \in DOMAIN rows' =>
                          rows'[calls'[d].window] = calls'[d].settled
                    /\ calls'[d].window \notin DOMAIN rows' =>
                          \A a \in Actions :
                             rowArchive'[calls'[d].window][a] = Amount(calls'[d].settled, a)
    <3>1. CASE d = c
      BY <1>2, <2>2, <2>3, <3>1 DEF CreditInv, None
    <3>2. CASE d # c
      BY <1>2, <2>2, <2>4, <3>2 DEF CreditInv
    <3> QED
      BY <3>1, <3>2
  <2> QED
    BY <1>2, <2>4 DEF CreditInv
<1> QED
  BY <1>3, <1>4

LEMMA SettleCredits ==
    ASSUME NodeTypes, CallTypes, CreditInv, NEW c \in DOMAIN calls, Settle(c)
    PROVE  CreditInv'
<1> DEFINE call == calls[c]
           status == StatusOf(call)
           first == status = "ACCEPTED" /\ ~AlreadyProcessed(call)
<1>1. call \in CallStates /\ call.pc = "settle" /\ now' = now /\ rowArchive' = rowArchive
  BY DEF Settle, CallTypes
<1>2. calls' = [calls EXCEPT ![c] =
                  [call EXCEPT !.pc = "charge", !.status = status, !.seen = {},
                     !.charge = IF first THEN ToCharge(call) ELSE {}]]
  BY DEF Settle
<1>3. /\ DOMAIN calls' = DOMAIN calls /\ calls'[c].pc = "charge" /\ calls'[c].status = status
      /\ calls'[c].until = call.until /\ calls'[c].window = call.window
      /\ calls'[c].settled = call.settled
      /\ \A d \in DOMAIN calls : d # c => calls'[d] = calls[d]
  <2> HIDE DEF status, first
  <2> QED
    BY <1>1, <1>2 DEF CallStates
<1>4. CASE first
  <2>1. call.settled # NoData /\ call.window \notin DOMAIN rows
    BY <1>4 DEF StatusOf, AlreadyProcessed
  <2>2. rows' = With(rows, call.window, call.settled)
    BY <1>4 DEF Settle
  <2> QED
    BY <1>1, <1>3, <2>1, <2>2, RowMade
<1>5. CASE ~first
  <2>1. rows' = rows
    BY <1>5 DEF Settle
  <2>2. status = "ACCEPTED" =>
           call.settled # NoData /\ call.window \in DOMAIN rows /\ rows[call.window] = call.settled
    BY <1>5 DEF StatusOf, AlreadyProcessed, SettledAmountsMatch
  <2>3. ASSUME NEW d \in DOMAIN calls'
        PROVE  /\ now' <= calls'[d].until /\ calls'[d].until <= now' + SenderTimeout
               /\ calls'[d].settled # NoData =>
                     calls'[d].until < calls'[d].window + Hour + Lifetime + SenderTimeout
               /\ calls'[d].status # None => calls'[d].pc = "charge"
               /\ calls'[d].status = "ACCEPTED" =>
                    /\ calls'[d].settled # NoData
                    /\ calls'[d].window \in DOMAIN rows' =>
                          rows'[calls'[d].window] = calls'[d].settled
                    /\ calls'[d].window \notin DOMAIN rows' =>
                          \A a \in Actions :
                             rowArchive'[calls'[d].window][a] = Amount(calls'[d].settled, a)
    <3> HIDE DEF status, first
    <3>1. CASE d = c
      BY <1>1, <1>3, <2>1, <2>2, <3>1 DEF CreditInv
    <3>2. CASE d # c
      BY <1>1, <1>3, <2>1, <2>3, <3>2 DEF CreditInv
    <3> QED
      BY <3>1, <3>2
  <2> QED
    BY <1>1, <2>1, <2>3 DEF CreditInv
<1> QED
  BY <1>4, <1>5

LEMMA ArchiveCredits ==
    ASSUME NodeTypes, CallTypes, CreditInv, ArchiveRollups
    PROVE  CreditInv'
<1> DEFINE old == {w \in DOMAIN rows : Archivable(w)}
<1>1. now' = now /\ calls' = calls /\ now \in Nat /\ ArchiveAge \in Nat
  BY AgesAssumption DEF ArchiveRollups, NodeTypes
<1>2. /\ DOMAIN rows' = DOMAIN rows \ old
      /\ \A w \in DOMAIN rows' : rows'[w] = rows[w]
  BY DEF ArchiveRollups, Restrict
<1>3. rowArchive' = [w \in Windows |-> [a \in Actions |->
                        rowArchive[w][a] + IF w \in old THEN Amount(rows[w], a) ELSE 0]]
  BY DEF ArchiveRollups
<1>4. \A w \in old, a \in Actions : Amount(rows[w], a) \in Nat
  BY AmountIs DEF CreditInv
<1>5. \A w \in old : w \in Windows /\ w \in Nat /\ w \in DOMAIN rows /\ w <= now - ArchiveAge
  BY WindowsAre DEF Archivable, CreditInv
<1>6. \A w \in old, a \in Actions : rowArchive[w][a] = 0
  BY <1>5 DEF CreditInv
<1>7. /\ \A w \in Windows \ old, a \in Actions : rowArchive'[w][a] = rowArchive[w][a]
      /\ \A w \in old, a \in Actions : rowArchive'[w][a] = Amount(rows[w], a)
  <2> HIDE DEF old
  <2> QED
    BY <1>3, <1>4, <1>5, <1>6 DEF CreditInv
<1>8. rowArchive' \in [Windows -> [Actions -> Nat]]
  <2> HIDE DEF old
  <2> QED
    BY <1>3, <1>4 DEF CreditInv
<1>9. \A w \in old : now >= w + ArchiveAge
  BY <1>1, <1>5
<1>10. \A w \in Windows, a \in Actions :
          rowArchive'[w][a] # 0 => w \notin DOMAIN rows' /\ now' >= w + ArchiveAge
  <2> HIDE DEF old
  <2> QED
    BY <1>1, <1>2, <1>7, <1>9 DEF CreditInv
<1>11. ASSUME NEW d \in DOMAIN calls', calls'[d].status = "ACCEPTED"
       PROVE  /\ calls'[d].settled # NoData
              /\ calls'[d].window \in DOMAIN rows' => rows'[calls'[d].window] = calls'[d].settled
              /\ calls'[d].window \notin DOMAIN rows' =>
                    \A a \in Actions :
                       rowArchive'[calls'[d].window][a] = Amount(calls'[d].settled, a)
  <2>1. calls'[d].window \in Windows
    BY <1>1, <1>11 DEF CallTypes, CallStates
  <2> HIDE DEF old
  <2>2. CASE calls'[d].window \in old
    BY <1>1, <1>2, <1>5, <1>7, <1>11, <2>2 DEF CreditInv
  <2>3. CASE calls'[d].window \notin old
    BY <1>1, <1>2, <1>7, <1>11, <2>1, <2>3 DEF CreditInv
  <2> QED
    BY <2>2, <2>3
<1>12. DOMAIN rows' \subseteq Windows /\ \A w \in DOMAIN rows' : rows'[w] \in Settlements
  BY <1>2 DEF CreditInv
<1> HIDE DEF old
<1> QED
  BY <1>1, <1>8, <1>10, <1>11, <1>12 DEF CreditInv

LEMMA NextCredits ==
    ASSUME NodeTypes, FileInv, CallTypes, Waiting, CreditInv, [Next]_vars
    PROVE  CreditInv'
<1>1. ASSUME now' = now, dbVars' = dbVars, calls' = calls PROVE CreditInv'
  BY <1>1, CreditsUntouched DEF dbVars
<1>2. ASSUME now' = now, dbVars' = dbVars, calls' = HungUp PROVE CreditInv'
  <2>1. DOMAIN calls' = DOMAIN calls
        /\ \A c \in DOMAIN calls' : calls[c] \in CallStates
                                    /\ calls'[c] = [calls[c] EXCEPT !.waited = FALSE]
    BY <1>2 DEF HungUp, CallTypes
  <2> QED
    BY <1>2, <2>1, CreditsUntouched DEF dbVars, CallStates
<1>3. ASSUME NEW c, calls' = Without(calls, c)
      PROVE  DOMAIN calls' = DOMAIN calls \ {c} /\ \A d \in DOMAIN calls' : calls'[d] = calls[d]
  BY <1>3 DEF Without, Restrict
<1>4. ASSUME NEW c \in DOMAIN calls, Answer(c) \/ HandlerFails(c) PROVE CreditInv'
  BY <1>3, <1>4, CreditsUntouched DEF Answer, HandlerFails, Failing, dbVars
<1>5. ASSUME NEW c \in DOMAIN calls, SettleUnknown(c) PROVE CreditInv'
  BY <1>3, <1>5, RowMade DEF SettleUnknown, Failing, AlreadyProcessed
<1>6. ASSUME NEW c \in DOMAIN calls, NEW a \in UserActions, Charge(c, a) PROVE CreditInv'
  <2>1. calls[c] \in CallStates /\ now' = now /\ rows' = rows /\ rowArchive' = rowArchive
        /\ calls' = [calls EXCEPT ![c] = [calls[c] EXCEPT !.charge = @ \ {a}]]
    BY <1>6 DEF Charge, CallTypes, dbVars
  <2> QED
    BY <2>1, CreditsUntouched DEF CallStates
<1>7. CASE Send
  <2> DEFINE call == [pc |-> "receive", waited |-> TRUE, rest |-> sender.orders, seen |-> {},
                      window |-> sender.window, settled |-> NoData, charge |-> {},
                      status |-> None, until |-> now + SenderTimeout]
  <2>1. PICK x : calls' = With(calls, x, call)
    BY <1>7 DEF Send
  <2>2. DOMAIN calls' = DOMAIN calls \cup {x} /\ calls'[x] = call
        /\ \A d \in DOMAIN calls : d # x => calls'[d] = calls[d]
    BY <2>1 DEF With
  <2>3. now' = now /\ rows' = rows /\ rowArchive' = rowArchive
    BY <1>7 DEF Send, dbVars
  <2>4. call.until = now + SenderTimeout /\ call.settled = NoData /\ call.status = None
        /\ now <= now + SenderTimeout
    BY AgesAssumption DEF NodeTypes
  <2> HIDE DEF call
  <2>5. ASSUME NEW d \in DOMAIN calls'
        PROVE  /\ now' <= calls'[d].until /\ calls'[d].until <= now' + SenderTimeout
               /\ calls'[d].settled # NoData =>
                     calls'[d].until < calls'[d].window + Hour + Lifetime + SenderTimeout
               /\ calls'[d].status # None => calls'[d].pc = "charge"
               /\ calls'[d].status = "ACCEPTED" =>
                    /\ calls'[d].settled # NoData
                    /\ calls'[d].window \in DOMAIN rows' =>
                          rows'[calls'[d].window] = calls'[d].settled
                    /\ calls'[d].window \notin DOMAIN rows' =>
                          \A a \in Actions :
                             rowArchive'[calls'[d].window][a] = Amount(calls'[d].settled, a)
    <3>1. CASE d = x
      <4>1. now + SenderTimeout <= now + SenderTimeout
        BY AgesAssumption DEF NodeTypes
      <4> QED
        BY <2>2, <2>3, <2>4, <3>1, <4>1 DEF None
    <3>2. CASE d # x
      BY <2>2, <2>3, <2>5, <3>2 DEF CreditInv
    <3> QED
      BY <3>1, <3>2
  <2> QED
    BY <2>3, <2>5 DEF CreditInv
<1>8. CASE Tick
  <2>1. now \in Nat /\ now' = now + 1 /\ rows' = rows /\ rowArchive' = rowArchive
        /\ calls' = calls /\ SenderTimeout \in Nat /\ ArchiveAge \in Nat
        /\ Windows \subseteq Nat
    BY <1>8, WindowsAre, AgesAssumption DEF Tick, NodeTypes, dbVars
  <2>2. \A c \in DOMAIN calls : /\ calls[c].until \in Nat /\ now < calls[c].until
                                /\ calls[c].until <= now + SenderTimeout
    BY <1>8 DEF Tick, CallTypes, CallStates, CreditInv
  <2>3. \A c \in DOMAIN calls : now' <= calls[c].until /\ calls[c].until <= now' + SenderTimeout
    BY <2>1, <2>2
  <2>4. \A w \in Windows : now >= w + ArchiveAge => now' >= w + ArchiveAge
    BY <2>1
  <2> QED
    BY <2>1, <2>3, <2>4 DEF CreditInv
<1>9. CASE SatelliteRestart
  <2>1. DOMAIN calls' = {} /\ now' = now /\ rows' = rows /\ rowArchive' = rowArchive
    BY <1>9 DEF SatelliteRestart, dbVars
  <2> QED
    BY <2>1, CreditsUntouched
<1>10. CASE SettleFails \/ NodeRestart
  BY <1>2, <1>10 DEF SettleFails, NodeRestart
<1>11. ASSUME NEW o \in Orders, BeginEnqueue(o) \/ Commit(o) \/ Abort(o) \/ CommitFails(o)
       PROVE  CreditInv'
  BY <1>1, <1>11 DEF BeginEnqueue, Commit, Abort, CommitFails
<1>12. ASSUME NEW w \in Windows, CleanArchive(w) PROVE CreditInv'
  BY <1>1, <1>12 DEF CleanArchive
<1>13. CASE SendOrders \/ List \/ Read \/ Archive \/ ArchiveFails \/ StopSatellite \/ Flusher
            \/ FlushFails \/ UNCHANGED vars
  BY <1>1, <1>13 DEF SendOrders, List, Read, Archive, ArchiveFails, StopSatellite, Flusher,
     FlushFails, vars
<1>14. ASSUME NEW c \in DOMAIN calls, Receive(c) \/ Settle(c) PROVE CreditInv'
  BY <1>14, ReceiveCredits, SettleCredits
<1>15. CASE ArchiveRollups
  BY <1>15, ArchiveCredits
<1> QED
  BY <1>4, <1>5, <1>6, <1>7, <1>8, <1>9, <1>10, <1>11, <1>12, <1>13, <1>14, <1>15
     DEF Next, SenderStep, HandlerStep

\* A call that answers ACCEPTED has counted exactly what the node was credited
\* for the window (AcceptedIsPaid), in this call or in an earlier one whose
\* answer was lost, and whether its rows are archived by now or not.
THEOREM AcceptedCorrect == Spec => []AcceptedIsPaid
<1> DEFINE IInv == NodeTypes /\ FileInv /\ CallTypes /\ Waiting /\ CreditInv
<1>1. Init => IInv
  BY InitFiles, InitCalls, InitCredits
<1>2. IInv /\ [Next]_vars => IInv'
  BY NextFiles, NextCalls, NextCredits
<1>3. IInv => AcceptedIsPaid
  BY AcceptedPaid
<1> QED
  BY <1>1, <1>2, <1>3, PTL DEF Spec

-----------------------------------------------------------------------------
(* What is in the cache.  Each amount is in the pending data or in the batch of *)
(* one flusher; the sum over the flushers changes where a batch does.           *)

Data == UNION {[K -> Nat] : K \in SUBSET Keys}

\* Only who is flushing has a batch.
CacheTypes ==
    /\ DOMAIN flusher = Flushers
    /\ pendingRollups \in Data
    /\ batch \in [Flushers -> Data]
    /\ rollups \in [Keys -> Nat]
    /\ lost \in [Keys -> Nat]
    /\ \A f \in Flushers : flusher[f] # "flushing" => batch[f] = NoData

Batches(b, k) == [f \in Flushers |-> Amount(b[f], k)]

LEMMA FlushersFinite == IsFiniteSet(Flushers)
<1>1. IsFiniteSet({"worker", "chore", "close"})
  <2>1. IsFiniteSet({} \cup {"worker"})
    BY FS_EmptySet, FS_AddElement
  <2>2. IsFiniteSet(({} \cup {"worker"}) \cup {"chore"})
    BY <2>1, FS_AddElement
  <2>3. IsFiniteSet((({} \cup {"worker"}) \cup {"chore"}) \cup {"close"})
    BY <2>2, FS_AddElement
  <2>4. (({} \cup {"worker"}) \cup {"chore"}) \cup {"close"} = {"worker", "chore", "close"}
    OBVIOUS
  <2> QED
    BY <2>3, <2>4
<1> QED
  BY <1>1, CacheAssumption, FS_Subset

LEMMA DataAmount ==
    ASSUME NEW data \in Data, NEW k
    PROVE  Amount(data, k) \in Nat
<1>1. PICK K \in SUBSET Keys : data \in [K -> Nat]
  BY DEF Data
<1> QED
  BY <1>1 DEF Amount

LEMMA EmptyData ==
    /\ NoData \in Data
    /\ \A k : Amount(NoData, k) = 0
<1>1. NoData \in [{} -> Nat] /\ DOMAIN NoData = {}
  BY DEF NoData
<1> QED
  BY <1>1 DEF Data, Amount

LEMMA DataAdded ==
    ASSUME NEW data \in Data, NEW key \in Keys, NEW n \in Nat
    PROVE  /\ Added(data, key, n) \in Data
           /\ \A k : Amount(Added(data, key, n), k)
                        = Amount(data, k) + IF k = key THEN n ELSE 0
<1>1. PICK K \in SUBSET Keys : data \in [K -> Nat]
  BY DEF Data
<1>2. \A k : Amount(data, k) \in Nat
  BY DataAmount
<1>3. PICK more : more = Added(data, key, n)
  OBVIOUS
<1>4. /\ DOMAIN more = K \cup {key}
      /\ \A k \in K \cup {key} : more[k] = Amount(data, k) + IF k = key THEN n ELSE 0
      /\ more = [k \in K \cup {key} |-> more[k]]
  BY <1>1, <1>3 DEF Added
<1>5. more \in [K \cup {key} -> Nat]
  <2>1. \A k \in K \cup {key} : more[k] \in Nat
    BY <1>2, <1>4
  <2> QED
    BY <1>4, <2>1
<1>6. more \in Data
  BY <1>5 DEF Data
<1>7. ASSUME NEW k
      PROVE  Amount(more, k) = Amount(data, k) + IF k = key THEN n ELSE 0
  <2>1. CASE k \in K \cup {key}
    BY <1>4, <2>1 DEF Amount
  <2>2. CASE k \notin K \cup {key}
    BY <1>1, <1>4, <2>2 DEF Amount
  <2> QED
    BY <2>1, <2>2
<1> QED
  BY <1>3, <1>6, <1>7

LEMMA InCacheIs ==
    ASSUME NEW k
    PROVE  /\ InCache(k) = Amount(pendingRollups, k)
                             + SumFunctionOnSet(Batches(batch, k), Flushers)
           /\ InCache(k)' = Amount(pendingRollups', k)
                             + SumFunctionOnSet(Batches(batch', k), Flushers)
BY DEF InCache, SumFunction, Batches, Amount

LEMMA BatchesAre ==
    ASSUME NEW b \in [Flushers -> Data], NEW k
    PROVE  /\ SumFunctionOnSet(Batches(b, k), Flushers) \in Nat
           /\ \A f \in Flushers : Batches(b, k)[f] = Amount(b[f], k) /\ Batches(b, k)[f] \in Nat
<1>1. \A f \in Flushers : Batches(b, k)[f] = Amount(b[f], k)
  BY DEF Batches
<1>2. \A f \in Flushers : Batches(b, k)[f] \in Nat
  BY <1>1, DataAmount
<1> QED
  BY <1>1, <1>2, FlushersFinite, SumNat

LEMMA BatchChanged ==
    ASSUME NEW b \in [Flushers -> Data], NEW c \in [Flushers -> Data], NEW f \in Flushers,
           \A g \in Flushers : g # f => c[g] = b[g], NEW k
    PROVE  SumFunctionOnSet(Batches(c, k), Flushers)
              = SumFunctionOnSet(Batches(b, k), Flushers) - Amount(b[f], k) + Amount(c[f], k)
<1>1. PICK s : s = Batches(b, k)
  OBVIOUS
<1>2. PICK t : t = Batches(c, k)
  OBVIOUS
<1>3. \A g \in Flushers : s[g] = Amount(b[g], k) /\ s[g] \in Int
  BY <1>1, BatchesAre
<1>4. \A g \in Flushers : t[g] = Amount(c[g], k) /\ t[g] \in Int
  BY <1>2, BatchesAre
<1>5. SumFunctionOnSet(t, Flushers) = SumFunctionOnSet(s, Flushers) - s[f] + t[f]
  BY <1>3, <1>4, FlushersFinite, SumUpdate
<1> QED
  BY <1>1, <1>2, <1>3, <1>4, <1>5

LEMMA InCacheNat ==
    ASSUME CacheTypes, NEW k
    PROVE  /\ InCache(k) \in Nat /\ Amount(pendingRollups, k) \in Nat
           /\ \A f \in Flushers : Amount(batch[f], k) \in Nat
<1>1. Amount(pendingRollups, k) \in Nat /\ \A f \in Flushers : Amount(batch[f], k) \in Nat
  BY DataAmount DEF CacheTypes
<1>2. PICK b : b = batch
  OBVIOUS
<1>3. SumFunctionOnSet(Batches(batch, k), Flushers) \in Nat
  BY <1>2, BatchesAre DEF CacheTypes
<1> QED
  BY <1>1, <1>3, InCacheIs

\* The pending data is replaced, the batches stay.
LEMMA KeepCounts ==
    ASSUME CacheTypes, pendingRollups' \in Data, batch' = batch, NEW k
    PROVE  InCache(k)' = InCache(k) - Amount(pendingRollups, k) + Amount(pendingRollups', k)
<1>1. PICK s : s = SumFunctionOnSet(Batches(batch, k), Flushers)
  OBVIOUS
<1>2. PICK b : b = batch
  OBVIOUS
<1>3. s \in Nat
  BY <1>1, <1>2, BatchesAre DEF CacheTypes
<1>4. InCache(k) = Amount(pendingRollups, k) + s /\ InCache(k)' = Amount(pendingRollups', k) + s
  BY <1>1, InCacheIs
<1>5. Amount(pendingRollups, k) \in Nat /\ Amount(pendingRollups', k) \in Nat
  BY DataAmount DEF CacheTypes
<1> QED
  BY <1>3, <1>4, <1>5

\* One batch is replaced, and the pending data.
LEMMA BatchCounts ==
    ASSUME CacheTypes, pendingRollups' \in Data, NEW f \in Flushers, NEW data \in Data,
           batch' = [batch EXCEPT ![f] = data],
           NEW k
    PROVE  InCache(k)' = InCache(k) - Amount(pendingRollups, k) + Amount(pendingRollups', k)
                            - Amount(batch[f], k) + Amount(data, k)
<1>1. PICK b : b = batch
  OBVIOUS
<1>2. PICK c : c = batch'
  OBVIOUS
<1>3. b \in [Flushers -> Data] /\ c \in [Flushers -> Data] /\ c[f] = data
      /\ \A g \in Flushers : g # f => c[g] = b[g]
  BY <1>1, <1>2 DEF CacheTypes
<1>4. PICK s : s = SumFunctionOnSet(Batches(b, k), Flushers)
  OBVIOUS
<1>5. PICK t : t = SumFunctionOnSet(Batches(c, k), Flushers)
  OBVIOUS
<1>6. t = s - Amount(batch[f], k) + Amount(data, k)
  BY <1>1, <1>3, <1>4, <1>5, BatchChanged
<1>7. s \in Nat /\ t \in Nat
  BY <1>3, <1>4, <1>5, BatchesAre
<1>8. InCache(k) = Amount(pendingRollups, k) + s /\ InCache(k)' = Amount(pendingRollups', k) + t
  BY <1>1, <1>2, <1>4, <1>5, InCacheIs
<1>9. Amount(pendingRollups, k) \in Nat /\ Amount(pendingRollups', k) \in Nat
      /\ Amount(batch[f], k) \in Nat /\ Amount(data, k) \in Nat
  BY DataAmount DEF CacheTypes
<1> QED
  BY <1>6, <1>7, <1>8, <1>9

\* What became of the amounts of a key in the cache: written, waiting or lost.
Kept(k) == rollups[k] + InCache(k) + lost[k]

LEMMA TakeTypes ==
    ASSUME CacheTypes, NEW f \in Flushers, NEW data \in Data, Take(f, data),
           rollups' = rollups, lost' \in [Keys -> Nat]
    PROVE  CacheTypes'
<1>1. batch' \in [Flushers -> Data] /\ DOMAIN flusher' = Flushers /\ pendingRollups' \in Data
  BY EmptyData DEF Take, CacheTypes
<1>2. \A g \in Flushers : flusher'[g] # "flushing" => batch'[g] = NoData
  BY DEF Take, CacheTypes
<1> QED
  BY <1>1, <1>2 DEF CacheTypes

LEMMA TakeCounts ==
    ASSUME CacheTypes, NEW f \in Flushers, flusher[f] # "flushing", NEW data \in Data,
           Take(f, data), NEW k
    PROVE  InCache(k)' = InCache(k) - Amount(pendingRollups, k) + Amount(data, k)
<1>1. batch' = [batch EXCEPT ![f] = data] /\ pendingRollups' = NoData /\ batch[f] = NoData
  BY DEF Take, CacheTypes
<1>2. Amount(pendingRollups', k) = 0 /\ Amount(batch[f], k) = 0 /\ pendingRollups' \in Data
  BY <1>1, EmptyData
<1>3. InCache(k)' = InCache(k) - Amount(pendingRollups, k) + Amount(pendingRollups', k)
                       - Amount(batch[f], k) + Amount(data, k)
  BY <1>1, <1>2, BatchCounts
<1>4. InCache(k) \in Nat /\ Amount(pendingRollups, k) \in Nat /\ Amount(data, k) \in Nat
  BY InCacheNat, DataAmount
<1> QED
  BY <1>2, <1>3, <1>4

\* An amount is added to the pending data, with a flush or without, or is lost.
LEMMA UpdateKept ==
    ASSUME CacheTypes, FlusherInv, NEW key \in Keys, NEW n \in Nat, Update(key, n), NEW k
    PROVE  CacheTypes' /\ (k \in Keys => Kept(k)' = Kept(k) + IF k = key THEN n ELSE 0)
<1>1. PICK data : data = IF Refuses(key) THEN pendingRollups ELSE Added(pendingRollups, key, n)
  OBVIOUS
<1>2. /\ lost' = IF Refuses(key) THEN [lost EXCEPT ![key] = @ + n] ELSE lost
      /\ IF Full(data) /\ MayFlush THEN Take("worker", data) ELSE Keep(data)
      /\ rollups' = rollups
  BY <1>1 DEF Update
<1>3. pendingRollups \in Data
  BY DEF CacheTypes
<1>4. /\ data \in Data
      /\ Amount(data, k) = Amount(pendingRollups, k)
                             + IF k = key /\ ~Refuses(key) THEN n ELSE 0
  <2>1. CASE Refuses(key)
    BY <1>1, <1>3, <2>1, DataAmount
  <2>2. CASE ~Refuses(key)
    BY <1>1, <1>3, <2>2, DataAdded
  <2> QED
    BY <2>1, <2>2
<1>5. /\ lost' \in [Keys -> Nat]
      /\ k \in Keys => lost'[k] = lost[k] + IF k = key /\ Refuses(key) THEN n ELSE 0
  <2>1. lost \in [Keys -> Nat]
    BY DEF CacheTypes
  <2>2. CASE Refuses(key)
    BY <1>2, <2>1, <2>2
  <2>3. CASE ~Refuses(key)
    BY <1>2, <2>1, <2>3
  <2> QED
    BY <2>2, <2>3
<1>6. /\ CacheTypes'
      /\ InCache(k)' = InCache(k) - Amount(pendingRollups, k) + Amount(data, k)
  <2>1. CASE Full(data) /\ MayFlush
    <3>1. "worker" \in Flushers /\ flusher["worker"] # "flushing"
      BY <2>1, CacheAssumption DEF MayFlush, FlusherInv, OneFlush
    <3>2. Take("worker", data)
      BY <1>2, <2>1
    <3> QED
      BY <1>2, <1>4, <1>5, <3>1, <3>2, TakeTypes, TakeCounts
  <2>2. CASE ~(Full(data) /\ MayFlush)
    <3>1. pendingRollups' = data /\ batch' = batch /\ flusher' = flusher
      BY <1>2, <2>2 DEF Keep
    <3>2. CacheTypes'
      BY <1>2, <1>4, <1>5, <3>1 DEF CacheTypes
    <3> QED
      BY <1>4, <3>1, <3>2, KeepCounts
  <2> QED
    BY <2>1, <2>2
<1>7. /\ InCache(k) \in Nat /\ Amount(pendingRollups, k) \in Nat
      /\ k \in Keys => rollups[k] \in Nat /\ lost[k] \in Nat
  BY InCacheNat DEF CacheTypes
<1> QED
  BY <1>2, <1>4, <1>5, <1>6, <1>7 DEF Kept

LEMMA UpdateStoppedKept ==
    ASSUME CacheTypes, NEW key \in Keys, NEW n \in Nat, UpdateStopped(key, n), NEW k
    PROVE  CacheTypes' /\ (k \in Keys => Kept(k)' = Kept(k) + IF k = key THEN n ELSE 0)
<1>1. lost' = [lost EXCEPT ![key] = @ + n] /\ UNCHANGED <<pendingRollups, flusher, batch, rollups>>
  BY DEF UpdateStopped
<1>2. /\ lost \in [Keys -> Nat] /\ InCache(k) \in Nat
      /\ Amount(pendingRollups, k) \in Nat
      /\ k \in Keys => rollups[k] \in Nat
  BY InCacheNat DEF CacheTypes
<1>3. /\ lost' \in [Keys -> Nat]
      /\ k \in Keys => lost'[k] = lost[k] + IF k = key THEN n ELSE 0
  BY <1>1, <1>2
<1>4. CacheTypes'
  BY <1>1, <1>3 DEF CacheTypes
<1>5. InCache(k)' = InCache(k) - Amount(pendingRollups, k) + Amount(pendingRollups', k)
  BY <1>1, KeepCounts DEF CacheTypes
<1> QED
  BY <1>1, <1>2, <1>3, <1>4, <1>5 DEF Kept

LEMMA FlushKept ==
    ASSUME CacheTypes, NEW f \in Flushers, NEW from, from # "flushing", Flush(f, from), NEW k
    PROVE  CacheTypes' /\ (k \in Keys => Kept(k)' = Kept(k))
<1>1. /\ flusher[f] # "flushing" /\ rollups' = rollups /\ lost' = lost /\ pendingRollups \in Data
      /\ lost \in [Keys -> Nat]
      /\ k \in Keys => rollups[k] \in Nat
  BY DEF Flush, CacheTypes
<1>2. InCache(k) \in Nat /\ Amount(pendingRollups, k) \in Nat
  BY InCacheNat
<1>3. CASE MayFlush
  <2>1. Take(f, pendingRollups)
    BY <1>3 DEF Flush
  <2>2. CacheTypes'
    BY <1>1, <2>1, TakeTypes
  <2>3. PICK data : data = pendingRollups
    OBVIOUS
  <2>4. InCache(k)' = InCache(k) - Amount(pendingRollups, k) + Amount(data, k)
    BY <1>1, <2>1, <2>3, TakeCounts
  <2> QED
    BY <1>1, <1>2, <2>2, <2>3, <2>4 DEF Kept
<1>4. CASE ~MayFlush
  <2>1. flusher' = [flusher EXCEPT ![f] = "waiting"] /\ pendingRollups' = pendingRollups
        /\ batch' = batch
    BY <1>4 DEF Flush
  <2>2. CacheTypes'
    BY <1>1, <2>1 DEF CacheTypes
  <2>3. InCache(k)' = InCache(k) - Amount(pendingRollups, k) + Amount(pendingRollups', k)
    BY <1>1, <2>1, KeepCounts
  <2> QED
    BY <1>1, <1>2, <2>1, <2>2, <2>3 DEF Kept
<1> QED
  BY <1>3, <1>4

\* A batch is written, or lost.
LEMMA OverKept ==
    ASSUME CacheTypes, NEW f \in Flushers, WriteBatch(f) \/ LoseBatch(f), NEW k
    PROVE  CacheTypes' /\ (k \in Keys => Kept(k)' = Kept(k))
<1>1. /\ batch' = [batch EXCEPT ![f] = NoData] /\ pendingRollups' = pendingRollups
      /\ flusher' = [flusher EXCEPT ![f] = IF f = "close" THEN "done" ELSE "idle"]
  BY DEF WriteBatch, LoseBatch, FlushOver
<1>2. \A x \in Keys : Amount(batch[f], x) \in Nat
  BY DataAmount DEF CacheTypes
<1>3. \/ rollups' = [x \in Keys |-> rollups[x] + Amount(batch[f], x)] /\ lost' = lost
      \/ lost' = [x \in Keys |-> lost[x] + Amount(batch[f], x)] /\ rollups' = rollups
  BY DEF WriteBatch, LoseBatch, Plus
<1>4. rollups \in [Keys -> Nat] /\ lost \in [Keys -> Nat]
  BY DEF CacheTypes
<1>5. /\ rollups' \in [Keys -> Nat] /\ lost' \in [Keys -> Nat]
      /\ k \in Keys => rollups'[k] + lost'[k] = rollups[k] + lost[k] + Amount(batch[f], k)
  BY <1>2, <1>3, <1>4
<1>6. batch' \in [Flushers -> Data]
  BY <1>1, EmptyData DEF CacheTypes
<1>7. CacheTypes'
  BY <1>1, <1>5, <1>6 DEF CacheTypes
<1>8. pendingRollups' \in Data /\ NoData \in Data /\ Amount(NoData, k) = 0
  BY <1>1, EmptyData DEF CacheTypes
<1>9. InCache(k)' = InCache(k) - Amount(pendingRollups, k) + Amount(pendingRollups', k)
                      - Amount(batch[f], k) + Amount(NoData, k)
  BY <1>1, <1>8, BatchCounts
<1>10. /\ InCache(k) \in Nat /\ Amount(pendingRollups, k) \in Nat
       /\ k \in Keys => rollups'[k] \in Nat /\ lost'[k] \in Nat
       /\ Amount(pendingRollups', k) = Amount(pendingRollups, k)
  BY <1>1, <1>5, InCacheNat
<1>11. InCache(k)' = InCache(k) - Amount(batch[f], k)
  <2>1. Amount(batch[f], k) \in Nat
    BY DataAmount DEF CacheTypes
  <2> QED
    BY <1>8, <1>9, <1>10, <2>1
<1>12. PICK i : i = InCache(k)'
  OBVIOUS
<1> QED
  BY <1>2, <1>4, <1>5, <1>7, <1>10, <1>11 DEF Kept

LEMMA FlusherStepKept ==
    ASSUME CacheTypes, FlusherStep, NEW k
    PROVE  CacheTypes' /\ (k \in Keys => Kept(k)' = Kept(k))
<1>1. CASE ChoreFlush
  BY <1>1, FlushKept DEF ChoreFlush, Flush
<1>2. CASE AbandonFlush
  <2>1. "chore" \in Flushers /\ flusher["chore"] = "waiting"
        /\ flusher' = [flusher EXCEPT !["chore"] = "idle"]
        /\ UNCHANGED <<pendingRollups, batch, rollups, lost>>
    BY <1>2 DEF AbandonFlush
  <2>2. CacheTypes'
    BY <2>1 DEF CacheTypes
  <2>3. InCache(k)' = InCache(k) - Amount(pendingRollups, k) + Amount(pendingRollups', k)
    BY <2>1, KeepCounts DEF CacheTypes
  <2>4. InCache(k) \in Nat /\ Amount(pendingRollups, k) \in Nat
    BY InCacheNat
  <2> QED
    BY <2>1, <2>2, <2>3, <2>4 DEF Kept
<1>3. CASE CloseFlush
  BY <1>3, FlushKept DEF CloseFlush, Flush
<1>4. ASSUME NEW f \in {"chore", "close"}, Retry(f)
      PROVE  CacheTypes' /\ (k \in Keys => Kept(k)' = Kept(k))
  BY <1>4, FlushKept DEF Retry, Flush
<1>5. ASSUME NEW f \in Flushers, WriteBatch(f)
      PROVE  CacheTypes' /\ (k \in Keys => Kept(k)' = Kept(k))
  BY <1>5, OverKept
<1> QED
  BY <1>1, <1>2, <1>3, <1>4, <1>5 DEF FlusherStep

\* A process ends: what it held is lost.
LEMMA ProcessEnds ==
    ASSUME CacheTypes, NEW extra \in [Keys -> Nat], NewProcess(extra), NEW k
    PROVE  CacheTypes' /\ (k \in Keys => Kept(k)' = Kept(k) + extra[k])
<1>1. /\ pendingRollups' = NoData /\ batch' = [f \in Flushers |-> NoData]
      /\ flusher' = [f \in Flushers |-> "idle"] /\ rollups' = rollups
      /\ lost' = [x \in Keys |-> lost[x] + InCache(x) + extra[x]]
  BY DEF NewProcess
<1>2. \A x \in Keys : InCache(x) \in Nat
  BY InCacheNat
<1>3. rollups \in [Keys -> Nat] /\ lost \in [Keys -> Nat]
  BY DEF CacheTypes
<1>4. lost' \in [Keys -> Nat] /\ (k \in Keys => lost'[k] = lost[k] + InCache(k) + extra[k])
  BY <1>1, <1>2, <1>3
<1>5. CacheTypes'
  BY <1>1, <1>3, <1>4, EmptyData DEF CacheTypes
<1>6. InCache(k)' = 0
  <2>1. PICK b : b = batch'
    OBVIOUS
  <2>2. \A f \in Flushers : Batches(b, k)[f] = 0
    BY <1>1, <2>1, EmptyData DEF Batches
  <2>3. SumFunctionOnSet(Batches(b, k), Flushers) = 0
    BY <2>2, FlushersFinite, SumZero
  <2>4. Amount(pendingRollups', k) = 0
    BY <1>1, EmptyData
  <2> QED
    BY <2>1, <2>3, <2>4, InCacheIs
<1>7. k \in Keys => /\ rollups[k] \in Nat /\ lost[k] \in Nat /\ InCache(k) \in Nat
                      /\ extra[k] \in Nat
  BY <1>2, <1>3
<1> QED
  BY <1>1, <1>4, <1>5, <1>6, <1>7 DEF Kept

-----------------------------------------------------------------------------
(* Closing.  From the flush of CloseAndFlush on nothing is added any more, and  *)
(* whoever flushes after it finds nothing: the chore may still be waiting.      *)

Closing == "close" \in Flushers /\ flusher["close"] \in {"flushing", "done"}

CloseInv ==
    /\ "close" \in Flushers /\ flusher["close"] # "idle" => stopped
    /\ Closing => /\ pendingRollups = NoData
                  /\ \A f \in Flushers \ {"close"} : batch[f] = NoData

CacheInv == CacheTypes /\ FlusherInv /\ CloseInv

LEMMA InitCache == Init => CacheInv
<1> SUFFICES ASSUME Init PROVE CacheInv
  OBVIOUS
<1>1. CacheTypes
  BY EmptyData DEF Init, CacheInit, CacheTypes
<1>2. CloseInv
  BY DEF Init, CacheInit, CloseInv, Closing
<1> QED
  BY <1>1, <1>2, InitFlusher DEF CacheInv

LEMMA FlushClose ==
    ASSUME CacheInv, NEW f \in Flushers, NEW from, from \notin {"flushing", "done"}, Flush(f, from),
           f = "close" => from # "idle"
    PROVE  CloseInv'
<1>1. flusher[f] = from /\ stopped' = stopped /\ DOMAIN flusher = Flushers
      /\ batch \in [Flushers -> Data]
  BY DEF Flush, CacheInv, CacheTypes
<1>2. "close" \in Flushers /\ flusher["close"] # "idle" => stopped
  BY DEF CacheInv, CloseInv
<1>3. CASE MayFlush
  <2>1. /\ flusher' = [flusher EXCEPT ![f] = "flushing"]
        /\ batch' = [batch EXCEPT ![f] = pendingRollups] /\ pendingRollups' = NoData
    BY <1>3 DEF Flush, Take
  <2>2. \A g \in Flushers : batch[g] = NoData
    BY <1>3 DEF MayFlush, CacheInv, CacheTypes, FlusherInv, OneFlush
  <2>3. Closing' => \A g \in Flushers \ {"close"} : batch'[g] = NoData
    <3>1. CASE f = "close"
      BY <1>1, <2>1, <2>2, <3>1
    <3>2. CASE f # "close"
      <4>1. Closing' => Closing
        BY <1>1, <2>1, <3>2 DEF Closing
      <4> QED
        BY <1>1, <2>1, <2>2, <4>1 DEF CacheInv, CloseInv
    <3> QED
      BY <3>1, <3>2
  <2>4. "close" \in Flushers /\ flusher'["close"] # "idle" => stopped
    BY <1>1, <1>2, <2>1
  <2> QED
    BY <1>1, <2>1, <2>3, <2>4 DEF CloseInv
<1>4. CASE ~MayFlush
  <2>1. flusher' = [flusher EXCEPT ![f] = "waiting"] /\ pendingRollups' = pendingRollups
        /\ batch' = batch
    BY <1>4 DEF Flush
  <2>2. Closing' => Closing
    BY <1>1, <2>1 DEF Closing
  <2> QED
    BY <1>1, <1>2, <2>1, <2>2 DEF CacheInv, CloseInv
<1> QED
  BY <1>3, <1>4

LEMMA OverClose ==
    ASSUME CacheInv, NEW f \in Flushers, FlushOver(f)
    PROVE  CloseInv'
<1>1. /\ flusher[f] = "flushing" /\ stopped' = stopped /\ pendingRollups' = pendingRollups
      /\ flusher' = [flusher EXCEPT ![f] = IF f = "close" THEN "done" ELSE "idle"]
      /\ batch' = [batch EXCEPT ![f] = NoData]
      /\ DOMAIN flusher = Flushers /\ batch \in [Flushers -> Data]
  BY DEF FlushOver, CacheInv, CacheTypes
<1>2. Closing' => Closing
  BY <1>1 DEF Closing
<1>3. "close" \in Flushers /\ flusher'["close"] # "idle" => flusher["close"] # "idle"
  BY <1>1
<1> QED
  BY <1>1, <1>2, <1>3 DEF CacheInv, CloseInv

LEMMA CacheUntouched ==
    ASSUME CacheInv, UNCHANGED cacheVars
    PROVE  CacheInv'
BY DEF CacheInv, CacheTypes, FlusherInv, OneFlush, CloseInv, Closing, cacheVars

LEMMA FlusherStepClose ==
    ASSUME CacheInv, FlusherStep
    PROVE  CloseInv'
<1>1. CASE ChoreFlush
  BY <1>1, FlushClose DEF ChoreFlush, Flush
<1>2. CASE AbandonFlush
  <2>1. "chore" \in Flushers /\ flusher["chore"] = "waiting"
        /\ flusher' = [flusher EXCEPT !["chore"] = "idle"]
        /\ UNCHANGED <<pendingRollups, batch, stopped>>
    BY <1>2 DEF AbandonFlush
  <2> QED
    BY <2>1 DEF CacheInv, CloseInv, Closing
<1>3. CASE CloseFlush
  BY <1>3, FlushClose DEF CloseFlush, Flush
<1>4. ASSUME NEW f \in {"chore", "close"}, Retry(f) PROVE CloseInv'
  BY <1>4, FlushClose DEF Retry, Flush
<1>5. ASSUME NEW f \in Flushers, WriteBatch(f) PROVE CloseInv'
  BY <1>5, OverClose DEF WriteBatch
<1> QED
  BY <1>1, <1>2, <1>3, <1>4, <1>5 DEF FlusherStep

\* Nothing is added to a cache that is stopped.
LEMMA UpdateClose ==
    ASSUME CacheInv, NEW key, NEW n, Update(key, n)
    PROVE  CloseInv'
<1>1. ~stopped /\ stopped' = stopped
  BY DEF Update, Accepting
<1>2. "close" \in Flushers => flusher["close"] = "idle"
  BY <1>1 DEF CacheInv, CloseInv
<1>3. "close" \in Flushers => flusher'["close"] = "idle"
  <2>1. PICK data : IF Full(data) /\ MayFlush THEN Take("worker", data) ELSE Keep(data)
    BY DEF Update
  <2> QED
    BY <1>2, <2>1 DEF Take, Keep, CacheInv, CacheTypes
<1> QED
  BY <1>3 DEF CloseInv, Closing

\* What is in the cache and whether it is closed, in every step of it.
LEMMA ClosedIsEmpty ==
    ASSUME CacheInv
    PROVE  ClosedEmpty
<1> SUFFICES ASSUME Closed, NEW k \in Keys
             PROVE  InCache(k) = 0
  BY DEF ClosedEmpty
<1>1. "close" \in Flushers /\ flusher["close"] = "done"
  BY DEF Closed
<1>2. pendingRollups = NoData /\ \A f \in Flushers : batch[f] = NoData
  BY <1>1 DEF CacheInv, CacheTypes, CloseInv, Closing
<1>3. PICK b : b = batch
  OBVIOUS
<1>4. \A f \in Flushers : Batches(b, k)[f] = 0
  BY <1>2, <1>3, EmptyData DEF Batches
<1>5. SumFunctionOnSet(Batches(b, k), Flushers) = 0
  BY <1>4, FlushersFinite, SumZero
<1>6. Amount(pendingRollups, k) = 0
  BY <1>2, EmptyData
<1> QED
  BY <1>3, <1>5, <1>6, InCacheIs

-----------------------------------------------------------------------------
(* Calls.  The node starts a call when it waits for none; those it hung up on    *)
(* cost a fault each, so there is an id left for the new one.                    *)

Abandoned == {c \in DOMAIN calls : ~calls[c].waited}

ChargeInv ==
    /\ DOMAIN calls \subseteq Calls
    /\ faults \in Nat /\ faults <= MaxFaults
    /\ Cardinality(Abandoned) <= faults
    /\ \A c \in DOMAIN calls :
          /\ calls[c].charge \subseteq DOMAIN calls[c].settled
          /\ calls[c].pc # "charge" => calls[c].charge = {}

LEMMA CallsFinite ==
    /\ IsFiniteSet(Calls) /\ Cardinality(Calls) = MaxFaults + 1 /\ MaxFaults \in Nat
    /\ \A S \in SUBSET Calls : IsFiniteSet(S) /\ Cardinality(S) \in Nat
<1>1. MaxFaults \in Nat /\ MaxFaults + 1 \in Nat /\ 1 \in Int /\ MaxFaults + 1 \in Int
  BY AgesAssumption
<1>2. IsFiniteSet(Calls) /\ Cardinality(Calls) = MaxFaults + 1
  BY <1>1, FS_Interval DEF Calls
<1> QED
  BY <1>1, <1>2, FS_Subset, FS_CardinalityType

LEMMA RoomLeft ==
    ASSUME ChargeInv, Waiting, sender.pc = "send"
    PROVE  \E c \in Calls : c \notin DOMAIN calls
<1>1. DOMAIN calls = Abandoned
  BY DEF Waiting, Abandoned
<1>2. Cardinality(DOMAIN calls) < Cardinality(Calls)
  BY <1>1, CallsFinite DEF ChargeInv
<1>3. Cardinality(Calls) \in Nat
  BY CallsFinite
<1>4. DOMAIN calls # Calls
  BY <1>2, <1>3
<1> QED
  BY <1>4 DEF ChargeInv

\* Nobody is hung up on.
LEMMA RoomKept ==
    ASSUME ChargeInv, DOMAIN calls' \subseteq Calls,
           \A c \in DOMAIN calls' : calls'[c].waited \/ c \in Abandoned,
           faults' \in Nat, faults' >= faults, faults' <= MaxFaults
    PROVE  Cardinality(Abandoned') <= faults'
<1>1. Abandoned' \subseteq Abandoned /\ Abandoned \subseteq Calls
  BY DEF Abandoned, ChargeInv
<1>2. PICK A : A = Abandoned
  OBVIOUS
<1>3. PICK B : B = Abandoned'
  OBVIOUS
<1>4. Cardinality(B) <= Cardinality(A) /\ Cardinality(B) \in Nat /\ Cardinality(A) \in Nat
  BY <1>1, <1>2, <1>3, CallsFinite, FS_Subset
<1>5. Cardinality(A) <= faults /\ faults \in Nat
  BY <1>2 DEF ChargeInv
<1> QED
  BY <1>3, <1>4, <1>5

LEMMA HungUpKept ==
    ASSUME ChargeInv, CallTypes, Waiting, Fault, calls' = HungUp
    PROVE  ChargeInv'
<1>1. /\ DOMAIN calls' = DOMAIN calls
      /\ \A c \in DOMAIN calls : /\ ~calls'[c].waited /\ calls'[c].charge = calls[c].charge
                                 /\ calls'[c].settled = calls[c].settled
                                 /\ calls'[c].pc = calls[c].pc
  BY DEF HungUp, CallTypes, CallStates
<1>2. faults' = faults + 1 /\ faults' \in Nat /\ faults' <= MaxFaults /\ faults \in Nat
  BY CallsFinite DEF Fault, ChargeInv
<1>3. PICK A : A = Abandoned
  OBVIOUS
<1>4. A \subseteq Calls /\ Cardinality(A) <= faults
  BY <1>3 DEF Abandoned, ChargeInv
<1>5. \E x : DOMAIN calls \subseteq A \cup {x}
  <2>1. CASE \E x \in DOMAIN calls : calls[x].waited
    <3>1. PICK x \in DOMAIN calls : calls[x].waited
      BY <2>1
    <3>2. \A d \in DOMAIN calls : calls[d].waited => d = x
      BY <3>1 DEF Waiting
    <3> QED
      BY <1>3, <3>2 DEF Abandoned
  <2>2. CASE ~\E x \in DOMAIN calls : calls[x].waited
    BY <1>3, <2>2 DEF Abandoned
  <2> QED
    BY <2>1, <2>2
<1>6. PICK x : DOMAIN calls \subseteq A \cup {x}
  BY <1>5
<1>7. Cardinality(A \cup {x}) <= Cardinality(A) + 1 /\ IsFiniteSet(A \cup {x})
      /\ Cardinality(A) \in Nat /\ Cardinality(A \cup {x}) \in Nat
  <2>1. IsFiniteSet(A) /\ Cardinality(A) \in Nat
    BY <1>4, CallsFinite
  <2>2. IsFiniteSet(A \cup {x}) /\ (Cardinality(A \cup {x}) = Cardinality(A)
                                     \/ Cardinality(A \cup {x}) = Cardinality(A) + 1)
    BY <2>1, FS_AddElement
  <2> QED
    BY <2>1, <2>2
<1>8. PICK B : B = Abandoned'
  OBVIOUS
<1>9. B \subseteq A \cup {x}
  BY <1>1, <1>6, <1>8 DEF Abandoned
<1>10. Cardinality(B) <= Cardinality(A \cup {x}) /\ Cardinality(B) \in Nat
  BY <1>7, <1>9, FS_Subset, FS_CardinalityType
<1>11. Cardinality(B) <= faults'
  BY <1>2, <1>4, <1>7, <1>10
<1> QED
  BY <1>1, <1>2, <1>8, <1>11 DEF ChargeInv

\* A call that ends, or calls that stay.
LEMMA ChargesFewer ==
    ASSUME ChargeInv, faults' \in Nat, faults' >= faults, faults' <= MaxFaults,
           DOMAIN calls' \subseteq DOMAIN calls, \A c \in DOMAIN calls' : calls'[c] = calls[c]
    PROVE  ChargeInv'
<1>1. DOMAIN calls' \subseteq Calls
  BY DEF ChargeInv
<1>2. Cardinality(Abandoned') <= faults'
  BY <1>1, RoomKept DEF Abandoned
<1> QED
  BY <1>1, <1>2 DEF ChargeInv

\* One call goes on.
LEMMA ChargeChanged ==
    ASSUME ChargeInv, faults' = faults, NEW c \in DOMAIN calls, NEW call,
           calls' = [calls EXCEPT ![c] = call], call.waited = calls[c].waited,
           call.charge \subseteq DOMAIN call.settled,
           call.pc # "charge" => call.charge = {}
    PROVE  ChargeInv'
<1>1. /\ DOMAIN calls' = DOMAIN calls /\ calls'[c] = call
      /\ \A d \in DOMAIN calls : d # c => calls'[d] = calls[d]
  OBVIOUS
<1>2. faults \in Nat /\ faults' >= faults /\ faults' <= MaxFaults
  BY CallsFinite DEF ChargeInv
<1>3. Cardinality(Abandoned') <= faults'
  BY <1>1, <1>2, RoomKept DEF Abandoned, ChargeInv
<1> QED
  BY <1>1, <1>2, <1>3 DEF ChargeInv

LEMMA SendCharges ==
    ASSUME ChargeInv, Waiting, NodeTypes, Send
    PROVE  /\ ChargeInv'
           /\ \E x : /\ x \notin DOMAIN calls /\ DOMAIN calls' = DOMAIN calls \cup {x}
                     /\ calls'[x].charge = {}
                     /\ \A c \in DOMAIN calls : calls'[c] = calls[c]
<1> DEFINE call == [pc |-> "receive", waited |-> TRUE, rest |-> sender.orders, seen |-> {},
                    window |-> sender.window, settled |-> NoData, charge |-> {},
                    status |-> None, until |-> now + SenderTimeout]
<1>1. PICK x : x = CHOOSE c \in Calls \ DOMAIN calls : TRUE
  OBVIOUS
<1>2. x \in Calls /\ x \notin DOMAIN calls
  BY <1>1, RoomLeft DEF Send
<1>3. calls' = With(calls, x, call) /\ faults' = faults
  BY <1>1 DEF Send
<1>4. call.waited = TRUE /\ call.charge = {} /\ call.pc = "receive"
  OBVIOUS
<1> HIDE DEF call
<1>5. /\ DOMAIN calls' = DOMAIN calls \cup {x} /\ calls'[x] = call
      /\ \A c \in DOMAIN calls : calls'[c] = calls[c]
  BY <1>2, <1>3 DEF With
<1>6. faults \in Nat /\ faults' >= faults /\ faults' <= MaxFaults
  BY <1>3, CallsFinite DEF ChargeInv
<1>7. DOMAIN calls' \subseteq Calls
  BY <1>2, <1>5 DEF ChargeInv
<1>8. Cardinality(Abandoned') <= faults'
  BY <1>3, <1>4, <1>5, <1>6, <1>7, RoomKept DEF Abandoned
<1>9. ChargeInv'
  BY <1>3, <1>4, <1>5, <1>7, <1>8 DEF ChargeInv
<1> QED
  BY <1>2, <1>4, <1>5, <1>9

-----------------------------------------------------------------------------
(* What calls still have to charge, and what the node was paid.                *)

ChargeIn(call, k) ==
    IF call.window = k[2] /\ k[1] \in call.charge THEN call.settled[k[1]] ELSE 0

Charges(cs, k) == [c \in DOMAIN cs |-> ChargeIn(cs[c], k)]

LEMMA UnchargedIs ==
    ASSUME NEW k
    PROVE  /\ Uncharged(k) = SumFunctionOnSet(Charges(calls, k), DOMAIN calls)
           /\ Uncharged(k)' = SumFunctionOnSet(Charges(calls', k), DOMAIN calls')
BY DEF Uncharged, SumFunction, Charges, ChargeIn

LEMMA KeyIs ==
    ASSUME NEW k \in Keys
    PROVE  /\ k[1] \in UserActions /\ k[1] \in Actions /\ k[2] \in Windows
           /\ k = <<k[1], k[2]>>
BY OrdersAssumption

LEMMA ChargeIs ==
    ASSUME NEW call, call.settled \in Settlements, call.charge \subseteq DOMAIN call.settled, NEW k
    PROVE  ChargeIn(call, k) \in Nat
<1>1. PICK A \in SUBSET Actions : call.settled \in [A -> Nat \ {0}]
  BY DEF Settlements
<1> QED
  BY <1>1 DEF ChargeIn

LEMMA ChargesAre ==
    ASSUME CallTypes, ChargeInv, NEW k
    PROVE  /\ IsFiniteSet(DOMAIN calls)
           /\ \A c \in DOMAIN calls : /\ Charges(calls, k)[c] = ChargeIn(calls[c], k)
                                      /\ ChargeIn(calls[c], k) \in Nat
           /\ Uncharged(k) \in Nat
<1>1. IsFiniteSet(DOMAIN calls)
  BY CallsFinite DEF ChargeInv
<1>2. ASSUME NEW c \in DOMAIN calls
      PROVE  ChargeIn(calls[c], k) \in Nat
  <2>1. calls[c].settled \in Settlements /\ calls[c].charge \subseteq DOMAIN calls[c].settled
    BY <1>2 DEF CallTypes, CallStates, ChargeInv
  <2>2. PICK call : call = calls[c]
    OBVIOUS
  <2> QED
    BY <2>1, <2>2, ChargeIs
<1>3. PICK s : s = Charges(calls, k)
  OBVIOUS
<1>4. \A c \in DOMAIN calls : s[c] = ChargeIn(calls[c], k)
  BY <1>3 DEF Charges
<1>5. PICK D : D = DOMAIN calls
  OBVIOUS
<1>6. SumFunctionOnSet(s, D) \in Nat
  BY <1>1, <1>2, <1>4, <1>5, SumNat
<1> QED
  BY <1>1, <1>2, <1>3, <1>4, <1>5, <1>6, UnchargedIs

\* Calls whose charges stay, and some that end or begin with nothing to charge.
LEMMA UnchargedSame ==
    ASSUME CallTypes, ChargeInv, NEW k,
           DOMAIN calls' = DOMAIN calls,
           \A c \in DOMAIN calls : ChargeIn(calls'[c], k) = ChargeIn(calls[c], k)
    PROVE  Uncharged(k)' = Uncharged(k)
<1>1. PICK s : s = Charges(calls, k)
  OBVIOUS
<1>2. PICK t : t = Charges(calls', k)
  OBVIOUS
<1>3. PICK D : D = DOMAIN calls
  OBVIOUS
<1>4. IsFiniteSet(D) /\ \A c \in D : s[c] = t[c]
  BY <1>1, <1>2, <1>3, ChargesAre DEF Charges
<1>5. SumFunctionOnSet(s, D) = SumFunctionOnSet(t, D)
  BY <1>4, SumEqual
<1> QED
  BY <1>1, <1>2, <1>3, <1>5, UnchargedIs

LEMMA UnchargedOne ==
    ASSUME CallTypes, ChargeInv, NEW k, NEW c \in DOMAIN calls, NEW call,
           calls' = [calls EXCEPT ![c] = call], ChargeIn(call, k) \in Nat
    PROVE  Uncharged(k)' = Uncharged(k) - ChargeIn(calls[c], k) + ChargeIn(call, k)
<1>1. PICK s : s = Charges(calls, k)
  OBVIOUS
<1>2. PICK t : t = Charges(calls', k)
  OBVIOUS
<1>3. PICK D : D = DOMAIN calls
  OBVIOUS
<1>4. /\ IsFiniteSet(D) /\ \A d \in D : s[d] \in Int /\ s[d] = ChargeIn(calls[d], k)
  BY <1>1, <1>3, ChargesAre
<1>5. /\ DOMAIN calls' = D /\ calls'[c] = call
      /\ \A d \in D : d # c => calls'[d] = calls[d]
  BY <1>3
<1>6. t[c] = ChargeIn(call, k) /\ \A d \in D : d # c => t[d] = s[d]
  <2>1. \A d \in D : t[d] = ChargeIn(calls'[d], k)
    BY <1>2, <1>5 DEF Charges
  <2>2. \A d \in D : s[d] = ChargeIn(calls[d], k)
    BY <1>4
  <2>3. c \in D
    BY <1>3
  <2> QED
    BY <1>5, <2>1, <2>2, <2>3
<1>7. c \in D /\ t[c] \in Int
  BY <1>3, <1>6
<1>8. SumFunctionOnSet(t, D) = SumFunctionOnSet(s, D) - s[c] + t[c]
  BY <1>4, <1>6, <1>7, SumUpdate
<1> QED
  BY <1>1, <1>2, <1>3, <1>4, <1>5, <1>6, <1>7, <1>8, UnchargedIs

LEMMA UnchargedEnds ==
    ASSUME CallTypes, ChargeInv, NEW k, NEW c \in DOMAIN calls, calls[c].charge = {},
           calls' = Without(calls, c)
    PROVE  Uncharged(k)' = Uncharged(k)
<1>1. PICK s : s = Charges(calls, k)
  OBVIOUS
<1>2. PICK t : t = Charges(calls', k)
  OBVIOUS
<1>3. PICK D : D = DOMAIN calls
  OBVIOUS
<1>4. /\ IsFiniteSet(D) /\ \A d \in D : s[d] \in Int /\ s[d] = ChargeIn(calls[d], k)
  BY <1>1, <1>3, ChargesAre
<1>5. DOMAIN calls' = D \ {c} /\ \A d \in D \ {c} : calls'[d] = calls[d]
  BY <1>3 DEF Without, Restrict
<1>6. s[c] = 0
  BY <1>3, <1>4 DEF ChargeIn
<1>7. \A d \in D \ {c} : t[d] = s[d]
  BY <1>1, <1>2, <1>3, <1>5 DEF Charges
<1>8. IsFiniteSet(D \ {c}) /\ c \in D
  BY <1>3, <1>4, FS_Subset
<1>9. SumFunctionOnSet(t, D \ {c}) = SumFunctionOnSet(s, D \ {c})
  BY <1>7, <1>8, SumEqual
<1>10. SumFunctionOnSet(s, D) = s[c] + SumFunctionOnSet(s, D \ {c})
  BY <1>4, <1>8, SumRemove
<1>11. SumFunctionOnSet(s, D \ {c}) \in Int
  BY <1>4, <1>8, SumRemove
<1>12. Uncharged(k)' = SumFunctionOnSet(t, D \ {c})
  BY <1>2, <1>5, UnchargedIs
<1>13. Uncharged(k) = SumFunctionOnSet(s, D)
  BY <1>1, <1>3, UnchargedIs
<1> QED
  BY <1>6, <1>9, <1>10, <1>11, <1>12, <1>13

LEMMA UnchargedBegins ==
    ASSUME CallTypes, ChargeInv, NEW k, NEW x, x \notin DOMAIN calls,
           DOMAIN calls' = DOMAIN calls \cup {x}, calls'[x].charge = {},
           \A c \in DOMAIN calls : calls'[c] = calls[c]
    PROVE  Uncharged(k)' = Uncharged(k)
<1>1. PICK s : s = Charges(calls, k)
  OBVIOUS
<1>2. PICK t : t = Charges(calls', k)
  OBVIOUS
<1>3. PICK D : D = DOMAIN calls
  OBVIOUS
<1>4. PICK E : E = DOMAIN calls'
  OBVIOUS
<1>5. /\ IsFiniteSet(D) /\ \A d \in D : s[d] \in Int /\ s[d] = ChargeIn(calls[d], k)
  BY <1>1, <1>3, ChargesAre
<1>6. x \in E /\ E \ {x} = D /\ E = D \cup {x}
  BY <1>3, <1>4
<1>7. t[x] = 0
  BY <1>2, <1>4, <1>6 DEF Charges, ChargeIn
<1>8. \A d \in D : t[d] = s[d]
  BY <1>1, <1>2, <1>3, <1>4, <1>6 DEF Charges
<1>9. IsFiniteSet(E) /\ \A d \in E : t[d] \in Int
  <2>1. IsFiniteSet(E)
    BY <1>5, <1>6, FS_AddElement
  <2>2. \A d \in E : d \in D \/ d = x
    BY <1>6
  <2> QED
    BY <1>5, <1>7, <1>8, <2>1, <2>2
<1>10. SumFunctionOnSet(t, E) = t[x] + SumFunctionOnSet(t, E \ {x})
  BY <1>6, <1>9, SumRemove
<1>11. SumFunctionOnSet(t, E \ {x}) \in Int
  BY <1>6, <1>9, SumRemove
<1>12. SumFunctionOnSet(t, D) = SumFunctionOnSet(s, D)
  BY <1>5, <1>8, SumEqual
<1> QED
  BY <1>1, <1>2, <1>3, <1>4, <1>6, <1>7, <1>10, <1>11, <1>12, UnchargedIs

LEMMA PaidIs ==
    ASSUME CreditInv, NEW w \in Windows, NEW a \in Actions
    PROVE  /\ Paid(w, a) \in Nat /\ rowArchive[w][a] \in Nat
           /\ w \in DOMAIN rows => Amount(rows[w], a) \in Nat
<1>1. w \in DOMAIN rows => Amount(rows[w], a) \in Nat
  BY AmountIs DEF CreditInv
<1> QED
  BY <1>1 DEF Paid, CreditInv

\* A window is credited.
LEMMA PaidMore ==
    ASSUME CreditInv, NEW settled \in Settlements, NEW v, v \notin DOMAIN rows,
           rows' = With(rows, v, settled), rowArchive' = rowArchive,
           NEW w \in Windows, NEW a \in Actions
    PROVE  Paid(w, a)' = Paid(w, a) + IF w = v THEN Amount(settled, a) ELSE 0
<1>1. /\ DOMAIN rows' = DOMAIN rows \cup {v} /\ rows'[v] = settled
      /\ \A u \in DOMAIN rows : rows'[u] = rows[u]
  BY DEF With
<1>2. Amount(settled, a) \in Nat
  BY AmountIs
<1>3. CASE w = v
  <2>1. Paid(w, a)' = Amount(settled, a) + rowArchive[w][a]
    BY <1>1, <1>3 DEF Paid, Amount
  <2>2. Paid(w, a) = 0 + rowArchive[w][a]
    BY <1>3 DEF Paid
  <2> QED
    BY <1>2, <1>3, <2>1, <2>2, PaidIs
<1>4. CASE w # v
  <2>1. Paid(w, a)' = Paid(w, a)
    BY <1>1, <1>4 DEF Paid, Amount
  <2> QED
    BY <1>4, <2>1, PaidIs
<1> QED
  BY <1>3, <1>4

\* Archiving moves what was credited.
LEMMA PaidArchived ==
    ASSUME CreditInv, ArchiveRollups, NEW w \in Windows, NEW a \in Actions
    PROVE  Paid(w, a)' = Paid(w, a)
<1>1. PICK old : old = {v \in DOMAIN rows : Archivable(v)}
  OBVIOUS
<1>2. /\ DOMAIN rows' = DOMAIN rows \ old
      /\ \A v \in DOMAIN rows' : rows'[v] = rows[v]
      /\ rowArchive'[w][a] = rowArchive[w][a] + IF w \in old THEN Amount(rows[w], a) ELSE 0
  BY <1>1 DEF ArchiveRollups, Restrict
<1>3. rowArchive[w][a] \in Nat /\ (w \in DOMAIN rows => Amount(rows[w], a) \in Nat)
  BY PaidIs
<1>4. CASE w \in old
  <2>1. w \in DOMAIN rows /\ w \notin DOMAIN rows'
    BY <1>1, <1>2, <1>4
  <2> QED
    BY <1>2, <1>3, <1>4, <2>1 DEF Paid
<1>5. CASE w \notin old
  <2>1. w \in DOMAIN rows <=> w \in DOMAIN rows'
    BY <1>2, <1>5
  <2>2. w \in DOMAIN rows => Amount(rows'[w], a) = Amount(rows[w], a)
    BY <1>2, <2>1
  <2>3. rowArchive'[w][a] = rowArchive[w][a]
    BY <1>2, <1>3, <1>5
  <2>4. Paid(w, a)' = (IF w \in DOMAIN rows' THEN Amount(rows'[w], a) ELSE 0) + rowArchive'[w][a]
    BY DEF Paid, Amount
  <2> QED
    BY <2>1, <2>2, <2>3, <2>4 DEF Paid
<1> QED
  BY <1>4, <1>5

-----------------------------------------------------------------------------
(* Accounts.  Every step moves amounts between what the node was paid for a key, *)
(* the calls that charge it, and the cache.                                      *)

Balanced(k) == Paid(k[2], k[1]) = Kept(k) + Uncharged(k)

SettlementInv ==
    /\ NodeTypes /\ FileInv /\ CallTypes /\ Waiting /\ CreditInv
    /\ CacheInv /\ ChargeInv

\* What a step must show.
Accounts ==
    /\ CacheTypes' /\ CloseInv' /\ ChargeInv'
    /\ \A k \in Keys : Balanced(k) => Balanced(k)'

LEMMA KeptSame ==
    ASSUME CacheInv, UNCHANGED cacheVars
    PROVE  CacheTypes' /\ CloseInv' /\ \A k \in Keys : Kept(k)' = Kept(k)
<1>1. CacheTypes' /\ CloseInv'
  BY CacheUntouched DEF CacheInv
<1>2. ASSUME NEW k \in Keys
      PROVE  Kept(k)' = Kept(k)
  <2>1. UNCHANGED <<pendingRollups, batch, rollups, lost>>
    BY DEF cacheVars
  <2>2. InCache(k)' = InCache(k) - Amount(pendingRollups, k) + Amount(pendingRollups', k)
    BY <2>1, KeepCounts DEF CacheInv, CacheTypes
  <2>3. InCache(k) \in Nat /\ Amount(pendingRollups, k) \in Nat
    BY InCacheNat DEF CacheInv
  <2> QED
    BY <2>1, <2>2, <2>3 DEF Kept
<1> QED
  BY <1>1, <1>2

LEMMA PaidSame ==
    ASSUME UNCHANGED dbVars, NEW k
    PROVE  Paid(k[2], k[1])' = Paid(k[2], k[1])
BY DEF dbVars, Paid, Amount

LEMMA FaultsKept ==
    ASSUME ChargeInv, Fault \/ UNCHANGED faults
    PROVE  faults' \in Nat /\ faults' >= faults /\ faults' <= MaxFaults
BY CallsFinite DEF ChargeInv, Fault

LEMMA KeptNat ==
    ASSUME CacheTypes, NEW k \in Keys
    PROVE  Kept(k) \in Nat
BY InCacheNat DEF Kept, CacheTypes

\* A step of the node, or of the clock.
LEMMA NodeAccounts ==
    ASSUME SettlementInv, UNCHANGED <<cacheVars, dbVars, calls>>, Fault \/ UNCHANGED faults
    PROVE  Accounts
<1>1. ChargeInv'
  BY FaultsKept, ChargesFewer DEF SettlementInv
<1>2. ASSUME NEW k \in Keys
      PROVE  Uncharged(k)' = Uncharged(k)
  BY UnchargedSame DEF SettlementInv
<1> QED
  BY <1>1, <1>2, KeptSame, PaidSame DEF Accounts, Balanced, SettlementInv

LEMMA HungUpAccounts ==
    ASSUME SettlementInv, UNCHANGED <<cacheVars, dbVars>>, Fault, calls' = HungUp
    PROVE  Accounts
<1>1. ChargeInv'
  BY HungUpKept DEF SettlementInv
<1>2. /\ DOMAIN calls' = DOMAIN calls
      /\ \A c \in DOMAIN calls : /\ calls[c] \in CallStates
                                 /\ calls'[c] = [calls[c] EXCEPT !.waited = FALSE]
  BY DEF HungUp, SettlementInv, CallTypes
<1>3. \A c \in DOMAIN calls : /\ calls'[c].window = calls[c].window
                              /\ calls'[c].charge = calls[c].charge
                              /\ calls'[c].settled = calls[c].settled
  BY <1>2 DEF CallStates
<1>4. ASSUME NEW k \in Keys
      PROVE  Uncharged(k)' = Uncharged(k)
  <2>1. \A c \in DOMAIN calls : ChargeIn(calls'[c], k) = ChargeIn(calls[c], k)
    BY <1>3 DEF ChargeIn
  <2> QED
    BY <1>2, <2>1, UnchargedSame DEF SettlementInv
<1> QED
  BY <1>1, <1>4, KeptSame, PaidSame DEF Accounts, Balanced, SettlementInv

LEMMA SendAccounts ==
    ASSUME SettlementInv, Send
    PROVE  Accounts
<1>1. UNCHANGED <<cacheVars, dbVars>>
  BY DEF Send
<1>2. ChargeInv'
  BY SendCharges DEF SettlementInv
<1>3. PICK x : /\ x \notin DOMAIN calls /\ DOMAIN calls' = DOMAIN calls \cup {x}
               /\ calls'[x].charge = {}
               /\ \A c \in DOMAIN calls : calls'[c] = calls[c]
  BY SendCharges DEF SettlementInv
<1>4. ASSUME NEW k \in Keys
      PROVE  Uncharged(k)' = Uncharged(k)
  BY <1>3, UnchargedBegins DEF SettlementInv
<1> QED
  BY <1>1, <1>2, <1>4, KeptSame, PaidSame DEF Accounts, Balanced, SettlementInv

\* A call that ends has charged what it had to.
LEMMA EndAccounts ==
    ASSUME SettlementInv, NEW c \in DOMAIN calls, Answer(c) \/ HandlerFails(c)
    PROVE  Accounts
<1>1. /\ UNCHANGED <<cacheVars, dbVars>> /\ calls' = Without(calls, c)
      /\ Fault \/ UNCHANGED faults
      /\ calls[c].charge = {}
  <2>1. CASE Answer(c)
    BY <2>1 DEF Answer
  <2>2. CASE HandlerFails(c)
    BY <2>2 DEF HandlerFails, Failing, SettlementInv, ChargeInv
  <2> QED
    BY <2>1, <2>2
<1>2. DOMAIN calls' \subseteq DOMAIN calls /\ \A d \in DOMAIN calls' : calls'[d] = calls[d]
  BY <1>1 DEF Without, Restrict
<1>3. ChargeInv'
  BY <1>1, <1>2, FaultsKept, ChargesFewer DEF SettlementInv
<1>4. ASSUME NEW k \in Keys
      PROVE  Uncharged(k)' = Uncharged(k)
  BY <1>1, UnchargedEnds DEF SettlementInv
<1> QED
  BY <1>1, <1>3, <1>4, KeptSame, PaidSame DEF Accounts, Balanced, SettlementInv

LEMMA ReceiveAccounts ==
    ASSUME SettlementInv, NEW c \in DOMAIN calls, Receive(c)
    PROVE  Accounts
<1> DEFINE o == Head(calls[c].rest)
           ended == [calls[c] EXCEPT !.pc = "settle"]
           skipped == [calls[c] EXCEPT !.rest = Tail(@)]
           counted == [calls[c] EXCEPT !.rest = Tail(calls[c].rest),
                         !.seen = calls[c].seen \union {o},
                         !.settled = Added(calls[c].settled, ActionOf[o], Amounts[o])]
<1>1. UNCHANGED <<cacheVars, dbVars, faults>> /\ calls[c].pc = "receive"
  BY DEF Receive
<1>2. calls[c] \in CallStates /\ calls[c].charge = {}
  BY <1>1 DEF SettlementInv, ChargeInv, CallTypes
<1>3. PICK call : call \in {ended, skipped, counted} /\ calls' = [calls EXCEPT ![c] = call]
  <2>1. CASE calls[c].rest = <<>>
    BY <2>1 DEF Receive
  <2>2. CASE calls[c].rest # <<>> /\ ~Counts(calls[c], o)
    BY <2>2 DEF Receive
  <2>3. CASE calls[c].rest # <<>> /\ Counts(calls[c], o)
    BY <2>3 DEF Receive
  <2> QED
    BY <2>1, <2>2, <2>3
<1>4. call.waited = calls[c].waited /\ call.charge = {}
  BY <1>2, <1>3 DEF CallStates
<1> HIDE DEF o, ended, skipped, counted
<1>5. ChargeInv'
  <2>1. call.charge \subseteq DOMAIN call.settled /\ (call.pc # "charge" => call.charge = {})
    BY <1>4
  <2>2. faults' = faults /\ calls' = [calls EXCEPT ![c] = call] /\ call.waited = calls[c].waited
    BY <1>1, <1>3, <1>4
  <2> QED
    BY <2>1, <2>2, ChargeChanged DEF SettlementInv
<1>6. ASSUME NEW k \in Keys
      PROVE  Uncharged(k)' = Uncharged(k)
  <2>1. ChargeIn(call, k) = 0 /\ ChargeIn(calls[c], k) = 0
    BY <1>2, <1>4 DEF ChargeIn
  <2>2. ChargeIn(call, k) \in Nat
    BY <2>1
  <2>3. Uncharged(k)' = Uncharged(k) - ChargeIn(calls[c], k) + ChargeIn(call, k)
    BY <1>3, <2>2, UnchargedOne DEF SettlementInv
  <2>4. Uncharged(k) \in Nat
    BY ChargesAre DEF SettlementInv
  <2> QED
    BY <2>1, <2>3, <2>4
<1> QED
  BY <1>1, <1>5, <1>6, KeptSame, PaidSame DEF Accounts, Balanced, SettlementInv

\* The node is credited, and the call has as much to charge.
LEMMA SettleAccounts ==
    ASSUME SettlementInv, NEW c \in DOMAIN calls, Settle(c)
    PROVE  Accounts
<1>1. PICK old : old = calls[c]
  OBVIOUS
<1>2. PICK first : first = (StatusOf(old) = "ACCEPTED" /\ ~AlreadyProcessed(old))
  OBVIOUS
<1>3. PICK status : status = StatusOf(old)
  OBVIOUS
<1>4. PICK charge : charge = IF first THEN ToCharge(old) ELSE {}
  OBVIOUS
<1>5. PICK call : call = [old EXCEPT !.pc = "charge", !.status = status, !.seen = {},
                                     !.charge = charge]
  OBVIOUS
<1>6. /\ UNCHANGED <<cacheVars, faults, rowArchive>> /\ old.pc = "settle"
      /\ calls' = [calls EXCEPT ![c] = call]
      /\ rows' = IF first THEN With(rows, old.window, old.settled) ELSE rows
  BY <1>1, <1>2, <1>3, <1>4, <1>5 DEF Settle
<1>7. old \in CallStates /\ old.charge = {} /\ old.settled \in Settlements
  BY <1>1, <1>6 DEF SettlementInv, ChargeInv, CallTypes, CallStates
<1>8. /\ call.waited = old.waited /\ call.charge = charge /\ call.settled = old.settled
      /\ call.window = old.window
  BY <1>5, <1>7 DEF CallStates
<1>9. /\ first => charge = UserActions \cap DOMAIN old.settled
      /\ ~first => charge = {}
  BY <1>4 DEF ToCharge
<1>10. first => old.settled # NoData /\ old.window \notin DOMAIN rows
  BY <1>2 DEF StatusOf, AlreadyProcessed
<1>11. call.pc = "charge" /\ call.charge \subseteq DOMAIN call.settled
  BY <1>5, <1>7, <1>8, <1>9 DEF CallStates
<1>12. ChargeInv'
  BY <1>1, <1>6, <1>8, <1>11, ChargeChanged DEF SettlementInv
<1>13. ASSUME NEW k \in Keys
       PROVE  Balanced(k) => Balanced(k)'
  <2>1. Kept(k)' = Kept(k) /\ Kept(k) \in Nat
    BY <1>6, KeptSame, KeptNat DEF SettlementInv, CacheInv
  <2>2. Uncharged(k) \in Nat
    BY ChargesAre DEF SettlementInv
  <2>3. ChargeIn(old, k) = 0 /\ ChargeIn(call, k) \in Nat
    BY <1>7, <1>8, <1>11, ChargeIs DEF ChargeIn
  <2>4. Uncharged(k)' = Uncharged(k) - ChargeIn(old, k) + ChargeIn(call, k)
    BY <1>1, <1>6, <2>3, UnchargedOne DEF SettlementInv
  <2>5. Uncharged(k)' = Uncharged(k) + ChargeIn(call, k)
    BY <2>2, <2>3, <2>4
  <2>6. Paid(k[2], k[1]) \in Nat
    BY KeyIs, PaidIs DEF SettlementInv
  <2>7. CASE first
    <3>1. Paid(k[2], k[1])' = Paid(k[2], k[1])
             + IF k[2] = old.window THEN Amount(old.settled, k[1]) ELSE 0
      BY <1>6, <1>7, <1>10, <2>7, KeyIs, PaidMore DEF SettlementInv
    <3>2. ChargeIn(call, k) = IF k[2] = old.window THEN Amount(old.settled, k[1]) ELSE 0
      <4>1. k[1] \in UserActions
        BY KeyIs
      <4>2. CASE k[2] = old.window
        BY <1>8, <1>9, <2>7, <4>1, <4>2 DEF ChargeIn, Amount
      <4>3. CASE k[2] # old.window
        BY <1>8, <4>3 DEF ChargeIn
      <4> QED
        BY <4>2, <4>3
    <3> QED
      BY <2>1, <2>2, <2>3, <2>5, <2>6, <3>1, <3>2 DEF Balanced
  <2>8. CASE ~first
    <3>1. Paid(k[2], k[1])' = Paid(k[2], k[1])
      BY <1>6, <2>8, PaidSame DEF dbVars
    <3>2. ChargeIn(call, k) = 0
      BY <1>8, <1>9, <2>8 DEF ChargeIn
    <3> QED
      BY <2>1, <2>2, <2>5, <3>1, <3>2 DEF Balanced
  <2> QED
    BY <2>7, <2>8
<1> QED
  BY <1>6, <1>12, <1>13, KeptSame DEF Accounts, SettlementInv

\* The node is credited, the call fails, and nobody charges the bucket.
LEMMA UnknownAccounts ==
    ASSUME SettlementInv, NEW c \in DOMAIN calls, SettleUnknown(c)
    PROVE  Accounts
<1>1. PICK old : old = calls[c]
  OBVIOUS
<1>2. /\ old.pc = "settle" /\ old.settled # NoData /\ old.window \notin DOMAIN rows
      /\ rows' = With(rows, old.window, old.settled)
      /\ UNCHANGED <<rowArchive, pendingRollups, stopped, flushing, flusher, batch, rollups>>
      /\ lost' = [k \in Keys |->
                    lost[k] + IF k[2] = old.window THEN Amount(old.settled, k[1]) ELSE 0]
      /\ calls' = Without(calls, c)
      /\ Fault \/ UNCHANGED faults
  BY <1>1 DEF SettleUnknown, AlreadyProcessed, Failing
<1>3. old.charge = {} /\ old.settled \in Settlements
  BY <1>1, <1>2 DEF SettlementInv, ChargeInv, CallTypes, CallStates
<1>4. DOMAIN calls' \subseteq DOMAIN calls /\ \A d \in DOMAIN calls' : calls'[d] = calls[d]
  BY <1>2 DEF Without, Restrict
<1>5. ChargeInv'
  BY <1>2, <1>4, FaultsKept, ChargesFewer DEF SettlementInv
<1>6. ASSUME NEW k \in Keys
      PROVE  Amount(old.settled, k[1]) \in Nat /\ lost[k] \in Nat
  BY <1>3, AmountIs DEF SettlementInv, CacheInv, CacheTypes
<1>7. CacheTypes'
  <2>1. lost' \in [Keys -> Nat]
    BY <1>2, <1>6
  <2> QED
    BY <1>2, <2>1 DEF SettlementInv, CacheInv, CacheTypes
<1>8. CloseInv'
  BY <1>2 DEF SettlementInv, CacheInv, CloseInv, Closing
<1>9. ASSUME NEW k \in Keys
      PROVE  Balanced(k) => Balanced(k)'
  <2>1. PICK n : n = IF k[2] = old.window THEN Amount(old.settled, k[1]) ELSE 0
    OBVIOUS
  <2>2. n \in Nat
    BY <1>6, <2>1
  <2>3. Uncharged(k)' = Uncharged(k) /\ Uncharged(k) \in Nat
    BY <1>1, <1>2, <1>3, UnchargedEnds, ChargesAre DEF SettlementInv
  <2>4. Paid(k[2], k[1])' = Paid(k[2], k[1]) + n
    BY <1>2, <1>3, <2>1, KeyIs, PaidMore DEF SettlementInv
  <2>5. Paid(k[2], k[1]) \in Nat
    BY KeyIs, PaidIs DEF SettlementInv
  <2>6. /\ InCache(k)' = InCache(k) - Amount(pendingRollups, k) + Amount(pendingRollups', k)
        /\ InCache(k) \in Nat /\ Amount(pendingRollups, k) \in Nat
    BY <1>2, KeepCounts, InCacheNat DEF SettlementInv, CacheInv, CacheTypes
  <2>7. lost'[k] = lost[k] + n /\ rollups[k] \in Nat
    BY <1>2, <2>1 DEF SettlementInv, CacheInv, CacheTypes
  <2>8. Amount(pendingRollups', k) = Amount(pendingRollups, k)
    BY <1>2
  <2>9. Kept(k)' = Kept(k) + n /\ Kept(k) \in Nat
    BY <1>2, <1>6, <2>2, <2>6, <2>7, <2>8 DEF Kept
  <2> QED
    BY <2>2, <2>3, <2>4, <2>5, <2>9 DEF Balanced
<1> QED
  BY <1>5, <1>7, <1>8, <1>9 DEF Accounts

\* What a call charges goes to the cache.
LEMMA ChargeAccounts ==
    ASSUME SettlementInv, NEW c \in DOMAIN calls, NEW a \in UserActions, Charge(c, a)
    PROVE  Accounts
<1>1. PICK old : old = calls[c]
  OBVIOUS
<1>2. PICK key : key = <<a, old.window>>
  OBVIOUS
<1>3. PICK n : n = old.settled[a]
  OBVIOUS
<1>4. PICK call : call = [old EXCEPT !.charge = @ \ {a}]
  OBVIOUS
<1>5. /\ old.pc = "charge" /\ a \in old.charge
      /\ Update(key, n) \/ UpdateStopped(key, n)
      /\ calls' = [calls EXCEPT ![c] = call]
      /\ UNCHANGED <<faults, dbVars>>
  BY <1>1, <1>2, <1>3, <1>4 DEF Charge
<1>6. /\ old \in CallStates /\ old.settled \in Settlements /\ old.window \in Windows
      /\ old.charge \subseteq DOMAIN old.settled
  BY <1>1 DEF SettlementInv, ChargeInv, CallTypes, CallStates
<1>7. key \in Keys /\ n \in Nat
  <2>1. a \in DOMAIN old.settled
    BY <1>5, <1>6
  <2>2. n \in Nat
    BY <1>3, <1>6, <2>1 DEF Settlements
  <2> QED
    BY <1>2, <1>6, <2>2, OrdersAssumption
<1>8. /\ call.waited = old.waited /\ call.charge = old.charge \ {a} /\ call.pc = old.pc
      /\ call.settled = old.settled /\ call.window = old.window
  BY <1>4, <1>6 DEF CallStates
<1>9. ChargeInv'
  <2>1. call.charge \subseteq DOMAIN call.settled /\ (call.pc # "charge" => call.charge = {})
    BY <1>5, <1>6, <1>8
  <2> QED
    BY <1>1, <1>5, <1>8, <2>1, ChargeChanged DEF SettlementInv
<1>10. CloseInv'
  <2>1. CASE Update(key, n)
    BY <2>1, UpdateClose DEF SettlementInv
  <2>2. CASE UpdateStopped(key, n)
    BY <2>2 DEF UpdateStopped, SettlementInv, CacheInv, CloseInv, Closing
  <2> QED
    BY <1>5, <2>1, <2>2
<1>11. ASSUME NEW k
       PROVE  CacheTypes' /\ (k \in Keys => Kept(k)' = Kept(k) + IF k = key THEN n ELSE 0)
  BY <1>5, <1>7, UpdateKept, UpdateStoppedKept DEF SettlementInv, CacheInv
<1>12. CacheTypes'
  BY <1>11
<1>13. ASSUME NEW k \in Keys
       PROVE  Balanced(k) => Balanced(k)'
  <2>1. Paid(k[2], k[1])' = Paid(k[2], k[1]) /\ Kept(k) \in Nat
    BY <1>5, PaidSame, KeptNat DEF SettlementInv, CacheInv
  <2>2. ChargeIn(old, k) \in Nat /\ ChargeIn(call, k) \in Nat
    BY <1>6, <1>8, ChargeIs
  <2>3. Uncharged(k)' = Uncharged(k) - ChargeIn(old, k) + ChargeIn(call, k)
    BY <1>1, <1>5, <2>2, UnchargedOne DEF SettlementInv
  <2>4. ChargeIn(call, k) = ChargeIn(old, k) - IF k = key THEN n ELSE 0
    <3>1. CASE k = key
      <4>1. k[1] = a /\ k[2] = old.window
        BY <1>2, <3>1
      <4>2. ChargeIn(old, k) = n /\ ChargeIn(call, k) = 0
        BY <1>3, <1>5, <1>8, <4>1 DEF ChargeIn
      <4> QED
        BY <1>7, <3>1, <4>2
    <3>2. CASE k # key
      <4>1. k[2] = old.window => k[1] # a
        BY <1>2, <3>2, KeyIs
      <4>2. ChargeIn(old, k) = ChargeIn(call, k)
        BY <1>8, <4>1 DEF ChargeIn
      <4> QED
        BY <2>2, <3>2, <4>2
    <3> QED
      BY <3>1, <3>2
  <2>5. Uncharged(k) \in Nat
    BY ChargesAre DEF SettlementInv
  <2>6. PICK m : m = IF k = key THEN n ELSE 0
    OBVIOUS
  <2>7. m \in Nat
    BY <1>7, <2>6
  <2>8. Kept(k)' = Kept(k) + m /\ ChargeIn(call, k) = ChargeIn(old, k) - m
    BY <1>11, <2>4, <2>6
  <2> QED
    BY <2>1, <2>2, <2>3, <2>5, <2>7, <2>8 DEF Balanced
<1> QED
  BY <1>9, <1>10, <1>12, <1>13 DEF Accounts

LEMMA ArchiveAccounts ==
    ASSUME SettlementInv, ArchiveRollups
    PROVE  Accounts
<1>1. UNCHANGED <<cacheVars, calls, faults>>
  BY DEF ArchiveRollups
<1>2. ChargeInv'
  BY <1>1, FaultsKept, ChargesFewer DEF SettlementInv
<1>3. ASSUME NEW k \in Keys
      PROVE  Uncharged(k)' = Uncharged(k) /\ Paid(k[2], k[1])' = Paid(k[2], k[1])
  BY <1>1, KeyIs, PaidArchived, UnchargedSame DEF SettlementInv
<1> QED
  BY <1>1, <1>2, <1>3, KeptSame DEF Accounts, Balanced, SettlementInv

\* The cache is emptied, in order or not, or told to stop.
LEMMA CacheAccounts ==
    ASSUME SettlementInv, Flusher \/ FlushFails \/ StopSatellite
    PROVE  Accounts
<1>1. UNCHANGED <<calls, dbVars>> /\ (Fault \/ UNCHANGED faults)
  BY DEF Flusher, FlushFails, StopSatellite
<1>2. ChargeInv'
  BY <1>1, FaultsKept, ChargesFewer DEF SettlementInv
<1>3. ASSUME NEW k \in Keys
      PROVE  Uncharged(k)' = Uncharged(k) /\ Paid(k[2], k[1])' = Paid(k[2], k[1])
  BY <1>1, PaidSame, UnchargedSame DEF SettlementInv
<1>4. CacheInv /\ CacheTypes
  BY DEF SettlementInv, CacheInv
<1>5. CacheTypes' /\ CloseInv' /\ \A k \in Keys : Kept(k)' = Kept(k)
  <2>1. CASE Flusher
    <3>1. \A k : CacheTypes' /\ (k \in Keys => Kept(k)' = Kept(k))
      BY <1>4, <2>1, FlusherStepKept DEF Flusher
    <3>2. CloseInv'
      BY <1>4, <2>1, FlusherStepClose DEF Flusher
    <3> QED
      BY <3>1, <3>2
  <2>2. CASE FlushFails
    <3>1. PICK f \in Flushers : LoseBatch(f)
      BY <2>2 DEF FlushFails
    <3>2. \A k : CacheTypes' /\ (k \in Keys => Kept(k)' = Kept(k))
      BY <1>4, <3>1, OverKept
    <3>3. CloseInv'
      BY <1>4, <3>1, OverClose DEF LoseBatch
    <3> QED
      BY <3>2, <3>3
  <2>3. CASE StopSatellite
    <3>1. /\ "close" \in Flushers /\ flusher["close"] = "idle" /\ stopped' = TRUE
          /\ flusher' = [flusher EXCEPT !["close"] = "stopping"]
          /\ UNCHANGED <<pendingRollups, flushing, batch, rollups, lost>>
      BY <2>3 DEF StopSatellite, Stop
    <3>2. CacheTypes'
      BY <1>4, <3>1 DEF CacheTypes
    <3>3. CloseInv'
      BY <1>4, <3>1 DEF CacheInv, CacheTypes, CloseInv, Closing
    <3>4. ASSUME NEW k \in Keys
          PROVE  Kept(k)' = Kept(k)
      <4>1. InCache(k)' = InCache(k) - Amount(pendingRollups, k) + Amount(pendingRollups', k)
        BY <1>4, <3>1, KeepCounts DEF CacheTypes
      <4>2. InCache(k) \in Nat /\ Amount(pendingRollups, k) \in Nat
        BY <1>4, InCacheNat
      <4> QED
        BY <3>1, <4>1, <4>2 DEF Kept
    <3> QED
      BY <3>2, <3>3, <3>4
  <2> QED
    BY <2>1, <2>2, <2>3
<1> QED
  BY <1>2, <1>3, <1>5 DEF Accounts, Balanced

\* What a process held, and what its calls had to charge, is lost with it.
LEMMA RestartAccounts ==
    ASSUME SettlementInv, SatelliteRestart
    PROVE  Accounts
<1>1. PICK extra : extra = [k \in Keys |-> Uncharged(k)]
  OBVIOUS
<1>2. /\ NewProcess(extra) /\ calls' = [c \in {} |-> <<>>] /\ UNCHANGED dbVars
      /\ Fault \/ UNCHANGED faults
  BY <1>1 DEF SatelliteRestart
<1>3. extra \in [Keys -> Nat]
  BY <1>1, ChargesAre DEF SettlementInv
<1>4. CacheTypes
  BY DEF SettlementInv, CacheInv
<1>5. \A k : CacheTypes' /\ (k \in Keys => Kept(k)' = Kept(k) + extra[k])
  BY <1>2, <1>3, <1>4, ProcessEnds
<1>6. DOMAIN calls' = {}
  BY <1>2
<1>7. ChargeInv'
  BY <1>2, <1>6, FaultsKept, ChargesFewer DEF SettlementInv
<1>8. CloseInv'
  BY <1>2 DEF NewProcess, CloseInv, Closing
<1>9. ASSUME NEW k \in Keys
      PROVE  Balanced(k) => Balanced(k)'
  <2>1. Uncharged(k)' = 0
    BY <1>6, UnchargedIs, SumEmpty
  <2>2. Kept(k) \in Nat /\ Uncharged(k) \in Nat /\ extra[k] = Uncharged(k)
    BY <1>1, <1>4, KeptNat, ChargesAre DEF SettlementInv
  <2>3. Paid(k[2], k[1])' = Paid(k[2], k[1])
    BY <1>2, PaidSame
  <2> QED
    BY <1>5, <2>1, <2>2, <2>3 DEF Balanced
<1> QED
  BY <1>5, <1>7, <1>8, <1>9 DEF Accounts

LEMMA NextAccounts ==
    ASSUME SettlementInv, [Next]_vars
    PROVE  Accounts
<1>1. CASE Flusher \/ FlushFails \/ StopSatellite
  BY <1>1, CacheAccounts
<1>2. CASE SatelliteRestart
  BY <1>2, RestartAccounts
<1>3. ASSUME NEW c \in DOMAIN calls, NEW a \in UserActions, Charge(c, a) PROVE Accounts
  BY <1>3, ChargeAccounts
<1>4. ASSUME NEW c \in DOMAIN calls, SettleUnknown(c) PROVE Accounts
  BY <1>4, UnknownAccounts
<1>5. CASE UNCHANGED vars
  BY <1>5, NodeAccounts DEF vars
<1>6. ASSUME NEW o \in Orders, BeginEnqueue(o) \/ Commit(o) \/ Abort(o) \/ CommitFails(o)
      PROVE  Accounts
  BY <1>6, NodeAccounts DEF BeginEnqueue, Commit, Abort, CommitFails
<1>7. CASE SendOrders \/ List \/ Read \/ Archive \/ ArchiveFails \/ Tick
  BY <1>7, NodeAccounts DEF SendOrders, List, Read, Archive, ArchiveFails, Tick
<1>8. CASE Send
  BY <1>8, SendAccounts
<1>9. CASE SettleFails \/ NodeRestart
  BY <1>9, HungUpAccounts DEF SettleFails, NodeRestart
<1>10. ASSUME NEW w \in Windows, CleanArchive(w) PROVE Accounts
  BY <1>10, NodeAccounts DEF CleanArchive
<1>11. ASSUME NEW c \in DOMAIN calls, Receive(c) \/ Settle(c) \/ Answer(c) \/ HandlerFails(c)
       PROVE  Accounts
  BY <1>11, ReceiveAccounts, SettleAccounts, EndAccounts
<1>12. CASE ArchiveRollups
  BY <1>12, ArchiveAccounts
<1> QED
  BY <1>1, <1>2, <1>3, <1>4, <1>5, <1>6, <1>7, <1>8, <1>9, <1>10, <1>11, <1>12
     DEF Next, SenderStep, HandlerStep

LEMMA InitSettlement == Init => SettlementInv /\ \A k \in Keys : Balanced(k)
<1> SUFFICES ASSUME Init
             PROVE  SettlementInv /\ \A k \in Keys : Balanced(k)
  OBVIOUS
<1>1. DOMAIN calls = {} /\ faults = 0
  BY DEF Init
<1>2. Abandoned = {}
  BY <1>1 DEF Abandoned
<1>3. ChargeInv
  BY <1>1, <1>2, CallsFinite, FS_EmptySet DEF ChargeInv
<1>4. CacheInv
  BY InitCache
<1>5. ASSUME NEW k \in Keys
      PROVE  Balanced(k)
  <2>1. Uncharged(k) = 0
    BY <1>1, UnchargedIs, SumEmpty
  <2>2. rollups[k] = 0 /\ lost[k] = 0 /\ pendingRollups = NoData
        /\ batch = [f \in Flushers |-> NoData]
    BY DEF Init, CacheInit
  <2>3. \A f \in Flushers : Batches(batch, k)[f] = 0
    BY <2>2, EmptyData DEF Batches
  <2>4. InCache(k) = 0
    BY <2>2, <2>3, EmptyData, FlushersFinite, SumZero, InCacheIs
  <2>5. Paid(k[2], k[1]) = 0
    BY KeyIs DEF Init, Paid
  <2> QED
    BY <2>1, <2>2, <2>4, <2>5 DEF Balanced, Kept
<1> QED
  BY <1>3, <1>4, <1>5, InitFiles, InitCalls, InitCredits DEF SettlementInv

LEMMA NextSettlement ==
    ASSUME SettlementInv, [Next]_vars
    PROVE  SettlementInv' /\ \A k \in Keys : Balanced(k) => Balanced(k)'
<1>1. Accounts
  BY NextAccounts
<1>2. CacheInv'
  BY <1>1, NextFlusher DEF Accounts, SettlementInv, CacheInv
<1> QED
  BY <1>1, <1>2, NextFiles, NextCalls, NextCredits DEF Accounts, SettlementInv

\* When CloseAndFlush returns, nothing is left in memory (ClosedEmpty): nothing is added
\* once the cache is stopped, the goroutine and the chore are done with their batches.
THEOREM ClosedCorrect == Spec => []ClosedEmpty
<1>1. Init => SettlementInv
  BY InitSettlement
<1>2. SettlementInv /\ [Next]_vars => SettlementInv'
  BY NextSettlement
<1>3. SettlementInv => ClosedEmpty
  BY ClosedIsEmpty DEF SettlementInv
<1> QED
  BY <1>1, <1>2, <1>3, PTL DEF Spec

AllBalanced == \A k \in Keys : Balanced(k)

LEMMA BalancedIs ==
    ASSUME SettlementInv, AllBalanced
    PROVE  Accounted
<1> SUFFICES ASSUME NEW k \in Keys
             PROVE  Paid(k[2], k[1]) = rollups[k] + InCache(k) + Uncharged(k) + lost[k]
  BY DEF Accounted
<1>1. CacheTypes
  BY DEF SettlementInv, CacheInv
<1>2. rollups[k] \in Nat /\ lost[k] \in Nat /\ InCache(k) \in Nat
  BY <1>1, InCacheNat DEF CacheTypes
<1>3. Uncharged(k) \in Nat
  BY ChargesAre DEF SettlementInv
<1> QED
  BY <1>2, <1>3 DEF AllBalanced, Balanced, Kept

\* What a node was credited is charged to the bucket, waits in a call or in the cache, or
\* was reported as lost (Accounted), for any number of calls and flushes at the same time.
THEOREM AccountedCorrect == Spec => []Accounted
<1>1. Init => SettlementInv /\ AllBalanced
  BY InitSettlement DEF AllBalanced
<1>2. SettlementInv /\ AllBalanced /\ [Next]_vars => SettlementInv' /\ AllBalanced'
  BY NextSettlement DEF AllBalanced
<1>3. SettlementInv /\ AllBalanced => Accounted
  BY BalancedIs
<1> QED
  BY <1>1, <1>2, <1>3, PTL DEF Spec

-----------------------------------------------------------------------------
(* What a node is paid.  A call counts an order once, and only orders of its     *)
(* window, so what it settles is never more than they are worth.                 *)

OrdersFor(S, a) == {o \in S : ActionOf[o] = a}
Total(S, a) == SumFunctionOnSet(Amounts, OrdersFor(S, a))

Counted(call) ==
    /\ call.seen \subseteq OrdersOf(call.window)
    /\ call.pc # "charge" =>
          \A a \in Actions : Amount(call.settled, a) = Total(call.seen, a)
    /\ \A a \in Actions : Amount(call.settled, a) <= Worth(call.window, a)

WorthInv ==
    /\ \A c \in DOMAIN calls : Counted(calls[c])
    /\ \A w \in DOMAIN rows, a \in Actions : Amount(rows[w], a) <= Worth(w, a)
    /\ \A w \in Windows, a \in Actions : rowArchive[w][a] <= Worth(w, a)

LEMMA TotalIs ==
    ASSUME NEW S \in SUBSET Orders, NEW a
    PROVE  /\ IsFiniteSet(OrdersFor(S, a)) /\ Total(S, a) \in Nat
           /\ \A o \in OrdersFor(S, a) : Amounts[o] \in Nat
<1>1. OrdersFor(S, a) \subseteq Orders
  BY DEF OrdersFor
<1>2. IsFiniteSet(OrdersFor(S, a)) /\ \A o \in OrdersFor(S, a) : Amounts[o] \in Nat
  BY <1>1, OrdersAssumption, FS_Subset
<1> QED
  BY <1>2, SumNat DEF Total

LEMMA WorthIs ==
    ASSUME NEW w, NEW a
    PROVE  /\ Worth(w, a) = Total(OrdersOf(w), a) /\ Worth(w, a) \in Nat
           /\ \A S \in SUBSET OrdersOf(w) : Total(S, a) <= Worth(w, a)
<1>1. OrdersFor(OrdersOf(w), a) = {o \in Orders : Window(o) = w /\ ActionOf[o] = a}
  BY DEF OrdersFor, OrdersOf
<1>2. OrdersOf(w) \subseteq Orders
  BY DEF OrdersOf
<1>3. Worth(w, a) = Total(OrdersOf(w), a)
  BY <1>1 DEF Worth, Total
<1>4. ASSUME NEW S \in SUBSET OrdersOf(w)
      PROVE  Total(S, a) <= Worth(w, a)
  <2>1. OrdersFor(S, a) \subseteq OrdersFor(OrdersOf(w), a)
    BY DEF OrdersFor
  <2> QED
    BY <1>2, <1>3, <2>1, TotalIs, SumGrows DEF Total
<1> QED
  BY <1>2, <1>3, <1>4, TotalIs

\* One more order counts with its amount, for its action.
LEMMA TotalMore ==
    ASSUME NEW S \in SUBSET Orders, NEW o \in Orders, o \notin S, NEW a
    PROVE  Total(S \cup {o}, a) = Total(S, a) + IF a = ActionOf[o] THEN Amounts[o] ELSE 0
<1>1. Total(S, a) \in Nat /\ Amounts[o] \in Nat
  BY TotalIs, OrdersAssumption
<1>2. CASE a = ActionOf[o]
  <2>1. PICK T : T = OrdersFor(S \cup {o}, a)
    OBVIOUS
  <2>2. o \in T /\ T \ {o} = OrdersFor(S, a)
    BY <1>2, <2>1 DEF OrdersFor
  <2>3. IsFiniteSet(T) /\ \A x \in T : Amounts[x] \in Int
    BY <2>1, TotalIs
  <2>4. SumFunctionOnSet(Amounts, T) = Amounts[o] + SumFunctionOnSet(Amounts, T \ {o})
    BY <2>2, <2>3, SumRemove
  <2>5. Total(S \cup {o}, a) = Amounts[o] + Total(S, a)
    BY <2>1, <2>2, <2>4 DEF Total
  <2> QED
    BY <1>1, <1>2, <2>5
<1>3. CASE a # ActionOf[o]
  <2>1. OrdersFor(S \cup {o}, a) = OrdersFor(S, a)
    BY <1>3 DEF OrdersFor
  <2> QED
    BY <1>1, <1>3, <2>1 DEF Total
<1> QED
  BY <1>2, <1>3

\* A call that has counted nothing.
LEMMA NothingCounted ==
    ASSUME NEW call, call.seen = {}, call.settled = NoData
    PROVE  Counted(call)
<1>1. ASSUME NEW a
      PROVE  Total({}, a) = 0 /\ Amount(NoData, a) = 0 /\ 0 <= Worth(call.window, a)
  <2>1. OrdersFor({}, a) = {}
    BY DEF OrdersFor
  <2>2. Worth(call.window, a) \in Nat
    BY WorthIs
  <2> QED
    BY <2>1, <2>2, SumEmpty, EmptyData DEF Total
<1> QED
  BY <1>1 DEF Counted

\* Calls that go on without counting.
LEMMA WorthKept ==
    ASSUME WorthInv, UNCHANGED dbVars, DOMAIN calls' \subseteq DOMAIN calls,
           \A c \in DOMAIN calls' :
              /\ calls'[c].seen = calls[c].seen /\ calls'[c].window = calls[c].window
              /\ calls'[c].settled = calls[c].settled
              /\ calls[c].pc = "charge" => calls'[c].pc = "charge"
    PROVE  WorthInv'
<1>1. \A c \in DOMAIN calls' : Counted(calls'[c])
  BY DEF WorthInv, Counted
<1>2. UNCHANGED <<rows, rowArchive>>
  BY DEF dbVars
<1> QED
  BY <1>1, <1>2 DEF WorthInv, Worth

LEMMA ReceiveWorth ==
    ASSUME SettlementInv, WorthInv, NEW c \in DOMAIN calls, Receive(c)
    PROVE  WorthInv'
<1>1. PICK call : call = calls[c]
  OBVIOUS
<1>2. PICK o : o = Head(call.rest)
  OBVIOUS
<1>3. UNCHANGED dbVars /\ call.pc = "receive"
  BY <1>1 DEF Receive
<1>4. call \in CallStates /\ call.rest \in Seq(OrdersOf(call.window)) /\ Counted(call)
  BY <1>1 DEF SettlementInv, CallTypes, WorthInv
<1>5. CASE call.rest = <<>>
  <2>1. calls' = [calls EXCEPT ![c] = [call EXCEPT !.pc = "settle"]]
    BY <1>1, <1>5 DEF Receive
  <2> QED
    BY <1>1, <1>3, <1>4, <2>1, WorthKept DEF CallStates
<1>6. CASE call.rest # <<>> /\ ~Counts(call, o)
  <2>1. calls' = [calls EXCEPT ![c] = [call EXCEPT !.rest = Tail(@)]]
    BY <1>1, <1>2, <1>6 DEF Receive
  <2> QED
    BY <1>1, <1>3, <1>4, <2>1, WorthKept DEF CallStates
<1>7. CASE call.rest # <<>> /\ Counts(call, o)
  <2>1. PICK next : next = [call EXCEPT !.rest = Tail(call.rest), !.seen = call.seen \union {o},
                              !.settled = Added(call.settled, ActionOf[o], Amounts[o])]
    OBVIOUS
  <2>2. calls' = [calls EXCEPT ![c] = next]
    BY <1>1, <1>2, <1>7, <2>1 DEF Receive
  <2>3. /\ next.seen = call.seen \cup {o} /\ next.window = call.window /\ next.pc = call.pc
        /\ next.settled = Added(call.settled, ActionOf[o], Amounts[o])
    BY <1>4, <2>1 DEF CallStates
  <2>4. o \in OrdersOf(call.window) /\ o \in Orders /\ o \notin call.seen
    BY <1>2, <1>4, <1>7 DEF OrdersOf, Counts
  <2>5. /\ next.seen \subseteq OrdersOf(next.window) /\ call.seen \in SUBSET Orders
        /\ call.settled \in Settlements
    BY <1>4, <2>3, <2>4 DEF Counted, CallStates
  <2>6. ASSUME NEW a \in Actions
        PROVE  /\ Amount(next.settled, a) = Total(next.seen, a)
               /\ Amount(next.settled, a) <= Worth(next.window, a)
    <3>1. Amount(next.settled, a)
             = Amount(call.settled, a) + IF a = ActionOf[o] THEN Amounts[o] ELSE 0
      <4>1. Amounts[o] \in Nat /\ Amount(call.settled, a) \in Nat
        BY <2>4, <2>5, AmountIs, OrdersAssumption
      <4> QED
        BY <2>3, <4>1 DEF Added, Amount
    <3>2. Amount(call.settled, a) = Total(call.seen, a)
      BY <1>3, <1>4 DEF Counted
    <3>3. Amount(next.settled, a) = Total(next.seen, a)
      BY <2>3, <2>4, <2>5, <3>1, <3>2, TotalMore
    <3> QED
      BY <2>5, <3>3, WorthIs
  <2>7. Counted(next)
    BY <2>5, <2>6 DEF Counted
  <2>8. \A d \in DOMAIN calls' : Counted(calls'[d])
    BY <2>2, <2>7 DEF WorthInv
  <2> QED
    BY <1>3, <2>8 DEF WorthInv, dbVars, Worth
<1> QED
  BY <1>5, <1>6, <1>7

\* The node is credited what a call settled, which is no more than the window is worth.
LEMMA CreditWorth ==
    ASSUME WorthInv, NEW c \in DOMAIN calls,
           rows' = rows \/ rows' = With(rows, calls[c].window, calls[c].settled),
           rowArchive' = rowArchive
    PROVE  /\ \A w \in DOMAIN rows', a \in Actions : Amount(rows'[w], a) <= Worth(w, a)
           /\ \A w \in Windows, a \in Actions : rowArchive'[w][a] <= Worth(w, a)
BY DEF WorthInv, Counted, With

LEMMA SettleWorth ==
    ASSUME SettlementInv, WorthInv, NEW c \in DOMAIN calls, Settle(c) \/ SettleUnknown(c)
    PROVE  WorthInv'
<1>1. /\ rows' = rows \/ rows' = With(rows, calls[c].window, calls[c].settled)
      /\ rowArchive' = rowArchive
  BY DEF Settle, SettleUnknown
<1>2. calls[c] \in CallStates /\ Counted(calls[c])
  BY DEF SettlementInv, CallTypes, WorthInv
<1>3. \A d \in DOMAIN calls' : Counted(calls'[d])
  <2>1. CASE Settle(c)
    <3>1. PICK status, charge :
             calls' = [calls EXCEPT ![c] = [@ EXCEPT !.pc = "charge", !.status = status,
                                              !.seen = {}, !.charge = charge]]
      BY <2>1 DEF Settle
    <3>2. PICK call : call = [calls[c] EXCEPT !.pc = "charge", !.status = status,
                                !.seen = {}, !.charge = charge]
      OBVIOUS
    <3>3. /\ call.pc = "charge" /\ call.seen = {} /\ call.window = calls[c].window
          /\ call.settled = calls[c].settled
      BY <1>2, <3>2 DEF CallStates
    <3>4. Counted(call)
      BY <1>2, <3>3 DEF Counted
    <3>5. calls' = [calls EXCEPT ![c] = call]
      BY <3>1, <3>2
    <3> QED
      BY <3>4, <3>5 DEF WorthInv
  <2>2. CASE SettleUnknown(c)
    BY <2>2 DEF SettleUnknown, Failing, Without, Restrict, WorthInv
  <2> QED
    BY <2>1, <2>2
<1> QED
  BY <1>1, <1>3, CreditWorth DEF WorthInv, Worth

\* Archiving moves the amounts of windows that had none in the archive.
LEMMA ArchiveWorth ==
    ASSUME SettlementInv, WorthInv, ArchiveRollups
    PROVE  WorthInv'
<1>1. PICK old : old = {w \in DOMAIN rows : Archivable(w)}
  OBVIOUS
<1>2. /\ calls' = calls
      /\ rows' = Restrict(rows, DOMAIN rows \ old)
      /\ rowArchive' = [w \in Windows |-> [a \in Actions |->
                          rowArchive[w][a] + IF w \in old THEN Amount(rows[w], a) ELSE 0]]
  BY <1>1 DEF ArchiveRollups
<1>3. \A w \in DOMAIN rows' : w \in DOMAIN rows /\ rows'[w] = rows[w]
  BY <1>2 DEF Restrict
<1>4. CreditInv /\ old \subseteq DOMAIN rows
  BY <1>1 DEF SettlementInv
<1>5. ASSUME NEW w \in Windows, NEW a \in Actions
      PROVE  rowArchive'[w][a] <= Worth(w, a)
  <2>1. rowArchive[w][a] \in Nat /\ (w \in old => Amount(rows[w], a) \in Nat)
    BY <1>4, PaidIs
  <2>2. rowArchive'[w][a] = rowArchive[w][a] + IF w \in old THEN Amount(rows[w], a) ELSE 0
    BY <1>2
  <2>3. w \in old => rowArchive[w][a] = 0
    BY <1>4 DEF CreditInv
  <2>4. Worth(w, a) \in Nat /\ rowArchive[w][a] <= Worth(w, a)
        /\ (w \in old => Amount(rows[w], a) <= Worth(w, a))
    BY <1>4, WorthIs DEF WorthInv
  <2> QED
    BY <2>1, <2>2, <2>3, <2>4
<1> QED
  BY <1>2, <1>3, <1>5 DEF WorthInv, Worth, Counted, Total

LEMMA NextWorth ==
    ASSUME SettlementInv, WorthInv, [Next]_vars
    PROVE  WorthInv'
<1>1. ASSUME UNCHANGED dbVars, calls' = calls PROVE WorthInv'
  BY <1>1, WorthKept
<1>2. ASSUME UNCHANGED dbVars, calls' = HungUp PROVE WorthInv'
  <2>1. DOMAIN calls' = DOMAIN calls
        /\ \A c \in DOMAIN calls' : calls[c] \in CallStates
                                    /\ calls'[c] = [calls[c] EXCEPT !.waited = FALSE]
    BY <1>2 DEF HungUp, SettlementInv, CallTypes
  <2> QED
    BY <1>2, <2>1, WorthKept DEF CallStates
<1>3. ASSUME NEW c \in DOMAIN calls, Answer(c) \/ HandlerFails(c) PROVE WorthInv'
  <2>1. calls' = Without(calls, c) /\ UNCHANGED dbVars
    BY <1>3 DEF Answer, HandlerFails, Failing
  <2>2. DOMAIN calls' = DOMAIN calls \ {c} /\ \A d \in DOMAIN calls' : calls'[d] = calls[d]
    BY <2>1 DEF Without, Restrict
  <2> QED
    BY <2>1, <2>2, WorthKept
<1>4. ASSUME NEW c \in DOMAIN calls, Settle(c) \/ SettleUnknown(c) PROVE WorthInv'
  BY <1>4, SettleWorth
<1>5. ASSUME NEW c \in DOMAIN calls, NEW a \in UserActions, Charge(c, a) PROVE WorthInv'
  <2>1. calls[c] \in CallStates /\ UNCHANGED dbVars
        /\ calls' = [calls EXCEPT ![c] = [calls[c] EXCEPT !.charge = @ \ {a}]]
    BY <1>5 DEF Charge, SettlementInv, CallTypes
  <2> QED
    BY <2>1, WorthKept DEF CallStates
<1>6. CASE Send
  <2> DEFINE call == [pc |-> "receive", waited |-> TRUE, rest |-> sender.orders, seen |-> {},
                      window |-> sender.window, settled |-> NoData, charge |-> {},
                      status |-> None, until |-> now + SenderTimeout]
  <2>1. UNCHANGED dbVars /\ \E x : calls' = With(calls, x, call)
    BY <1>6 DEF Send
  <2>2. Counted(call)
    BY NothingCounted
  <2> HIDE DEF call
  <2>3. \A d \in DOMAIN calls' : Counted(calls'[d])
    BY <2>1, <2>2 DEF With, WorthInv
  <2> QED
    BY <2>1, <2>3 DEF dbVars, WorthInv, Worth
<1>7. CASE SatelliteRestart
  <2>1. DOMAIN calls' = {} /\ UNCHANGED dbVars
    BY <1>7 DEF SatelliteRestart
  <2> QED
    BY <2>1, WorthKept
<1>8. CASE SettleFails \/ NodeRestart
  BY <1>2, <1>8 DEF SettleFails, NodeRestart
<1>9. ASSUME NEW o \in Orders, BeginEnqueue(o) \/ Commit(o) \/ Abort(o) \/ CommitFails(o)
      PROVE  WorthInv'
  BY <1>1, <1>9 DEF BeginEnqueue, Commit, Abort, CommitFails
<1>10. ASSUME NEW w \in Windows, CleanArchive(w) PROVE WorthInv'
  BY <1>1, <1>10 DEF CleanArchive
<1>11. CASE SendOrders \/ List \/ Read \/ Archive \/ ArchiveFails \/ StopSatellite \/ Flusher
            \/ FlushFails \/ Tick \/ UNCHANGED vars
  BY <1>1, <1>11 DEF SendOrders, List, Read, Archive, ArchiveFails, StopSatellite, Flusher,
     FlushFails, Tick, vars
<1>12. ASSUME NEW c \in DOMAIN calls, Receive(c) PROVE WorthInv'
  BY <1>12, ReceiveWorth
<1>13. CASE ArchiveRollups
  BY <1>13, ArchiveWorth
<1> QED
  BY <1>3, <1>4, <1>5, <1>6, <1>7, <1>8, <1>9, <1>10, <1>11, <1>12, <1>13
     DEF Next, SenderStep, HandlerStep

LEMMA PaidWorth ==
    ASSUME SettlementInv, WorthInv
    PROVE  NeverOverpaid
<1> SUFFICES ASSUME NEW w \in Windows, NEW a \in Actions
             PROVE  Paid(w, a) <= Worth(w, a)
  BY DEF NeverOverpaid
<1>1. CreditInv
  BY DEF SettlementInv
<1>2. /\ rowArchive[w][a] \in Nat /\ rowArchive[w][a] <= Worth(w, a) /\ Worth(w, a) \in Nat
      /\ rowArchive[w][a] # 0 => w \notin DOMAIN rows
      /\ w \in DOMAIN rows => Amount(rows[w], a) \in Nat /\ Amount(rows[w], a) <= Worth(w, a)
  BY <1>1, PaidIs, WorthIs DEF CreditInv, WorthInv
<1> QED
  BY <1>2 DEF Paid

\* A window is paid once (PaidOnce): the node is never credited more than its orders are
\* worth, however often a file is sent, an order is taken or a call is settled, and a call
\* that answers ACCEPTED has counted exactly what the node was credited.
THEOREM PaidOnceCorrect == Spec => []PaidOnce
<1>1. Init => SettlementInv /\ WorthInv
  <2> SUFFICES ASSUME Init
               PROVE  SettlementInv /\ WorthInv
    OBVIOUS
  <2>1. \A w, a : 0 <= Worth(w, a)
    <3>1. \A w, a : Worth(w, a) \in Nat
      BY WorthIs
    <3> QED
      BY <3>1
  <2>2. WorthInv
    BY <2>1 DEF Init, WorthInv
  <2> QED
    BY <2>2, InitSettlement
<1>2. SettlementInv /\ WorthInv /\ [Next]_vars => SettlementInv' /\ WorthInv'
  BY NextSettlement, NextWorth
<1>3. SettlementInv /\ WorthInv => PaidOnce
  BY PaidWorth, AcceptedPaid DEF PaidOnce, SettlementInv
<1> QED
  BY <1>1, <1>2, <1>3, PTL DEF Spec
=============================================================================
