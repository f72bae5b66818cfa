---------------------------- MODULE Seating_proof ----------------------------
(***************************************************************************)
(* What Seating computes, for any sectors, tables, capacities, requests    *)
(* and bookings.  Candidates are compared by scores that are ratios, so    *)
(* the proofs first establish what the summed capacities are and that the  *)
(* comparators are orders.                                                 *)
(***************************************************************************)
EXTENDS Seating, FiniteSetTheorems, WellFoundedInduction, TLAPS

-----------------------------------------------------------------------------
(* Numbers.                                                                *)

(* A set of naturals that is not empty has a least element.                *)
LEMMA LeastNumber ==
  ASSUME NEW K \in SUBSET Nat, K # {}
  PROVE  \E n \in K : \A m \in K : n <= m
<1>1. \E n \in K : \A m \in K : ~ (<<m, n>> \in OpToRel(<, Nat))
  BY WFMin, NatLessThanWellFounded, Zenon
<1>2. \A m, n \in Nat : ~(<<m, n>> \in OpToRel(<, Nat)) => n <= m
  BY DEF OpToRel
<1> QED
  BY <1>1, <1>2

(* Induction over the naturals, for a set of them.                         *)
LEMMA EveryNumber ==
  ASSUME NEW K \in SUBSET Nat, 0 \in K, \A n \in K : n + 1 \in K
  PROVE  K = Nat
<1> SUFFICES ASSUME Nat \ K # {} PROVE FALSE
  OBVIOUS
<1>1. PICK n \in Nat \ K : \A m \in Nat \ K : n <= m
  BY LeastNumber
<1>2. n # 0 /\ n - 1 \in Nat
  BY <1>1
<1>3. n - 1 \in K
  BY <1>1, <1>2
<1>4. (n - 1) + 1 = n
  BY <1>1
<1> QED
  BY <1>1, <1>3, <1>4

(* Multiplication by a positive number keeps the order.                    *)
LEMMA TimesPositive ==
  ASSUME NEW u \in Int, NEW v \in Int, NEW w \in Nat \ {0}
  PROVE  u * w <= v * w <=> u <= v
<1>1. ASSUME u <= v PROVE u * w <= v * w
  <2>1. PICK d \in Nat : v = u + d
    <3>1. v - u \in Nat /\ v = u + (v - u)
      BY <1>1
    <3> QED BY <3>1
  <2>2. d * w \in Nat OBVIOUS
  <2>3. v * w = u * w + d * w BY <2>1
  <2> QED BY <2>2, <2>3
<1>2. ASSUME u > v PROVE u * w > v * w
  <2>1. PICK d \in Nat \ {0} : u = v + d
    <3>1. u - v \in Nat \ {0} /\ u = v + (u - v)
      BY <1>2
    <3> QED BY <3>1
  <2>2. d * w \in Nat \ {0} OBVIOUS
  <2>3. u * w = v * w + d * w BY <2>1
  <2> QED BY <2>2, <2>3
<1> QED
  BY <1>1, <1>2

(* Ratios a/x, b/y, c/z are ordered as their cross products say.           *)
LEMMA Ratios ==
  ASSUME NEW a \in Int, NEW b \in Int, NEW c \in Int,
         NEW x \in Nat \ {0}, NEW y \in Nat \ {0}, NEW z \in Nat \ {0},
         a * y >= b * x, b * z >= c * y
  PROVE  /\ a * z >= c * x
         /\ a * y > b * x \/ b * z > c * y => a * z > c * x
<1>1. /\ a * y \in Int /\ b * x \in Int /\ b * z \in Int /\ c * y \in Int
      /\ a * z \in Int /\ c * x \in Int
  OBVIOUS
<1>2. /\ (b * x) * z <= (a * y) * z
      /\ a * y > b * x => (b * x) * z < (a * y) * z
  BY <1>1, TimesPositive
<1>3. /\ (c * y) * x <= (b * z) * x
      /\ b * z > c * y => (c * y) * x < (b * z) * x
  BY <1>1, TimesPositive
<1>4. /\ (a * y) * z = (a * z) * y
      /\ (c * y) * x = (c * x) * y
      /\ (b * x) * z = (b * z) * x
  OBVIOUS
<1>5. /\ (a * z) * y \in Int /\ (c * x) * y \in Int /\ (b * x) * z \in Int
  BY <1>1
<1>6. /\ (c * x) * y <= (a * z) * y
      /\ a * y > b * x \/ b * z > c * y => (c * x) * y < (a * z) * y
  BY <1>2, <1>3, <1>4, <1>5
<1> QED
  BY <1>1, <1>6, TimesPositive

-----------------------------------------------------------------------------
(* Capacities.                                                             *)

(* The element that a fold over the set s takes first.                     *)
First(s) == CHOOSE x \in s : TRUE

(* One unfolding of the sum of f over the subsets of T.                    *)
Unfold(f, T, g) ==
  [s \in SUBSET T |-> IF s = {} THEN 0 ELSE f[First(s)] + g[s \ {First(s)}]]

(* The sum is the value at T of a solution of its recursion, if there is   *)
(* one.                                                                    *)
LEMMA SumIsUnfolded ==
  ASSUME NEW f, NEW T, NEW g, g = Unfold(f, T, g)
  PROVE  \E h : h = Unfold(f, T, h) /\ SumFunctionOnSet(f, T) = h[T]
<1>1. SumFunctionOnSet(f, T) = (CHOOSE h : h = Unfold(f, T, h))[T]
  BY Zenon DEF SumFunctionOnSet, FoldFunctionOnSet, MapThenFoldSet, Unfold, First
<1> QED
  BY <1>1

(* The fold goes from a set to one with an element less.                   *)
LEMMA FirstIsRemoved ==
  ASSUME NEW s, IsFiniteSet(s), s # {}
  PROVE  /\ First(s) \in s
         /\ IsFiniteSet(s \ {First(s)})
         /\ Cardinality(s) \in Nat \ {0}
         /\ Cardinality(s \ {First(s)}) = Cardinality(s) - 1
<1>1. First(s) \in s
  BY DEF First
<1> QED
  BY <1>1, FS_RemoveElement, FS_EmptySet, FS_CardinalityType

(* There is one: the solutions for the subsets with fewer than n elements  *)
(* extend, one unfolding at a time, to the whole of a finite set.          *)
LEMMA SumHasUnfolding ==
  ASSUME NEW S, NEW f \in [S -> Nat \ {0}], NEW T \in SUBSET S, IsFiniteSet(T)
  PROVE  \E g \in [SUBSET T -> Nat] :
           /\ g = Unfold(f, T, g)
           /\ T # {} => g[T] > 0
<1> DEFINE Below(n) == {s \in SUBSET T : Cardinality(s) < n}
           K == {n \in Nat : \E g \in [SUBSET T -> Nat] :
                   \A s \in Below(n) : g[s] = Unfold(f, T, g)[s]}
<1>1. \A s \in SUBSET T : IsFiniteSet(s) /\ Cardinality(s) \in Nat
  BY FS_Subset, FS_CardinalityType
<1>2. ASSUME NEW g \in [SUBSET T -> Nat]
      PROVE  /\ Unfold(f, T, g) \in [SUBSET T -> Nat]
             /\ \A s \in SUBSET T : s # {} => Unfold(f, T, g)[s] > 0
  <2>1. ASSUME NEW s \in SUBSET T, s # {}
        PROVE  f[First(s)] + g[s \ {First(s)}] \in Nat \ {0}
    <3>1. First(s) \in S /\ s \ {First(s)} \in SUBSET T
      BY <1>1, <2>1, FirstIsRemoved
    <3>2. f[First(s)] \in Nat \ {0} /\ g[s \ {First(s)}] \in Nat
      BY <3>1
    <3> QED
      BY <3>2
  <2> QED
    BY <2>1 DEF Unfold
<1>3. 0 \in K
  <2>1. [s \in SUBSET T |-> 0] \in [SUBSET T -> Nat]
    OBVIOUS
  <2>2. Below(0) = {}
    BY <1>1
  <2> QED
    BY <2>1, <2>2
<1>4. ASSUME NEW n \in K
      PROVE  n + 1 \in K
  <2>1. PICK g \in [SUBSET T -> Nat] : \A s \in Below(n) : g[s] = Unfold(f, T, g)[s]
    OBVIOUS
  <2> DEFINE h == Unfold(f, T, g)
  <2>2. h \in [SUBSET T -> Nat]
    BY <1>2
  <2>3. ASSUME NEW s \in Below(n + 1)
        PROVE  h[s] = Unfold(f, T, h)[s]
    <3>1. CASE s = {}
      BY <3>1 DEF Unfold
    <3>2. CASE s # {}
      <4>1. s \ {First(s)} \in Below(n)
        BY <1>1, <3>2, FirstIsRemoved
      <4>2. g[s \ {First(s)}] = h[s \ {First(s)}]
        BY <2>1, <4>1
      <4>3. h[s] = f[First(s)] + g[s \ {First(s)}]
        BY <3>2 DEF Unfold
      <4>4. Unfold(f, T, h)[s] = f[First(s)] + h[s \ {First(s)}]
        <5> HIDE DEF h
        <5> QED BY <3>2 DEF Unfold
      <4> QED
        BY <4>2, <4>3, <4>4
    <3> QED
      BY <3>1, <3>2
  <2> HIDE DEF h
  <2> QED
    BY <2>2, <2>3
<1>5. K = Nat
  <2> HIDE DEF K
  <2>1. K \in SUBSET Nat BY DEF K
  <2> QED
    BY <1>3, <1>4, <2>1, EveryNumber
<1>6. PICK g \in [SUBSET T -> Nat] :
        \A s \in Below(Cardinality(T) + 1) : g[s] = Unfold(f, T, g)[s]
  <2>1. Cardinality(T) + 1 \in Nat
    BY <1>1
  <2> QED
    BY <1>5, <2>1
<1>7. \A s \in SUBSET T : g[s] = Unfold(f, T, g)[s]
  BY <1>1, <1>6, FS_Subset
<1>8. g = Unfold(f, T, g)
  <2>1. Unfold(f, T, g) \in [SUBSET T -> Nat]
    BY <1>2
  <2>2. ASSUME NEW u \in [SUBSET T -> Nat], NEW v \in [SUBSET T -> Nat],
               \A s \in SUBSET T : u[s] = v[s]
        PROVE  u = v
    BY <2>2
  <2> QED
    BY <1>7, <2>1, <2>2
<1> QED
  BY <1>2, <1>8

(* A recursive function has one solution only.                             *)
LEMMA UnfoldingIsUnique ==
  ASSUME NEW f, NEW T, IsFiniteSet(T), NEW g, g = Unfold(f, T, g), NEW h, h = Unfold(f, T, h)
  PROVE  g[T] = h[T]
<1> DEFINE K == {n \in Nat : \A s \in SUBSET T : Cardinality(s) < n => g[s] = h[s]}
<1>1. \A s \in SUBSET T : IsFiniteSet(s) /\ Cardinality(s) \in Nat
  BY FS_Subset, FS_CardinalityType
<1>2. 0 \in K
  BY <1>1
<1>3. ASSUME NEW n \in K
      PROVE  n + 1 \in K
  <2>1. ASSUME NEW s \in SUBSET T, Cardinality(s) < n + 1
        PROVE  g[s] = h[s]
    <3>1. CASE s = {}
      BY <3>1 DEF Unfold
    <3>2. CASE s # {}
      <4>1. /\ s \ {First(s)} \in SUBSET T
            /\ Cardinality(s \ {First(s)}) < n
        BY <1>1, <2>1, <3>2, FirstIsRemoved
      <4>2. g[s \ {First(s)}] = h[s \ {First(s)}]
        BY <4>1
      <4>3. /\ g[s] = f[First(s)] + g[s \ {First(s)}]
            /\ h[s] = f[First(s)] + h[s \ {First(s)}]
        BY <3>2 DEF Unfold
      <4> QED
        BY <4>2, <4>3
    <3> QED
      BY <3>1, <3>2
  <2> QED
    BY <2>1
<1>4. K = Nat
  <2> HIDE DEF K
  <2>1. K \in SUBSET Nat BY DEF K
  <2> QED
    BY <1>2, <1>3, <2>1, EveryNumber
<1>5. Cardinality(T) + 1 \in K
  <2> HIDE DEF K
  <2> QED
    BY <1>1, <1>4
<1> QED
  BY <1>1, <1>5

(* The capacity of a combination is a number, positive if it has a table.  *)
LEMMA SumOfSizes ==
  ASSUME NEW S, NEW f \in [S -> Nat \ {0}], NEW T \in SUBSET S, IsFiniteSet(T)
  PROVE  /\ SumFunctionOnSet(f, T) \in Nat
         /\ T # {} => SumFunctionOnSet(f, T) > 0
<1>1. PICK g \in [SUBSET T -> Nat] : g = Unfold(f, T, g) /\ (T # {} => g[T] > 0)
  BY SumHasUnfolding
<1>2. PICK h : h = Unfold(f, T, h) /\ SumFunctionOnSet(f, T) = h[T]
  BY <1>1, SumIsUnfolded
<1>3. h[T] = g[T]
  BY <1>1, <1>2, UnfoldingIsUnique
<1> QED
  BY <1>1, <1>2, <1>3

-----------------------------------------------------------------------------
(* Gaps, slots and candidates.                                             *)

Times == [start : Int, end : Int]
Timed(x) == x.start \in Int /\ x.end \in Int
AllTimed(B) == \A b \in B : Timed(b)

WellFormed(a) ==
  /\ a.partySize \in Int /\ a.duration \in Int
  /\ a.window = None \/ a.window \in Times

(* The gaps of a table lie in the window.  The whole window is one of them *)
(* whatever is booked: the code's two sentinels stand first in its list.   *)
LEMMA GapsLieInWindow ==
  ASSUME NEW t, NEW B, AllTimed(B), NEW w \in Times
  PROVE  /\ \A g \in GapsOfTable(t, B, w) :
              g \in Times /\ w.start <= g.start /\ g.end <= w.end
         /\ w.start < w.end => Gap(w.start, w.end) \in GapsOfTable(t, B, w)
<1>1. \A b \in B : b.start \in Int /\ b.end \in Int
  BY DEF AllTimed, Timed
<1>2. w.start \in Int /\ w.end \in Int /\ w.start <= w.start /\ w.end <= w.end
  BY DEF Times
<1> QED
  BY <1>1, <1>2 DEF GapsOfTable, Gap, Times

(* The gaps that tables share lie in the window that their own lie in, and *)
(* the window is shared if it is a gap of each.                            *)
LEMMA SharedGapsLieInWindow ==
  ASSUME NEW T, T # {}, NEW w \in Times, NEW G,
         \A t \in T : \A g \in G[t] :
           g \in Times /\ w.start <= g.start /\ g.end <= w.end
  PROVE  /\ \A g \in SharedGaps(T, G) :
              g \in Times /\ w.start <= g.start /\ g.end <= w.end
         /\ w.start < w.end /\ (\A t \in T : Gap(w.start, w.end) \in G[t]) =>
              Gap(w.start, w.end) \in SharedGaps(T, G)
<1>1. ASSUME NEW f, \A t \in T : f[t] \in G[t], NEW g \in Cuts(T, f)
      PROVE  g \in Times /\ w.start <= g.start /\ g.end <= w.end
  <2>1. PICK t, u \in T : g = Gap(f[t].start, f[u].end)
    BY <1>1 DEF Cuts
  <2>2. /\ f[t] \in Times /\ f[u] \in Times
        /\ w.start <= f[t].start /\ f[u].end <= w.end
    BY <1>1
  <2> QED
    BY <2>1, <2>2 DEF Gap, Times
<1>2. ASSUME w.start < w.end, \A t \in T : Gap(w.start, w.end) \in G[t]
      PROVE  Gap(w.start, w.end) \in SharedGaps(T, G)
  <2> DEFINE f == [t \in T |-> Gap(w.start, w.end)]
  <2>1. f \in [T -> UNION {G[t] : t \in T}] /\ \A t \in T : f[t] \in G[t]
    BY <1>2
  <2>2. PICK t \in T : TRUE
    OBVIOUS
  <2>3. w.start \in Int /\ w.end \in Int /\ w.start <= w.start /\ w.end <= w.end
    BY DEF Times
  <2>4. Gap(w.start, w.end) = Gap(f[t].start, f[t].end)
    BY DEF Gap
  <2>5. \A u \in T : f[u].start <= Gap(w.start, w.end).start /\ Gap(w.start, w.end).end <= f[u].end
    BY <2>3 DEF Gap
  <2>6. Gap(w.start, w.end) \in {Gap(f[p[1]].start, f[p[2]].end) : p \in T \X T}
    <3>1. <<t, t>> \in T \X T
      OBVIOUS
    <3> HIDE DEF f
    <3> QED
      BY <2>4, <3>1
  <2>7. Gap(w.start, w.end) \in Cuts(T, f)
    <3> HIDE DEF f
    <3> QED
      BY <2>5, <2>6 DEF Cuts
  <2>8. Gap(w.start, w.end).start < Gap(w.start, w.end).end
    BY <1>2 DEF Gap
  <2> HIDE DEF f
  <2> QED
    BY <2>1, <2>7, <2>8 DEF SharedGaps
<1> QED
  BY <1>1, <1>2 DEF SharedGaps

(* A slot of a gap begins and ends in it; every 15-minute step of the gap  *)
(* that leaves room for the slot is one.                                   *)
LEMMA SlotsLieInGap ==
  ASSUME NEW g \in Times, NEW d \in Int
  PROVE  /\ \A s \in SlotsIn(g, d) :
              /\ s.start \in Int /\ s.end = s.start + d
              /\ g.start <= s.start /\ s.end <= g.end
         /\ d >= 0 =>
              \A x \in g.start .. (g.end - d) :
                (x - g.start) % SlotMinutes = 0 => Gap(x, x + d) \in SlotsIn(g, d)
<1> USE DEF SlotMinutes, Gap
<1>0. g.start \in Int /\ g.end \in Int
  BY DEF Times
<1>1. ASSUME NEW s \in SlotsIn(g, d)
      PROVE  /\ s.start \in Int /\ s.end = s.start + d
             /\ g.start <= s.start /\ s.end <= g.end
  <2>1. PICK n \in 0 .. (g.end - g.start) \div 15 :
          s = Gap(g.start + 15 * n, g.start + 15 * n + d)
    BY <1>1 DEF SlotsIn
  <2>2. s.end <= g.end
    BY <1>1 DEF SlotsIn
  <2>3. n \in Int /\ n >= 0
    BY <1>0, <2>1
  <2> QED
    BY <1>0, <2>1, <2>2, <2>3
<1>2. ASSUME d >= 0, NEW x \in g.start .. (g.end - d), (x - g.start) % 15 = 0
      PROVE  Gap(x, x + d) \in SlotsIn(g, d)
  <2> DEFINE n == (x - g.start) \div 15
  <2>1. n \in Int /\ x = g.start + 15 * n
    BY <1>0, <1>2
  <2>2. n \in 0 .. (g.end - g.start) \div 15
    <3>1. \A p, q \in Int : 0 <= p /\ p <= q => p \div 15 \in 0 .. q \div 15
      OBVIOUS
    <3>2. /\ x - g.start \in Int /\ g.end - g.start \in Int
          /\ 0 <= x - g.start /\ x - g.start <= g.end - g.start
      BY <1>0, <1>2
    <3> QED
      BY <3>1, <3>2
  <2>3. Gap(x, x + d) = Gap(g.start + 15 * n, g.start + 15 * n + d) /\ Gap(x, x + d).end <= g.end
    BY <1>0, <1>2, <2>1
  <2> HIDE DEF n
  <2> QED
    BY <2>2, <2>3 DEF SlotsIn
<1> QED
  BY <1>1, <1>2

LEMMA AskedTimes ==
  ASSUME NEW a, WellFormed(a)
  PROVE  /\ WindowOf(a) \in Times
         /\ a.partySize \in Int /\ a.duration \in Int
         /\ ValidAsk(a) => a.duration > 0 /\ WindowOf(a).start < WindowOf(a).end
BY DEF WellFormed, WindowOf, Gap, Times, EndOfDay, ValidAsk

LEMMA CombinationsAreFinite ==
  ASSUME NEW s, NEW T \in TableSets(s)
  PROVE  /\ T # {} /\ T \subseteq TablesOf(s)
         /\ IsFiniteSet(T) /\ Cardinality(T) \in Nat
         /\ CapacityMax(T) \in Nat \ {0}
<1>1. T \in SUBSET Tables /\ IsFiniteSet(T) /\ Cardinality(T) \in Nat
  BY SeatingAssumption, FS_Subset, FS_CardinalityType DEF TableSets, TablesOf
<1>2. T # {}
  BY FS_EmptySet DEF TableSets, MaxComboSize
<1>3. MaxSize \in [Tables -> Nat \ {0}]
  BY SeatingAssumption
<1>4. SumFunctionOnSet(MaxSize, T) \in Nat /\ SumFunctionOnSet(MaxSize, T) > 0
  BY <1>1, <1>2, <1>3, SumOfSizes
<1> QED
  BY <1>1, <1>2, <1>4 DEF CapacityMax, TableSets

GapsOf(a, B) == [t \in TablesOf(a.sector) |-> GapsOfTable(t, B, WindowOf(a))]
Candidate(T, s) == [tables |-> T, start |-> s.start, end |-> s.end, max |-> CapacityMax(T)]

LEMMA CandidatesAre ==
  ASSUME NEW a, NEW B, NEW c
  PROVE  c \in Candidates(a, B) <=>
           \E T \in TableSets(a.sector) :
             /\ Seats(T, a.partySize)
             /\ \E g \in SharedGaps(T, GapsOf(a, B)) :
                  \E s \in SlotsIn(g, a.duration) : c = Candidate(T, s)
<1> DEFINE slotsOf(T) == UNION {SlotsIn(g, a.duration) : g \in SharedGaps(T, GapsOf(a, B))}
           of(T) == {Candidate(T, s) : s \in slotsOf(T)}
<1>1. Candidates(a, B) = UNION {of(T) : T \in {U \in TableSets(a.sector) : Seats(U, a.partySize)}}
  BY DEF Candidates, GapsOf, Candidate
<1>2. ASSUME NEW T
      PROVE  c \in of(T) <=> \E g \in SharedGaps(T, GapsOf(a, B)) :
                               \E s \in SlotsIn(g, a.duration) : c = Candidate(T, s)
  OBVIOUS
<1> HIDE DEF of
<1>3. c \in Candidates(a, B) <=>
        \E T \in TableSets(a.sector) : Seats(T, a.partySize) /\ c \in of(T)
  BY <1>1
<1> QED
  BY <1>2, <1>3

(* What a comparator looks at.                                             *)
Comparable(c) ==
  /\ c.max \in Nat \ {0}
  /\ c.start \in Int
  /\ Cardinality(c.tables) \in Nat

(* Every candidate fits the request.                                       *)
LEMMA CandidatesFit ==
  ASSUME NEW a, WellFormed(a), NEW B, AllTimed(B), NEW c \in Candidates(a, B)
  PROVE  /\ c = Candidate(c.tables, Gap(c.start, c.start + a.duration))
         /\ c.tables \in TableSets(a.sector)
         /\ Seats(c.tables, a.partySize)
         /\ WindowOf(a).start <= c.start /\ c.end <= WindowOf(a).end
         /\ c.end = c.start + a.duration
         /\ Comparable(c)
<1>1. PICK T \in TableSets(a.sector) :
        /\ Seats(T, a.partySize)
        /\ \E g \in SharedGaps(T, GapsOf(a, B)) :
             \E s \in SlotsIn(g, a.duration) : c = Candidate(T, s)
  BY CandidatesAre
<1>2. PICK g \in SharedGaps(T, GapsOf(a, B)) :
        \E s \in SlotsIn(g, a.duration) : c = Candidate(T, s)
  BY <1>1
<1>3. PICK s \in SlotsIn(g, a.duration) : c = Candidate(T, s)
  BY <1>2
<1>4. WindowOf(a) \in Times /\ a.duration \in Int
  BY AskedTimes
<1>5. /\ T # {} /\ T \subseteq TablesOf(a.sector)
      /\ Cardinality(T) \in Nat /\ CapacityMax(T) \in Nat \ {0}
  BY CombinationsAreFinite
<1>6. \A t \in T : \A h \in GapsOf(a, B)[t] :
        h \in Times /\ WindowOf(a).start <= h.start /\ h.end <= WindowOf(a).end
  BY <1>4, <1>5, GapsLieInWindow DEF GapsOf
<1>7. g \in Times /\ WindowOf(a).start <= g.start /\ g.end <= WindowOf(a).end
  BY <1>4, <1>5, <1>6, SharedGapsLieInWindow
<1>8. /\ s.start \in Int /\ s.end = s.start + a.duration
      /\ g.start <= s.start /\ s.end <= g.end
  BY <1>4, <1>7, SlotsLieInGap
<1>9. /\ c.tables = T /\ c.start = s.start /\ c.end = s.end /\ c.max = CapacityMax(T)
      /\ c = Candidate(c.tables, Gap(c.start, c.start + a.duration))
  BY <1>3, <1>8 DEF Candidate, Gap
<1>10. WindowOf(a).start <= s.start /\ s.end <= WindowOf(a).end
  BY <1>4, <1>7, <1>8 DEF Times
<1> QED
  BY <1>1, <1>5, <1>8, <1>9, <1>10 DEF Comparable

(* Every set of tables that seats the party is a candidate for every       *)
(* 15-minute step of the window that leaves room for the stay.             *)
LEMMA EverySlotIsACandidate ==
  ASSUME NEW a, WellFormed(a), ValidAsk(a), NEW B, AllTimed(B),
         NEW T \in TableSets(a.sector), Seats(T, a.partySize),
         NEW x \in WindowOf(a).start .. (WindowOf(a).end - a.duration),
         (x - WindowOf(a).start) % SlotMinutes = 0
  PROVE  Candidate(T, Gap(x, x + a.duration)) \in Candidates(a, B)
<1> DEFINE w == Gap(WindowOf(a).start, WindowOf(a).end)
<1>1. /\ WindowOf(a) \in Times /\ a.duration \in Int /\ a.duration > 0
      /\ WindowOf(a).start < WindowOf(a).end
  BY AskedTimes
<1>2. T # {} /\ T \subseteq TablesOf(a.sector)
  BY CombinationsAreFinite
<1>3. \A t \in T : /\ w \in GapsOf(a, B)[t]
                   /\ \A h \in GapsOf(a, B)[t] :
                        h \in Times /\ WindowOf(a).start <= h.start /\ h.end <= WindowOf(a).end
  BY <1>1, <1>2, GapsLieInWindow DEF GapsOf
<1>4. w \in SharedGaps(T, GapsOf(a, B))
  BY <1>1, <1>2, <1>3, SharedGapsLieInWindow
<1>5. w \in Times /\ w.start = WindowOf(a).start /\ w.end = WindowOf(a).end
  BY <1>1 DEF Gap, Times
<1>6. Gap(x, x + a.duration) \in SlotsIn(w, a.duration)
  <2> HIDE DEF w
  <2> QED
    BY <1>1, <1>5, SlotsLieInGap
<1> HIDE DEF w
<1> QED
  BY <1>4, <1>6, CandidatesAre, Zenon

(* There are finitely many, whatever the bookings: a set of tables and a   *)
(* start make at most one.                                                 *)
LEMMA CandidatesAreFinite ==
  ASSUME NEW a, WellFormed(a), NEW B, AllTimed(B)
  PROVE  IsFiniteSet(Candidates(a, B))
<1> DEFINE w == WindowOf(a)
           C == Candidates(a, B)
           P == (SUBSET Tables) \X (w.start .. (w.end - a.duration))
           f == [c \in C |-> <<c.tables, c.start>>]
<1>1. w.start \in Int /\ w.end \in Int /\ a.duration \in Int
  BY AskedTimes DEF Times
<1>2. IsFiniteSet(P)
  <2>1. w.end - a.duration \in Int
    BY <1>1
  <2>2. IsFiniteSet(w.start .. (w.end - a.duration))
    BY <1>1, <2>1, FS_Interval
  <2>3. IsFiniteSet(SUBSET Tables)
    BY SeatingAssumption, FS_SUBSET
  <2> QED
    BY <2>2, <2>3, FS_Product
<1>3. f \in [C -> P]
  <2>1. ASSUME NEW c \in C
        PROVE  c.tables \in SUBSET Tables /\ c.start \in w.start .. (w.end - a.duration)
    <3>1. /\ c.tables \in TableSets(a.sector) /\ c.start \in Int
          /\ w.start <= c.start /\ c.start + a.duration <= w.end
      BY CandidatesFit DEF Comparable
    <3> QED
      BY <1>1, <3>1 DEF TableSets, TablesOf
  <2> QED
    BY <2>1
<1>4. \A c, d \in C : f[c] = f[d] => c = d
  <2>1. ASSUME NEW c \in C, NEW d \in C, c.tables = d.tables, c.start = d.start
        PROVE  c = d
    <3>1. /\ c = Candidate(c.tables, Gap(c.start, c.start + a.duration))
          /\ d = Candidate(d.tables, Gap(d.start, d.start + a.duration))
      BY CandidatesFit
    <3> QED
      BY <2>1, <3>1
  <2> HIDE DEF C
  <2> QED
    BY <2>1
<1>5. f \in Injection(C, P)
  <2> HIDE DEF f, C, P
  <2> QED
    BY <1>3, <1>4 DEF Injection, IsInjective
<1> HIDE DEF f, P
<1> QED
  BY <1>2, <1>5, FS_Injection

-----------------------------------------------------------------------------
(* The comparators.                                                        *)

LEMMA ScoresAreNumbers ==
  ASSUME NEW p \in Int, NEW c, Comparable(c)
  PROVE  ScaledScore(c, p) \in Int /\ c.max \in Nat \ {0}
<1>1. /\ c.max \in Nat \ {0} /\ 50 * p \in Int /\ 20 * c.max \in Int /\ 30 * c.max \in Int
  BY DEF Comparable
<1> QED
  BY <1>1 DEF ScaledScore

LEMMA ScoresAreCompared ==
  ASSUME NEW p \in Int, NEW c, Comparable(c), NEW d, Comparable(d)
  PROVE  /\ ScoresHigher(c, d, p) \/ SameScore(c, d, p) \/ ScoresHigher(d, c, p)
         /\ ~(ScoresHigher(c, d, p) /\ ScoresHigher(d, c, p))
         /\ SameScore(c, d, p) =>
              SameScore(d, c, p) /\ ~ScoresHigher(c, d, p) /\ ~ScoresHigher(d, c, p)
<1>1. /\ ScaledScore(c, p) \in Int /\ c.max \in Nat \ {0}
      /\ ScaledScore(d, p) \in Int /\ d.max \in Nat \ {0}
  BY ScoresAreNumbers
<1>2. ScaledScore(c, p) * d.max \in Int /\ ScaledScore(d, p) * c.max \in Int
  BY <1>1
<1> QED
  BY <1>2 DEF ScoresHigher, SameScore

LEMMA ScoresAreOrdered ==
  ASSUME NEW p \in Int, NEW c, Comparable(c), NEW d, Comparable(d), NEW e, Comparable(e),
         ScoresHigher(c, d, p) \/ SameScore(c, d, p),
         ScoresHigher(d, e, p) \/ SameScore(d, e, p)
  PROVE  /\ ScoresHigher(c, e, p) \/ SameScore(c, e, p)
         /\ ScoresHigher(c, d, p) \/ ScoresHigher(d, e, p) => ScoresHigher(c, e, p)
         /\ SameScore(c, d, p) /\ SameScore(d, e, p) => SameScore(c, e, p)
<1> DEFINE i == ScaledScore(c, p)  j == ScaledScore(d, p)  k == ScaledScore(e, p)
           x == c.max  y == d.max  z == e.max
<1>1. /\ i \in Int /\ j \in Int /\ k \in Int
      /\ x \in Nat \ {0} /\ y \in Nat \ {0} /\ z \in Nat \ {0}
  BY ScoresAreNumbers
<1>2. /\ ScoresHigher(c, d, p) <=> i * y > j * x
      /\ ScoresHigher(d, e, p) <=> j * z > k * y
      /\ ScoresHigher(c, e, p) <=> i * z > k * x
      /\ SameScore(c, d, p) <=> i * y = j * x
      /\ SameScore(d, e, p) <=> j * z = k * y
      /\ SameScore(c, e, p) <=> i * z = k * x
  BY DEF ScoresHigher, SameScore
<1> HIDE DEF i, j, k, x, y, z
<1>3. /\ i * y \in Int /\ j * x \in Int /\ j * z \in Int /\ k * y \in Int
      /\ i * z \in Int /\ k * x \in Int
  BY <1>1
<1>4. i * y >= j * x /\ j * z >= k * y
  BY <1>2, <1>3
<1>5. i * z >= k * x /\ (i * y > j * x \/ j * z > k * y => i * z > k * x)
  BY <1>1, <1>4, Ratios
<1>6. i * y = j * x /\ j * z = k * y => k * x >= i * z
  <2> SUFFICES ASSUME i * y = j * x, j * z = k * y
               PROVE  k * x >= i * z
    OBVIOUS
  <2>1. k * y >= j * z /\ j * x >= i * y
    BY <1>3
  <2> QED
    BY <1>1, <2>1, Ratios
<1> QED
  BY <1>2, <1>3, <1>5, <1>6

LEMMA PrecedesIsAnOrder ==
  ASSUME NEW p \in Int, NEW c, Comparable(c), NEW d, Comparable(d), NEW e, Comparable(e)
  PROVE  /\ ~Precedes(c, c, p)
         /\ Precedes(c, d, p) /\ Precedes(d, e, p) => Precedes(c, e, p)
<1>1. /\ c.start \in Int /\ d.start \in Int /\ e.start \in Int
      /\ Cardinality(c.tables) \in Nat /\ Cardinality(d.tables) \in Nat
      /\ Cardinality(e.tables) \in Nat
  BY DEF Comparable
<1>2. ~Precedes(c, c, p)
  <2>1. ~ScoresHigher(c, c, p)
    BY ScoresAreCompared
  <2> QED
    BY <1>1, <2>1 DEF Precedes
<1>3. ASSUME Precedes(c, d, p), Precedes(d, e, p)
      PROVE  Precedes(c, e, p)
  <2>1. /\ ScoresHigher(c, d, p) \/ SameScore(c, d, p)
        /\ ScoresHigher(d, e, p) \/ SameScore(d, e, p)
    BY <1>3 DEF Precedes
  <2>2. /\ ScoresHigher(c, d, p) \/ ScoresHigher(d, e, p) => ScoresHigher(c, e, p)
        /\ SameScore(c, d, p) /\ SameScore(d, e, p) => SameScore(c, e, p)
    BY <2>1, ScoresAreOrdered
  <2>3. CASE ScoresHigher(c, d, p) \/ ScoresHigher(d, e, p)
    BY <2>2, <2>3 DEF Precedes
  <2>4. CASE ~(ScoresHigher(c, d, p) \/ ScoresHigher(d, e, p))
    BY <1>1, <1>3, <2>1, <2>2, <2>4 DEF Precedes, IsSingle
  <2> QED
    BY <2>3, <2>4
<1> QED
  BY <1>2, <1>3

(* selectBestCandidate finds one whenever there is a candidate: the one    *)
(* that the fewest precede.                                                *)
LEMMA BestExists ==
  ASSUME NEW p \in Int, NEW C, IsFiniteSet(C), C # {}, \A c \in C : Comparable(c)
  PROVE  BestCandidates(C, p) # {}
<1> DEFINE Ahead(c) == {d \in C : Precedes(d, c, p)}
           K == {Cardinality(Ahead(c)) : c \in C}
<1>1. \A c \in C : IsFiniteSet(Ahead(c)) /\ Cardinality(Ahead(c)) \in Nat
  BY FS_Subset, FS_CardinalityType
<1>2. K \in SUBSET Nat /\ K # {}
  BY <1>1
<1>3. PICK c \in C : \A d \in C : Cardinality(Ahead(c)) <= Cardinality(Ahead(d))
  <2> HIDE DEF Ahead
  <2>1. PICK n \in K : \A m \in K : n <= m
    <3> HIDE DEF K
    <3> QED
      BY <1>2, LeastNumber
  <2> QED
    BY <2>1
<1>4. ASSUME NEW d \in C, Precedes(d, c, p)
      PROVE  FALSE
  <2>1. Ahead(d) \subseteq Ahead(c) /\ d \in Ahead(c) /\ d \notin Ahead(d)
    BY <1>4, PrecedesIsAnOrder
  <2>2. /\ Cardinality(Ahead(d)) <= Cardinality(Ahead(c))
        /\ Cardinality(Ahead(c)) = Cardinality(Ahead(d)) => Ahead(c) = Ahead(d)
    <3> HIDE DEF Ahead
    <3> QED
      BY <1>1, <2>1, FS_Subset
  <2>3. Cardinality(Ahead(c)) = Cardinality(Ahead(d))
    <3> HIDE DEF Ahead
    <3> QED
      BY <1>1, <1>3, <2>2
  <2> HIDE DEF Ahead
  <2> QED
    BY <2>1, <2>2, <2>3
<1> QED
  BY <1>4 DEF BestCandidates

(* Two best candidates differ in nothing that the comparator looks at.     *)
LEMMA BestAreAlike ==
  ASSUME NEW p \in Int, NEW C, \A c \in C : Comparable(c),
         NEW c \in BestCandidates(C, p), NEW d \in BestCandidates(C, p)
  PROVE  /\ SameScore(c, d, p)
         /\ c.start = d.start
         /\ Cardinality(c.tables) = Cardinality(d.tables)
<1>1. c \in C /\ d \in C /\ ~Precedes(c, d, p) /\ ~Precedes(d, c, p)
  BY DEF BestCandidates
<1>2. /\ SameScore(c, d, p) /\ SameScore(d, c, p)
  BY <1>1, ScoresAreCompared DEF Precedes
<1>3. IsSingle(c) = IsSingle(d)
  BY <1>1, <1>2 DEF Precedes, IsSingle
<1> QED
  BY <1>1, <1>2, <1>3 DEF Precedes, Comparable

(* A list cut by score and start has a candidate that scores as high as    *)
(* the best, and none that scores higher.                                  *)
LEMMA ListingsHoldTheBest ==
  ASSUME NEW p \in Int, NEW C, IsFiniteSet(C), C # {}, \A c \in C : Comparable(c),
         NEW n \in Nat \ {0}, NEW L \in Listings(C, p, n), NEW b \in BestCandidates(C, p)
  PROVE  /\ L \subseteq C /\ Cardinality(L) \in 1 .. n
         /\ \E c \in L : SameScore(c, b, p)
         /\ \A c \in L : ~ScoresHigher(c, b, p)
<1>1. Cardinality(C) \in Nat \ {0}
  BY FS_EmptySet, FS_CardinalityType
<1>2. Min({n, Cardinality(C)}) \in 1 .. n
  <2> DEFINE m == IF n <= Cardinality(C) THEN n ELSE Cardinality(C)
  <2>1. m \in {n, Cardinality(C)} /\ \A y \in {n, Cardinality(C)} : m <= y
    BY <1>1
  <2>2. Min({n, Cardinality(C)}) \in {n, Cardinality(C)}
        /\ \A y \in {n, Cardinality(C)} : Min({n, Cardinality(C)}) <= y
    <3> HIDE DEF m
    <3> QED
      BY <2>1 DEF Min
  <2> QED
    BY <1>1, <2>2
<1>3. L \subseteq C /\ Cardinality(L) \in 1 .. n
  BY <1>2 DEF Listings, kSubset
<1>4. L # {}
  BY <1>3, FS_EmptySet
<1>5. b \in C /\ \A c \in C : ~ScoresHigher(c, b, p)
  BY DEF BestCandidates, Precedes
<1>6. \E c \in L : SameScore(c, b, p)
  <2>1. CASE b \in L
    BY <2>1, <1>5, ScoresAreCompared
  <2>2. CASE b \notin L
    <3>1. PICK c \in L : TRUE
      BY <1>4
    <3>2. ~ScoresHigher(b, c, p)
      BY <2>2, <1>5 DEF Listings, Before
    <3> QED
      BY <1>3, <1>5, <3>2, ScoresAreCompared
  <2> QED
    BY <2>1, <2>2
<1> QED
  BY <1>3, <1>5, <1>6

-----------------------------------------------------------------------------
(* The choice among the candidates.                                        *)

(* Candidates of the same tables differ in their start alone.              *)
LEMMA ScoresIgnoreStarts ==
  ASSUME NEW p, NEW c, NEW d, NEW e, d.tables = c.tables, d.max = c.max
  PROVE  /\ IsSingle(d) = IsSingle(c)
         /\ ScoresHigher(d, e, p) <=> ScoresHigher(c, e, p)
         /\ SameScore(d, e, p) <=> SameScore(c, e, p)
<1>1. IsSingle(d) = IsSingle(c)
  BY DEF IsSingle
<1>2. ScaledScore(d, p) = ScaledScore(c, p)
  BY <1>1 DEF ScaledScore
<1> QED
  BY <1>1, <1>2 DEF ScoresHigher, SameScore

(* Whatever tables make a candidate also make one at the window's start:   *)
(* the whole window is a gap of every table, booked or not.                *)
AtWindowStart(T, a) == Candidate(T, Gap(WindowOf(a).start, WindowOf(a).start + a.duration))

LEMMA TablesAreTriedFirst ==
  ASSUME NEW a, WellFormed(a), ValidAsk(a), NEW A, AllTimed(A), NEW B, AllTimed(B),
         NEW c \in Candidates(a, A)
  PROVE  /\ AtWindowStart(c.tables, a) \in Candidates(a, B)
         /\ AtWindowStart(c.tables, a).tables = c.tables
         /\ AtWindowStart(c.tables, a).max = c.max
         /\ AtWindowStart(c.tables, a).start = WindowOf(a).start
         /\ WindowOf(a).start <= c.start
<1>1. /\ WindowOf(a).start \in Int /\ WindowOf(a).end \in Int /\ a.duration \in Int
  BY AskedTimes DEF Times
<1>2. /\ c = Candidate(c.tables, Gap(c.start, c.start + a.duration))
      /\ c.tables \in TableSets(a.sector) /\ Seats(c.tables, a.partySize)
      /\ WindowOf(a).start <= c.start /\ c.end <= WindowOf(a).end
      /\ c.end = c.start + a.duration /\ c.start \in Int
  BY CandidatesFit DEF Comparable
<1>3. WindowOf(a).start \in WindowOf(a).start .. (WindowOf(a).end - a.duration)
  BY <1>1, <1>2
<1>4. (WindowOf(a).start - WindowOf(a).start) % SlotMinutes = 0
  BY <1>1 DEF SlotMinutes
<1>5. AtWindowStart(c.tables, a) \in Candidates(a, B)
  BY <1>2, <1>3, <1>4, EverySlotIsACandidate DEF AtWindowStart
<1>6. c.max = CapacityMax(c.tables)
  BY <1>2 DEF Candidate
<1> QED
  BY <1>2, <1>5, <1>6 DEF AtWindowStart, Candidate, Gap

(* wokibrain-selection.service.ts selectBestCandidate over the gaps of     *)
(* gap-discovery.service.ts: the seat it picks starts with the window.     *)
LEMMA BestStartsTheWindow ==
  ASSUME NEW a, WellFormed(a), ValidAsk(a), NEW B, AllTimed(B),
         NEW c \in BestCandidates(Candidates(a, B), a.partySize)
  PROVE  c = AtWindowStart(c.tables, a) /\ c.start = WindowOf(a).start
<1> DEFINE d == AtWindowStart(c.tables, a)
<1>1. c \in Candidates(a, B) /\ \A x \in Candidates(a, B) : ~Precedes(x, c, a.partySize)
  BY DEF BestCandidates
<1>2. /\ d \in Candidates(a, B) /\ d.tables = c.tables /\ d.max = c.max
      /\ d.start = WindowOf(a).start /\ WindowOf(a).start <= c.start
  BY <1>1, TablesAreTriedFirst
<1>3. /\ c = Candidate(c.tables, Gap(c.start, c.start + a.duration))
      /\ Comparable(c) /\ a.partySize \in Int /\ WindowOf(a).start \in Int
  BY <1>1, CandidatesFit, AskedTimes DEF Times
<1>4. SameScore(c, c, a.partySize)
  BY DEF SameScore
<1>5. ~(d.start < c.start)
  <2> HIDE DEF d
  <2>1. IsSingle(d) = IsSingle(c) /\ SameScore(d, c, a.partySize)
    BY <1>2, <1>4, ScoresIgnoreStarts
  <2> QED
    BY <1>1, <1>2, <2>1 DEF Precedes
<1>6. c.start = WindowOf(a).start
  <2> HIDE DEF d
  <2> QED
    BY <1>2, <1>3, <1>5 DEF Comparable
<1> QED
  BY <1>3, <1>6 DEF AtWindowStart

(* So what is already booked has no part in the choice: for one request    *)
(* and any two days' bookings the seats that create may try are the same.  *)
LEMMA BestStaysBest ==
  ASSUME NEW a, WellFormed(a), ValidAsk(a), NEW A, AllTimed(A), NEW B, AllTimed(B),
         NEW c \in BestCandidates(Candidates(a, A), a.partySize)
  PROVE  c \in BestCandidates(Candidates(a, B), a.partySize)
<1>1. c \in Candidates(a, A) /\ \A x \in Candidates(a, A) : ~Precedes(x, c, a.partySize)
  BY DEF BestCandidates
<1>2. c = AtWindowStart(c.tables, a) /\ c.start = WindowOf(a).start
  BY BestStartsTheWindow
<1>3. c \in Candidates(a, B)
  BY <1>1, <1>2, TablesAreTriedFirst
<1>4. ASSUME NEW d \in Candidates(a, B), Precedes(d, c, a.partySize)
      PROVE  FALSE
  <2> DEFINE e == AtWindowStart(d.tables, a)
  <2>1. /\ e \in Candidates(a, A) /\ e.tables = d.tables /\ e.max = d.max
        /\ e.start = WindowOf(a).start /\ WindowOf(a).start <= d.start
    BY <1>4, TablesAreTriedFirst
  <2>2. d.start \in Int /\ WindowOf(a).start \in Int
    BY <1>4, CandidatesFit, AskedTimes DEF Comparable, Times
  <2> HIDE DEF e
  <2>3. /\ IsSingle(e) = IsSingle(d)
        /\ ScoresHigher(e, c, a.partySize) <=> ScoresHigher(d, c, a.partySize)
        /\ SameScore(e, c, a.partySize) <=> SameScore(d, c, a.partySize)
    BY <2>1, ScoresIgnoreStarts
  <2>4. Precedes(e, c, a.partySize)
    BY <1>2, <1>4, <2>1, <2>2, <2>3 DEF Precedes
  <2> QED
    BY <1>1, <2>1, <2>4
<1> QED
  BY <1>3, <1>4 DEF BestCandidates

THEOREM ChoiceIgnoresBookings ==
  ASSUME NEW a, WellFormed(a), ValidAsk(a), NEW A, AllTimed(A), NEW B, AllTimed(B)
  PROVE  BestCandidates(Candidates(a, A), a.partySize)
           = BestCandidates(Candidates(a, B), a.partySize)
BY BestStaysBest

(* Nor in the answer "no capacity": it is given when no set of tables      *)
(* seats the party or the window is too short, on a full day as on an      *)
(* empty one.                                                              *)
THEOREM CapacityIgnoresBookings ==
  ASSUME NEW a, WellFormed(a), ValidAsk(a), NEW B, AllTimed(B)
  PROVE  Candidates(a, B) # {} <=>
           /\ \E T \in TableSets(a.sector) : Seats(T, a.partySize)
           /\ WindowOf(a).start + a.duration <= WindowOf(a).end
<1>1. /\ WindowOf(a).start \in Int /\ WindowOf(a).end \in Int /\ a.duration \in Int
  BY AskedTimes DEF Times
<1>2. ASSUME NEW c \in Candidates(a, B)
      PROVE  /\ c.tables \in TableSets(a.sector) /\ Seats(c.tables, a.partySize)
             /\ WindowOf(a).start + a.duration <= WindowOf(a).end
  <2>1. /\ c.tables \in TableSets(a.sector) /\ Seats(c.tables, a.partySize)
        /\ WindowOf(a).start <= c.start /\ c.start + a.duration <= WindowOf(a).end
        /\ c.start \in Int
    BY CandidatesFit DEF Comparable
  <2> QED
    BY <1>1, <2>1
<1>3. ASSUME NEW T \in TableSets(a.sector), Seats(T, a.partySize),
             WindowOf(a).start + a.duration <= WindowOf(a).end
      PROVE  Candidates(a, B) # {}
  <2>1. WindowOf(a).start \in WindowOf(a).start .. (WindowOf(a).end - a.duration)
    BY <1>1, <1>3
  <2>2. (WindowOf(a).start - WindowOf(a).start) % SlotMinutes = 0
    BY <1>1 DEF SlotMinutes
  <2> QED
    BY <1>3, <2>1, <2>2, EverySlotIsACandidate
<1> QED
  BY <1>2, <1>3

=============================================================================
