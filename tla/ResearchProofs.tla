--------------------------- MODULE ResearchProofs ---------------------------
(***************************************************************************)
(* Theorems about the bound that the research measures against, about the  *)
(* files its unrestricted study leaves, and about its sessions with the    *)
(* benchmark runner.                                                       *)
(*                                                                         *)
(* Belady's rule is optimal: for every request sequence and every cache    *)
(* size, giving up the page whose next request is farthest away needs the  *)
(* fewest misses of all caches that load on demand.  The count of the      *)
(* exact search and of the research scripts is that minimum, and the REF   *)
(* cache implements the contract of a cache and reaches the minimum.       *)
(*                                                                         *)
(* The table of MinMissesFrom is unfolded once (BestAt).  Everything about *)
(* it is then an induction over the positions of the sequence, from its    *)
(* end: two caches that differ in one page differ by at most one miss      *)
(* (OneApart), and it is better to hold the page that is requested sooner  *)
(* (SoonerIsBetter).  So a full cache loses nothing by giving up a page    *)
(* that is farthest away (FarthestIsBest).                                 *)
(*                                                                         *)
(* The study's manifest is truthful for all patterns, totals and numbers   *)
(* of threads, any number of studies in one directory, and any failure or  *)
(* kill.                                                                   *)
(*                                                                         *)
(* A script's sessions with the benchmark runner, for all configurations,  *)
(* capacities and request lists, any number of calls and sessions, and any *)
(* interrupt, crash or time-out.                                           *)
(***************************************************************************)
EXTENDS CacheREFHistory, IdealMisses, UnrestrictedStudy, BatchRunner, ListProofs

-----------------------------------------------------------------------------
(***************************************************************************)
(* Finite sets.                                                            *)
(***************************************************************************)

\* A list has finitely many items.
LEMMA ItemsFinite ==
  ASSUME NEW S
  PROVE  \A list \in Seq(S) : IsFiniteSet(ToSet(list))
<1>. DEFINE P == {list \in Seq(S) : IsFiniteSet(ToSet(list))}
<1>1. <<>> \in P
  <2>1. DOMAIN <<>> = {}
    BY EmptySeq
  <2>2. ToSet(<<>>) = {}
    BY <2>1 DEF ToSet
  <2>3. IsFiniteSet(ToSet(<<>>))
    BY <2>2, FS_EmptySet
  <2>. QED
    BY <2>3
<1>2. ASSUME NEW list \in Seq(S), NEW item \in S, list \in P
      PROVE  Append(list, item) \in P
  <2>1. ToSet(Append(list, item)) = ToSet(list) \cup {item}
    BY AppendItems
  <2>2. IsFiniteSet(ToSet(list) \cup {item})
    BY <1>2, FS_AddElement
  <2>3. IsFiniteSet(ToSet(Append(list, item)))
    BY <2>1, <2>2
  <2>. QED
    BY <2>3
<1>. HIDE DEF P
<1>3. \A list \in Seq(S) : list \in P
  BY <1>1, <1>2, ListInduction
<1>. QED
  BY <1>3 DEF P

\* One element more.
LEMMA OneMore ==
  ASSUME NEW S, IsFiniteSet(S), NEW x, x \notin S
  PROVE  /\ IsFiniteSet(S \cup {x}) /\ Cardinality(S) \in Nat
         /\ Cardinality(S \cup {x}) = Cardinality(S) + 1
BY FS_AddElement, FS_CardinalityType

\* One element for another.
LEMMA Exchanged ==
  ASSUME NEW S, IsFiniteSet(S), NEW w \in S, NEW x, x \notin S
  PROVE  /\ IsFiniteSet((S \ {w}) \cup {x}) /\ Cardinality(S) \in Nat
         /\ Cardinality((S \ {w}) \cup {x}) = Cardinality(S)
<1>1. PICK rest : rest = S \ {w}
  OBVIOUS
<1>2. IsFiniteSet(rest) /\ Cardinality(rest) = Cardinality(S) - 1
  BY <1>1, FS_RemoveElement
<1>3. x \notin rest
  BY <1>1
<1>4. /\ IsFiniteSet(rest \cup {x}) /\ Cardinality(rest) \in Nat
      /\ Cardinality(rest \cup {x}) = Cardinality(rest) + 1
  BY <1>2, <1>3, OneMore
<1>5. Cardinality(S) \in Nat
  BY FS_CardinalityType
<1>. QED
  BY <1>1, <1>2, <1>4, <1>5

\* Induction from the end of a list to its beginning, for a property given as
\* the set of the positions that have it.
LEMMA Backwards ==
  ASSUME NEW n \in Nat, NEW P, n + 1 \in P, \A i \in 1..n : i + 1 \in P => i \in P
  PROVE  \A i \in 1..(n + 1) : i \in P
<1>. DEFINE Q == {k \in Nat : k <= n => n + 1 - k \in P}
<1>1. Q \in SUBSET Nat /\ 0 \in Q
  OBVIOUS
<1>2. ASSUME NEW k \in Q PROVE k + 1 \in Q
  <2>1. CASE k + 1 <= n
    <3>1. n - k \in 1..n /\ n - k + 1 \in P
      BY <1>2, <2>1
    <3>2. n - k \in P
      BY <3>1
    <3>. QED
      BY <1>2, <2>1, <3>2
  <2>2. CASE ~(k + 1 <= n)
    BY <1>2, <2>2
  <2>. QED
    BY <2>1, <2>2
<1>. HIDE DEF Q
<1>3. \A k \in Nat : k \in Q
  BY <1>1, <1>2, Induction
<1>4. ASSUME NEW i \in 1..(n + 1) PROVE i \in P
  <2>1. CASE i = n + 1
    BY <2>1
  <2>2. CASE i # n + 1
    <3>1. n + 1 - i \in Nat /\ n + 1 - i <= n /\ n + 1 - (n + 1 - i) = i
      BY <2>2
    <3>2. n + 1 - i \in Q
      BY <1>3, <3>1
    <3>. QED
      BY <3>1, <3>2 DEF Q
  <2>. QED
    BY <2>1, <2>2
<1>. QED
  BY <1>4

-----------------------------------------------------------------------------
(***************************************************************************)
(* The fewest misses.                                                      *)
(***************************************************************************)

\* The misses of the best continuation from position i with cached, given
\* those from the next position.
BestMisses(best, trace, size, i, cached) ==
  IF i > Len(trace) THEN 0
  ELSE IF trace[i] \in cached THEN best[i + 1][cached]
  ELSE LET kept == IF Cardinality(cached) < size THEN {cached}
                   ELSE {cached \ {victim} : victim \in cached}
       IN 1 + Min({best[i + 1][rest \cup {trace[i]}] : rest \in kept})

\* best is right at position i.
RightAt(best, trace, size, i) ==
  best[i] = [cached \in SUBSET ToSet(trace) |->
               BestMisses(best, trace, size, i, cached)]

IsBest(best, trace, size) ==
  best = [i \in 1..(Len(trace) + 1) |-> [cached \in SUBSET ToSet(trace) |->
            BestMisses(best, trace, size, i, cached)]]

\* A position depends on the next one only.
LEMMA DependsOnNext ==
  ASSUME NEW f, NEW g, NEW trace, NEW size, NEW i, f[i + 1] = g[i + 1]
  PROVE  \A cached : BestMisses(f, trace, size, i, cached)
                       = BestMisses(g, trace, size, i, cached)
BY DEF BestMisses

\* The definition of the fewest misses, which goes from the end of the sequence
\* to its beginning, defines a function.
LEMMA BestExists ==
  ASSUME NEW trace, NEW size, Len(trace) \in Nat
  PROVE  \E best : IsBest(best, trace, size)
<1>1. PICK n \in Nat : n = Len(trace)
  OBVIOUS
<1>. DEFINE Right(f, i) == RightAt(f, trace, size, i)
            IsPart(f, i) == /\ f = [j \in 1..(n + 1) |-> f[j]]
                            /\ \A j \in i..(n + 1) : Right(f, j)
            P == {i \in 1..(n + 1) : \E f : IsPart(f, i)}
            Made(f, i) == [cached \in SUBSET ToSet(trace) |->
                             BestMisses(f, trace, size, i, cached)]
<1>2. ASSUME NEW f, NEW i \in 1..(n + 1), f = [j \in 1..(n + 1) |-> f[j]],
             \A j \in (i + 1)..(n + 1) : Right(f, j)
      PROVE  \E g : IsPart(g, i)
  <2>1. PICK g : g = [j \in 1..(n + 1) |-> IF j = i THEN Made(f, i) ELSE f[j]]
    OBVIOUS
  <2>2. g = [j \in 1..(n + 1) |-> g[j]]
    BY <2>1
  <2>3. ASSUME NEW j \in i..(n + 1) PROVE g[j] = Made(f, j)
    <3>1. CASE j = i
      BY <2>1, <3>1
    <3>2. CASE j # i
      <4>1. j \in (i + 1)..(n + 1) /\ g[j] = f[j]
        BY <2>1, <2>3, <3>2
      <4>. QED
        BY <1>2, <4>1 DEF RightAt
    <3>. QED
      BY <3>1, <3>2
  <2>4. ASSUME NEW j \in i..(n + 1) PROVE Right(g, j)
    <3>. g[j] = Made(f, j)
      BY <2>3
    <3>1. CASE j = n + 1
      <4>1. \A h : \A cached : BestMisses(h, trace, size, j, cached) = 0
        BY <1>1, <3>1 DEF BestMisses
      <4>2. Made(f, j) = [cached \in SUBSET ToSet(trace) |-> 0]
        BY <4>1
      <4>3. g[j] = [cached \in SUBSET ToSet(trace) |-> 0]
        BY <4>2
      <4>. QED
        BY <4>1, <4>3 DEF RightAt
    <3>2. CASE j # n + 1
      <4>1. g[j + 1] = f[j + 1]
        BY <2>1, <2>4, <3>2
      <4>2. \A cached : BestMisses(g, trace, size, j, cached)
                          = BestMisses(f, trace, size, j, cached)
        BY <4>1, DependsOnNext
      <4>3. Made(g, j) = Made(f, j)
        BY <4>2
      <4>. QED
        BY <4>3 DEF RightAt
    <3>. QED
      BY <3>1, <3>2
  <2>. QED
    BY <2>2, <2>4
<1>3. n + 1 \in P
  <2>1. PICK f : f = [j \in 1..(n + 1) |-> {}]
    OBVIOUS
  <2>2. f = [j \in 1..(n + 1) |-> f[j]]
    BY <2>1
  <2>3. \E g : IsPart(g, n + 1)
    BY <1>2, <2>2
  <2>. QED
    BY <2>3
<1>4. ASSUME NEW i \in 1..n, i + 1 \in P PROVE i \in P
  <2>1. PICK f : IsPart(f, i + 1)
    BY <1>4
  <2>2. \E g : IsPart(g, i)
    BY <1>2, <2>1
  <2>. QED
    BY <2>2
<1>. HIDE DEF P
<1>5. \A i \in 1..(n + 1) : i \in P
  BY <1>3, <1>4, Backwards
<1>6. PICK f : IsPart(f, 1)
  <2>1. 1 \in P
    BY <1>5
  <2>. QED
    BY <2>1 DEF P
<1>7. f = [i \in 1..(n + 1) |-> Made(f, i)]
  <2>1. \A i \in 1..(n + 1) : f[i] = Made(f, i)
    BY <1>6 DEF RightAt
  <2>. QED
    BY <1>6, <2>1
<1>. QED
  BY <1>1, <1>7 DEF IsBest

\* What the definition says.
LEMMA BestAt ==
  ASSUME NEW trace, NEW size, Len(trace) \in Nat
  PROVE  \A i \in 1..(Len(trace) + 1) : \A cached \in SUBSET ToSet(trace) :
           MinMissesFrom(trace, size)[i][cached]
             = BestMisses(MinMissesFrom(trace, size), trace, size, i, cached)
<1>1. IsBest(MinMissesFrom(trace, size), trace, size)
  <2>1. \E best : IsBest(best, trace, size)
    BY BestExists
  <2>. QED
    BY <2>1 DEF MinMissesFrom, IsBest, BestMisses
<1>2. PICK best : best = MinMissesFrom(trace, size)
  OBVIOUS
<1>3. IsBest(best, trace, size)
  BY <1>1, <1>2
<1>4. \A i \in 1..(Len(trace) + 1) : \A cached \in SUBSET ToSet(trace) :
           best[i][cached] = BestMisses(best, trace, size, i, cached)
  BY <1>3 DEF IsBest
<1>. QED
  BY <1>2, <1>4

-----------------------------------------------------------------------------
(***************************************************************************)
(* What the fewest misses are, position by position.                       *)
(***************************************************************************)

\* The sequence and the cache size for which best is the table of the fewest
\* misses.
IsTable(best, trace, size) ==
  /\ trace \in Seq(ToSet(trace))
  /\ size \in Nat \ {0}
  /\ best = MinMissesFrom(trace, size)

\* Caches of pages of the sequence are finite.
LEMMA TableFacts ==
  ASSUME NEW best, NEW trace, NEW size, IsTable(best, trace, size)
  PROVE  /\ Len(trace) \in Nat
         /\ size \in Nat /\ size >= 1
         /\ \A i \in 1..Len(trace) : trace[i] \in ToSet(trace)
         /\ \A cached \in SUBSET ToSet(trace) :
              IsFiniteSet(cached) /\ Cardinality(cached) \in Nat
         /\ \A i \in 1..(Len(trace) + 1) : \A cached \in SUBSET ToSet(trace) :
              best[i][cached] = BestMisses(best, trace, size, i, cached)
<1>1. Len(trace) \in Nat
  BY DEF IsTable
<1>2. IsFiniteSet(ToSet(trace))
  BY ItemsFinite DEF IsTable
<1>3. \A cached \in SUBSET ToSet(trace) :
         IsFiniteSet(cached) /\ Cardinality(cached) \in Nat
  BY <1>2, FS_Subset, FS_CardinalityType
<1>4. \A i \in 1..(Len(trace) + 1) : \A cached \in SUBSET ToSet(trace) :
         best[i][cached] = BestMisses(best, trace, size, i, cached)
  BY <1>1, BestAt DEF IsTable
<1>5. \A i \in 1..Len(trace) : trace[i] \in ToSet(trace)
  BY DEF IsTable
<1>. QED
  BY <1>1, <1>3, <1>4, <1>5 DEF IsTable

\* What is left of a cache when it makes room.
Kept(cached, size) ==
  IF Cardinality(cached) < size THEN {cached} ELSE {cached \ {victim} : victim \in cached}

\* There is always a way to make room, and it needs no page from elsewhere.
LEMMA KeptFacts ==
  ASSUME NEW best, NEW trace, NEW size, IsTable(best, trace, size),
         NEW cached \in SUBSET ToSet(trace), NEW key \in ToSet(trace)
  PROVE  /\ Kept(cached, size) # {}
         /\ \A rest \in Kept(cached, size) :
              rest \cup {key} \in SUBSET ToSet(trace)
<1>1. Cardinality(cached) \in Nat /\ IsFiniteSet(cached) /\ size \in Nat /\ size >= 1
  BY TableFacts
<1>2. CASE Cardinality(cached) < size
  BY <1>2 DEF Kept
<1>3. CASE ~(Cardinality(cached) < size)
  <2>1. cached # {}
    <3>1. CASE cached = {}
      <4>1. Cardinality(cached) = 0
        BY <3>1, FS_EmptySet
      <4>. QED
        BY <1>1, <1>3, <4>1
    <3>. QED
      BY <3>1
  <2>2. Kept(cached, size) = {cached \ {victim} : victim \in cached}
    BY <1>3 DEF Kept
  <2>. QED
    BY <2>1, <2>2
<1>. QED
  BY <1>2, <1>3

\* The table's entries are numbers.
LEMMA BestIsNat ==
  ASSUME NEW best, NEW trace, NEW size, IsTable(best, trace, size)
  PROVE  \A i \in 1..(Len(trace) + 1) : \A cached \in SUBSET ToSet(trace) :
           best[i][cached] \in Nat
<1>1. PICK n \in Nat : n = Len(trace)
  BY TableFacts
<1>2. PICK pages : pages = ToSet(trace)
  OBVIOUS
<1>. DEFINE P == {i \in 1..(n + 1) : \A cached \in SUBSET pages : best[i][cached] \in Nat}
<1>3. n + 1 \in P
  <2>1. ASSUME NEW cached \in SUBSET pages PROVE best[n + 1][cached] = 0
    <3>1. best[n + 1][cached] = BestMisses(best, trace, size, n + 1, cached)
      BY <1>1, <1>2, <2>1, TableFacts
    <3>2. n + 1 > Len(trace)
      BY <1>1
    <3>. QED
      BY <3>1, <3>2 DEF BestMisses
  <2>. QED
    BY <2>1
<1>4. ASSUME NEW i \in 1..n, i + 1 \in P PROVE i \in P
  <2>1. ASSUME NEW cached \in SUBSET pages PROVE best[i][cached] \in Nat
    <3>1. /\ best[i][cached] = BestMisses(best, trace, size, i, cached)
          /\ trace[i] \in pages /\ ~(i > n)
      BY <1>1, <1>2, <2>1, TableFacts
    <3>2. CASE trace[i] \in cached
      <4>1. best[i][cached] = best[i + 1][cached]
        BY <1>1, <3>1, <3>2 DEF BestMisses
      <4>. QED
        BY <1>4, <2>1, <4>1
    <3>3. CASE trace[i] \notin cached
      <4>. DEFINE rests == {best[i + 1][rest \cup {trace[i]}] : rest \in Kept(cached, size)}
      <4>1. best[i][cached] = 1 + Min(rests)
        BY <1>1, <3>1, <3>3 DEF BestMisses, Kept
      <4>2. /\ Kept(cached, size) # {}
            /\ \A rest \in Kept(cached, size) : rest \cup {trace[i]} \in SUBSET pages
        BY <1>2, <2>1, <3>1, KeptFacts
      <4>3. rests # {} /\ rests \in SUBSET Nat
        BY <1>4, <4>2
      <4>4. Min(rests) \in Nat
        BY <4>3, Smallest
      <4>. QED
        BY <4>1, <4>4
    <3>. QED
      BY <3>2, <3>3
  <2>. QED
    BY <2>1
<1>. HIDE DEF P
<1>5. \A i \in 1..(n + 1) : i \in P
  BY <1>3, <1>4, Backwards
<1>. QED
  BY <1>1, <1>2, <1>5 DEF P

\* At the end nothing more is missed.
LEMMA BestAtEnd ==
  ASSUME NEW best, NEW trace, NEW size, IsTable(best, trace, size),
         NEW cached \in SUBSET ToSet(trace)
  PROVE  best[Len(trace) + 1][cached] = 0
<1>1. PICK n \in Nat : n = Len(trace)
  BY TableFacts
<1>2. best[n + 1][cached] = BestMisses(best, trace, size, n + 1, cached)
  BY <1>1, TableFacts
<1>3. n + 1 > Len(trace)
  BY <1>1
<1>. QED
  BY <1>1, <1>2, <1>3 DEF BestMisses

\* A hit costs nothing.
LEMMA BestHit ==
  ASSUME NEW best, NEW trace, NEW size, IsTable(best, trace, size),
         NEW i \in 1..Len(trace), NEW cached \in SUBSET ToSet(trace),
         trace[i] \in cached
  PROVE  best[i][cached] = best[i + 1][cached]
<1>1. /\ best[i][cached] = BestMisses(best, trace, size, i, cached)
      /\ ~(i > Len(trace))
  BY TableFacts
<1>. QED
  BY <1>1 DEF BestMisses

\* A miss costs one, and what the best way to make room costs afterwards.
MissCosts(best, trace, size, i, cached) ==
  \E least \in Kept(cached, size) :
    /\ best[i][cached] = 1 + best[i + 1][least \cup {trace[i]}]
    /\ \A rest \in Kept(cached, size) :
         best[i][cached] <= 1 + best[i + 1][rest \cup {trace[i]}]

\* What the table says of a miss.
LEMMA BestMiss ==
  ASSUME NEW best, NEW trace, NEW size, IsTable(best, trace, size),
         NEW i \in 1..Len(trace), NEW cached \in SUBSET ToSet(trace),
         trace[i] \notin cached
  PROVE  MissCosts(best, trace, size, i, cached)
<1>. DEFINE rests == {best[i + 1][rest \cup {trace[i]}] : rest \in Kept(cached, size)}
<1>1. /\ best[i][cached] = BestMisses(best, trace, size, i, cached)
      /\ trace[i] \in ToSet(trace) /\ ~(i > Len(trace))
      /\ i + 1 \in 1..(Len(trace) + 1)
  BY TableFacts
<1>2. best[i][cached] = 1 + Min(rests)
  BY <1>1 DEF BestMisses, Kept
<1>3. /\ Kept(cached, size) # {}
      /\ \A rest \in Kept(cached, size) : rest \cup {trace[i]} \in SUBSET ToSet(trace)
  BY <1>1, KeptFacts
<1>4. rests # {} /\ rests \in SUBSET Nat
  <2>1. \A rest \in Kept(cached, size) : best[i + 1][rest \cup {trace[i]}] \in Nat
    BY <1>1, <1>3, BestIsNat
  <2>. QED
    BY <1>3, <2>1
<1>5. Min(rests) \in rests /\ \A m \in rests : Min(rests) <= m
  BY <1>4, Smallest
<1>6. ASSUME NEW rest \in Kept(cached, size)
      PROVE  best[i][cached] <= 1 + best[i + 1][rest \cup {trace[i]}]
  <2>1. best[i + 1][rest \cup {trace[i]}] \in rests
    OBVIOUS
  <2>2. Min(rests) \in Nat /\ best[i + 1][rest \cup {trace[i]}] \in Nat
    BY <1>4, <1>5, <2>1
  <2>3. Min(rests) <= best[i + 1][rest \cup {trace[i]}]
    BY <1>5, <2>1
  <2>. QED
    BY <1>2, <2>2, <2>3
<1>7. \E rest \in Kept(cached, size) :
         best[i][cached] = 1 + best[i + 1][rest \cup {trace[i]}]
  BY <1>2, <1>5
<1>. QED
  BY <1>6, <1>7 DEF MissCosts

\* With room to spare there is one way.
LEMMA BestRoom ==
  ASSUME NEW best, NEW trace, NEW size, IsTable(best, trace, size),
         NEW i \in 1..Len(trace), NEW cached \in SUBSET ToSet(trace),
         trace[i] \notin cached, Cardinality(cached) < size
  PROVE  best[i][cached] = 1 + best[i + 1][cached \cup {trace[i]}]
<1>1. Kept(cached, size) = {cached}
  BY DEF Kept
<1>2. MissCosts(best, trace, size, i, cached)
  BY BestMiss
<1>. QED
  BY <1>1, <1>2 DEF MissCosts

\* A full cache may give up any page.
LEMMA BestFullAtMost ==
  ASSUME NEW best, NEW trace, NEW size, IsTable(best, trace, size),
         NEW i \in 1..Len(trace), NEW cached \in SUBSET ToSet(trace),
         trace[i] \notin cached, Cardinality(cached) = size, NEW w \in cached
  PROVE  best[i][cached] <= 1 + best[i + 1][(cached \ {w}) \cup {trace[i]}]
<1>1. Kept(cached, size) = {cached \ {v} : v \in cached}
  BY TableFacts DEF Kept
<1>2. MissCosts(best, trace, size, i, cached)
  BY BestMiss
<1>. QED
  BY <1>1, <1>2 DEF MissCosts

\* The best continuation gives up one of the pages.
GivesUpOne(best, trace, i, cached) ==
  \E w \in cached : best[i][cached] = 1 + best[i + 1][(cached \ {w}) \cup {trace[i]}]

\* A full cache gives up one page.
LEMMA BestFull ==
  ASSUME NEW best, NEW trace, NEW size, IsTable(best, trace, size),
         NEW i \in 1..Len(trace), NEW cached \in SUBSET ToSet(trace),
         trace[i] \notin cached, Cardinality(cached) = size
  PROVE  GivesUpOne(best, trace, i, cached)
<1>1. Kept(cached, size) = {cached \ {v} : v \in cached}
  BY TableFacts DEF Kept
<1>2. MissCosts(best, trace, size, i, cached)
  BY BestMiss
<1>. QED
  BY <1>1, <1>2 DEF MissCosts, GivesUpOne

-----------------------------------------------------------------------------
(***************************************************************************)
(* Belady's argument.                                                      *)
(***************************************************************************)

\* Two full caches that differ in one page are never more than one miss apart.
OneApart(best, trace, size, i) ==
  \A E \in SUBSET ToSet(trace) : \A a, b \in ToSet(trace) \ E :
    Cardinality(E) + 1 = size => best[i][E \cup {a}] <= 1 + best[i][E \cup {b}]

\* The sets of an exchange.
LEMMA OneApartStep ==
  ASSUME NEW best, NEW trace, NEW size, IsTable(best, trace, size),
         NEW i \in 1..Len(trace), OneApart(best, trace, size, i + 1)
  PROVE  OneApart(best, trace, size, i)
<1>. SUFFICES ASSUME NEW E \in SUBSET ToSet(trace),
                     NEW a \in ToSet(trace) \ E, NEW b \in ToSet(trace) \ E,
                     Cardinality(E) + 1 = size
              PROVE  best[i][E \cup {a}] <= 1 + best[i][E \cup {b}]
  BY DEF OneApart
<1>1. PICK x \in ToSet(trace) : x = trace[i]
  BY TableFacts
<1>2. /\ IsFiniteSet(E) /\ Cardinality(E) \in Nat
      /\ i + 1 \in 1..(Len(trace) + 1) /\ i \in 1..(Len(trace) + 1)
  BY TableFacts
<1>3. ASSUME NEW F \in SUBSET ToSet(trace), IsFiniteSet(F), Cardinality(F) + 1 = size,
             NEW y \in ToSet(trace) \ F
      PROVE  /\ F \cup {y} \in SUBSET ToSet(trace)
             /\ Cardinality(F \cup {y}) = size
             /\ best[i][F \cup {y}] \in Nat /\ best[i + 1][F \cup {y}] \in Nat
  <2>1. F \cup {y} \in SUBSET ToSet(trace)
    OBVIOUS
  <2>2. Cardinality(F \cup {y}) = Cardinality(F) + 1
    BY <1>3, OneMore
  <2>. QED
    BY <1>2, <1>3, <2>1, <2>2, BestIsNat
<1>4. ASSUME NEW F \in SUBSET ToSet(trace), IsFiniteSet(F), Cardinality(F) + 1 = size,
             NEW y \in ToSet(trace) \ F, NEW z \in ToSet(trace) \ F
      PROVE  best[i + 1][F \cup {y}] <= 1 + best[i + 1][F \cup {z}]
  BY <1>4 DEF OneApart
<1>5. ASSUME NEW w \in E, NEW y \in ToSet(trace) \ E
      PROVE  /\ (E \ {w}) \cup {y} \in SUBSET ToSet(trace)
             /\ IsFiniteSet((E \ {w}) \cup {y})
             /\ Cardinality((E \ {w}) \cup {y}) + 1 = size
  <2>1. /\ IsFiniteSet((E \ {w}) \cup {y})
        /\ Cardinality((E \ {w}) \cup {y}) = Cardinality(E)
    BY <1>2, Exchanged
  <2>. QED
    BY <2>1
<1>6. PICK D : D = E \cup {a}
  OBVIOUS
<1>7. PICK G : G = E \cup {b}
  OBVIOUS
<1>8. /\ D \in SUBSET ToSet(trace) /\ Cardinality(D) = size
      /\ best[i][D] \in Nat /\ best[i + 1][D] \in Nat
      /\ G \in SUBSET ToSet(trace) /\ Cardinality(G) = size
      /\ best[i][G] \in Nat /\ best[i + 1][G] \in Nat
  BY <1>2, <1>3, <1>6, <1>7
<1>. SUFFICES best[i][D] <= 1 + best[i][G]
  BY <1>6, <1>7
<1>9. CASE a = b
  BY <1>6, <1>7, <1>8, <1>9
<1>10. CASE x \in E
  <2>0. trace[i] \in D /\ trace[i] \in G
    BY <1>1, <1>6, <1>7, <1>10
  <2>1. best[i][D] = best[i + 1][D] /\ best[i][G] = best[i + 1][G]
    BY <1>8, <2>0, BestHit
  <2>2. best[i + 1][D] <= 1 + best[i + 1][G]
    BY <1>2, <1>4, <1>6, <1>7
  <2>. QED
    BY <1>6, <1>7, <2>1, <2>2
<1>11. CASE x = a /\ a # b
  <2>0. trace[i] \in D
    BY <1>1, <1>6, <1>11
  <2>1. best[i][D] = best[i + 1][D]
    BY <1>8, <2>0, BestHit
  <2>2. trace[i] \notin G
    BY <1>1, <1>7, <1>11
  <2>3. PICK w \in G : best[i][G] = 1 + best[i + 1][(G \ {w}) \cup {x}]
    <3>1. GivesUpOne(best, trace, i, G)
      BY <1>8, <2>2, BestFull
    <3>. QED
      BY <1>1, <3>1 DEF GivesUpOne
  <2>4. CASE w = b
    <3>1. (G \ {w}) \cup {x} = D
      BY <1>6, <1>7, <1>11, <2>4
    <3>2. best[i][G] = 1 + best[i + 1][D]
      BY <2>3, <3>1
    <3>. QED
      BY <1>8, <2>1, <3>2
  <2>5. CASE w \in E
    <3>1. PICK F : F = (E \ {w}) \cup {a}
      OBVIOUS
    <3>2. F \in SUBSET ToSet(trace) /\ IsFiniteSet(F) /\ Cardinality(F) + 1 = size
      BY <1>5, <2>5, <3>1
    <3>3. w \in ToSet(trace) \ F /\ b \in ToSet(trace) \ F
      BY <1>11, <2>5, <3>1
    <3>4. F \cup {w} = D /\ F \cup {b} = (G \ {w}) \cup {x}
      BY <1>6, <1>7, <1>11, <2>5, <3>1
    <3>5. best[i + 1][F \cup {w}] <= 1 + best[i + 1][F \cup {b}]
      BY <1>4, <3>2, <3>3
    <3>6. best[i + 1][D] <= best[i][G]
      BY <2>3, <3>4, <3>5
    <3>. QED
      BY <1>6, <1>7, <1>8, <2>1, <3>6
  <2>. QED
    BY <1>7, <2>4, <2>5
<1>12. CASE x = b /\ a # b
  <2>0. trace[i] \in G
    BY <1>1, <1>7, <1>12
  <2>1. best[i][G] = best[i + 1][G]
    BY <1>8, <2>0, BestHit
  <2>2. trace[i] \notin D /\ a \in D
    BY <1>1, <1>6, <1>12
  <2>3. best[i][D] <= 1 + best[i + 1][(D \ {a}) \cup {x}]
    BY <1>1, <1>8, <2>2, BestFullAtMost
  <2>4. (D \ {a}) \cup {x} = G
    BY <1>6, <1>7, <1>12
  <2>. QED
    BY <1>6, <1>7, <2>1, <2>3, <2>4
<1>13. CASE x \notin E /\ x # a /\ x # b /\ a # b
  <2>1. trace[i] \notin D /\ trace[i] \notin G
    BY <1>1, <1>6, <1>7, <1>13
  <2>2. PICK w \in G : best[i][G] = 1 + best[i + 1][(G \ {w}) \cup {x}]
    <3>1. GivesUpOne(best, trace, i, G)
      BY <1>8, <2>1, BestFull
    <3>. QED
      BY <1>1, <3>1 DEF GivesUpOne
  <2>3. \A v \in D : best[i][D] <= 1 + best[i + 1][(D \ {v}) \cup {x}]
    BY <1>1, <1>8, <2>1, BestFullAtMost
  <2>4. CASE w = b
    <3>1. (G \ {w}) \cup {x} = (D \ {a}) \cup {x} /\ a \in D
      BY <1>6, <1>7, <2>4
    <3>2. best[i][D] <= best[i][G]
      BY <2>2, <2>3, <3>1
    <3>. QED
      BY <1>6, <1>7, <1>8, <3>2
  <2>5. CASE w \in E
    <3>1. PICK F : F = (E \ {w}) \cup {x}
      OBVIOUS
    <3>2. F \in SUBSET ToSet(trace) /\ IsFiniteSet(F) /\ Cardinality(F) + 1 = size
      BY <1>1, <1>5, <1>13, <2>5, <3>1
    <3>3. a \in ToSet(trace) \ F /\ b \in ToSet(trace) \ F
      BY <1>13, <2>5, <3>1
    <3>4. F \cup {a} = (D \ {w}) \cup {x} /\ F \cup {b} = (G \ {w}) \cup {x} /\ w \in D
      BY <1>6, <1>7, <2>5, <3>1
    <3>5. best[i + 1][F \cup {a}] <= 1 + best[i + 1][F \cup {b}]
      BY <1>4, <3>2, <3>3
    <3>6. best[i][D] <= 1 + best[i + 1][F \cup {a}]
      BY <2>3, <3>4
    <3>7. best[i + 1][F \cup {a}] \in Nat /\ best[i + 1][F \cup {b}] \in Nat
      BY <1>3, <3>2, <3>3
    <3>8. best[i][G] = 1 + best[i + 1][F \cup {b}]
      BY <2>2, <3>4
    <3>. QED
      BY <1>6, <1>7, <1>8, <3>5, <3>6, <3>7, <3>8
  <2>. QED
    BY <1>7, <2>4, <2>5
<1>. QED
  BY <1>9, <1>10, <1>11, <1>12, <1>13

\* At the end nothing is missed any more.
LEMMA OneApartEverywhere ==
  ASSUME NEW best, NEW trace, NEW size, IsTable(best, trace, size)
  PROVE  \A i \in 1..(Len(trace) + 1) : OneApart(best, trace, size, i)
<1>1. PICK n \in Nat : n = Len(trace)
  BY TableFacts
<1>. DEFINE P == {i \in 1..(n + 1) : OneApart(best, trace, size, i)}
<1>2. OneApart(best, trace, size, n + 1)
  <2>1. ASSUME NEW E \in SUBSET ToSet(trace), NEW a \in ToSet(trace) \ E
        PROVE  best[n + 1][E \cup {a}] = 0
    <3>1. E \cup {a} \in SUBSET ToSet(trace)
      OBVIOUS
    <3>. QED
      BY <1>1, <3>1, BestAtEnd
  <2>2. ASSUME NEW E \in SUBSET ToSet(trace),
               NEW a \in ToSet(trace) \ E, NEW b \in ToSet(trace) \ E
        PROVE  best[n + 1][E \cup {a}] <= 1 + best[n + 1][E \cup {b}]
    <3>1. best[n + 1][E \cup {a}] = 0 /\ best[n + 1][E \cup {b}] = 0
      BY <2>1
    <3>. QED
      BY <3>1
  <2>. QED
    BY <2>2 DEF OneApart
<1>3. n + 1 \in P /\ \A i \in 1..n : i + 1 \in P => i \in P
  BY <1>1, <1>2, OneApartStep
<1>. HIDE DEF P
<1>4. \A i \in 1..(n + 1) : i \in P
  BY <1>3, Backwards
<1>. QED
  BY <1>1, <1>4 DEF P

\* Where a page is requested next: here, or where it is from the next position
\* on.
LEMMA NextRequestAt ==
  ASSUME NEW trace, Len(trace) \in Nat, NEW key
  PROVE  /\ \A i \in 1..(Len(trace) + 1) :
              NextRequest(trace, i, key) \in i..(Len(trace) + 1)
         /\ \A i \in 1..Len(trace) :
              /\ trace[i] = key => NextRequest(trace, i, key) = i
              /\ trace[i] # key =>
                   NextRequest(trace, i, key) = NextRequest(trace, i + 1, key)
<1>1. PICK n \in Nat : n = Len(trace)
  OBVIOUS
<1>. DEFINE Times(k) == {later \in k..n : trace[later] = key} \cup {n + 1}
<1>2. ASSUME NEW k \in 1..(n + 1)
      PROVE  /\ NextRequest(trace, k, key) = Min(Times(k))
             /\ Min(Times(k)) \in Times(k)
             /\ \A m \in Times(k) : Min(Times(k)) <= m
  <2>1. Times(k) \in SUBSET Nat /\ Times(k) # {}
    BY <1>2
  <2>2. Min(Times(k)) \in Times(k) /\ \A m \in Times(k) : Min(Times(k)) <= m
    BY <2>1, Smallest
  <2>. QED
    BY <1>1, <2>2 DEF NextRequest
<1>3. ASSUME NEW i \in 1..(n + 1) PROVE NextRequest(trace, i, key) \in i..(n + 1)
  <2>1. NextRequest(trace, i, key) \in Times(i)
    BY <1>2, <1>3
  <2>. QED
    BY <1>3, <2>1
<1>4. ASSUME NEW i \in 1..n, trace[i] = key PROVE NextRequest(trace, i, key) = i
  <2>1. i \in Times(i) /\ i \in 1..(n + 1)
    BY <1>4
  <2>2. NextRequest(trace, i, key) <= i
    BY <1>2, <2>1
  <2>3. NextRequest(trace, i, key) \in i..(n + 1)
    BY <1>3, <2>1
  <2>. QED
    BY <2>2, <2>3
<1>5. ASSUME NEW i \in 1..n, trace[i] # key
      PROVE  NextRequest(trace, i, key) = NextRequest(trace, i + 1, key)
  <2>1. Times(i) = Times(i + 1)
    BY <1>5
  <2>2. i + 1 \in 1..(n + 1) /\ i \in 1..(n + 1)
    BY <1>5
  <2>3. NextRequest(trace, i, key) = Min(Times(i))
    BY <1>2, <2>2
  <2>4. NextRequest(trace, i + 1, key) = Min(Times(i + 1))
    BY <1>2, <2>2
  <2>. QED
    BY <2>1, <2>3, <2>4
<1>. QED
  BY <1>1, <1>3, <1>4, <1>5

\* Two full caches that differ in one page: the one whose page is requested
\* sooner misses no more often.
SoonerIsBetter(best, trace, size, i) ==
  \A E \in SUBSET ToSet(trace) : \A a, b \in ToSet(trace) \ E :
    Cardinality(E) + 1 = size /\ NextRequest(trace, i, a) <= NextRequest(trace, i, b)
      => best[i][E \cup {a}] <= best[i][E \cup {b}]

\* Serving one request keeps the better cache better: when it hits and the other
\* misses, the other may catch up by one miss and no more.
LEMMA SoonerStep ==
  ASSUME NEW best, NEW trace, NEW size, IsTable(best, trace, size),
         NEW i \in 1..Len(trace), SoonerIsBetter(best, trace, size, i + 1)
  PROVE  SoonerIsBetter(best, trace, size, i)
<1>. SUFFICES ASSUME NEW E \in SUBSET ToSet(trace),
                     NEW a \in ToSet(trace) \ E, NEW b \in ToSet(trace) \ E,
                     Cardinality(E) + 1 = size,
                     NextRequest(trace, i, a) <= NextRequest(trace, i, b)
              PROVE  best[i][E \cup {a}] <= best[i][E \cup {b}]
  BY DEF SoonerIsBetter
<1>1. PICK x \in ToSet(trace) : x = trace[i]
  BY TableFacts
<1>2. /\ IsFiniteSet(E) /\ Cardinality(E) \in Nat /\ Len(trace) \in Nat
      /\ i + 1 \in 1..(Len(trace) + 1) /\ i \in 1..(Len(trace) + 1)
  BY TableFacts
<1>3. ASSUME NEW F \in SUBSET ToSet(trace), IsFiniteSet(F), Cardinality(F) + 1 = size,
             NEW y \in ToSet(trace) \ F
      PROVE  /\ F \cup {y} \in SUBSET ToSet(trace)
             /\ Cardinality(F \cup {y}) = size
             /\ best[i][F \cup {y}] \in Nat /\ best[i + 1][F \cup {y}] \in Nat
  <2>1. F \cup {y} \in SUBSET ToSet(trace)
    OBVIOUS
  <2>2. Cardinality(F \cup {y}) = Cardinality(F) + 1
    BY <1>3, OneMore
  <2>. QED
    BY <1>2, <1>3, <2>1, <2>2, BestIsNat
<1>4. ASSUME NEW F \in SUBSET ToSet(trace), IsFiniteSet(F), Cardinality(F) + 1 = size,
             NEW y \in ToSet(trace) \ F, NEW z \in ToSet(trace) \ F
      PROVE  /\ best[i + 1][F \cup {y}] <= 1 + best[i + 1][F \cup {z}]
             /\ NextRequest(trace, i + 1, y) <= NextRequest(trace, i + 1, z)
                  => best[i + 1][F \cup {y}] <= best[i + 1][F \cup {z}]
  <2>1. OneApart(best, trace, size, i + 1)
    BY <1>2, OneApartEverywhere
  <2>. QED
    BY <1>4, <2>1 DEF OneApart, SoonerIsBetter
<1>5. ASSUME NEW w \in E, NEW y \in ToSet(trace) \ E
      PROVE  /\ (E \ {w}) \cup {y} \in SUBSET ToSet(trace)
             /\ IsFiniteSet((E \ {w}) \cup {y})
             /\ Cardinality((E \ {w}) \cup {y}) + 1 = size
  <2>1. /\ IsFiniteSet((E \ {w}) \cup {y})
        /\ Cardinality((E \ {w}) \cup {y}) = Cardinality(E)
    BY <1>2, Exchanged
  <2>. QED
    BY <2>1
<1>6. PICK D : D = E \cup {a}
  OBVIOUS
<1>7. PICK G : G = E \cup {b}
  OBVIOUS
<1>8. /\ D \in SUBSET ToSet(trace) /\ Cardinality(D) = size
      /\ best[i][D] \in Nat /\ best[i + 1][D] \in Nat
      /\ G \in SUBSET ToSet(trace) /\ Cardinality(G) = size
      /\ best[i][G] \in Nat /\ best[i + 1][G] \in Nat
  BY <1>2, <1>3, <1>6, <1>7
<1>. SUFFICES best[i][D] <= best[i][G]
  BY <1>6, <1>7
<1>9. x # a /\ x # b => NextRequest(trace, i + 1, a) <= NextRequest(trace, i + 1, b)
  BY <1>1, <1>2, NextRequestAt
<1>10. x = b => a = b
  <2>1. ASSUME x = b, x # a PROVE FALSE
    <3>1. NextRequest(trace, i, b) = i
      BY <1>1, <1>2, <2>1, NextRequestAt, ZenonT(40)
    <3>2. NextRequest(trace, i, a) = NextRequest(trace, i + 1, a)
      BY <1>1, <1>2, <2>1, NextRequestAt
    <3>3. NextRequest(trace, i + 1, a) \in (i + 1)..(Len(trace) + 1)
      BY <1>2, NextRequestAt
    <3>. QED
      BY <1>2, <3>1, <3>2, <3>3
  <2>. QED
    BY <2>1
<1>11. CASE a = b
  BY <1>6, <1>7, <1>8, <1>11
<1>12. CASE x \in E
  <2>1. trace[i] \in D /\ trace[i] \in G
    BY <1>1, <1>6, <1>7, <1>12
  <2>2. best[i][D] = best[i + 1][D] /\ best[i][G] = best[i + 1][G]
    BY <1>8, <2>1, BestHit
  <2>3. best[i + 1][D] <= best[i + 1][G]
    BY <1>2, <1>4, <1>6, <1>7, <1>9, <1>12
  <2>. QED
    BY <2>2, <2>3
<1>13. CASE x = a /\ a # b
  <2>1. trace[i] \in D
    BY <1>1, <1>6, <1>13
  <2>2. best[i][D] = best[i + 1][D]
    BY <1>8, <2>1, BestHit
  <2>3. trace[i] \notin G
    BY <1>1, <1>7, <1>13
  <2>4. PICK w \in G : best[i][G] = 1 + best[i + 1][(G \ {w}) \cup {x}]
    <3>1. GivesUpOne(best, trace, i, G)
      BY <1>8, <2>3, BestFull
    <3>. QED
      BY <1>1, <3>1 DEF GivesUpOne
  <2>5. CASE w = b
    <3>1. (G \ {w}) \cup {x} = D
      BY <1>6, <1>7, <1>13, <2>5
    <3>2. best[i][G] = 1 + best[i + 1][D]
      BY <2>4, <3>1
    <3>. QED
      BY <1>8, <2>2, <3>2
  <2>6. CASE w \in E
    <3>1. PICK F : F = (E \ {w}) \cup {a}
      OBVIOUS
    <3>2. F \in SUBSET ToSet(trace) /\ IsFiniteSet(F) /\ Cardinality(F) + 1 = size
      BY <1>5, <2>6, <3>1
    <3>3. w \in ToSet(trace) \ F /\ b \in ToSet(trace) \ F
      BY <1>13, <2>6, <3>1
    <3>4. F \cup {w} = D /\ F \cup {b} = (G \ {w}) \cup {x}
      BY <1>6, <1>7, <1>13, <2>6, <3>1
    <3>5. best[i + 1][F \cup {w}] <= 1 + best[i + 1][F \cup {b}]
      BY <1>4, <3>2, <3>3
    <3>6. best[i + 1][D] <= best[i][G]
      BY <2>4, <3>4, <3>5
    <3>. QED
      BY <2>2, <3>6
  <2>. QED
    BY <1>7, <2>5, <2>6
<1>14. CASE x \notin E /\ x # a /\ x # b /\ a # b
  <2>1. trace[i] \notin D /\ trace[i] \notin G
    BY <1>1, <1>6, <1>7, <1>14
  <2>2. PICK w \in G : best[i][G] = 1 + best[i + 1][(G \ {w}) \cup {x}]
    <3>1. GivesUpOne(best, trace, i, G)
      BY <1>8, <2>1, BestFull
    <3>. QED
      BY <1>1, <3>1 DEF GivesUpOne
  <2>3. \A v \in D : best[i][D] <= 1 + best[i + 1][(D \ {v}) \cup {x}]
    BY <1>1, <1>8, <2>1, BestFullAtMost
  <2>4. CASE w = b
    <3>1. (G \ {w}) \cup {x} = (D \ {a}) \cup {x} /\ a \in D
      BY <1>6, <1>7, <2>4
    <3>. QED
      BY <2>2, <2>3, <3>1
  <2>5. CASE w \in E
    <3>1. PICK F : F = (E \ {w}) \cup {x}
      OBVIOUS
    <3>2. F \in SUBSET ToSet(trace) /\ IsFiniteSet(F) /\ Cardinality(F) + 1 = size
      BY <1>1, <1>5, <1>14, <2>5, <3>1
    <3>3. a \in ToSet(trace) \ F /\ b \in ToSet(trace) \ F
      BY <1>14, <2>5, <3>1
    <3>4. F \cup {a} = (D \ {w}) \cup {x} /\ F \cup {b} = (G \ {w}) \cup {x} /\ w \in D
      BY <1>6, <1>7, <2>5, <3>1
    <3>5. best[i + 1][F \cup {a}] <= best[i + 1][F \cup {b}]
      BY <1>4, <1>9, <1>14, <3>2, <3>3
    <3>6. best[i][D] <= 1 + best[i + 1][F \cup {a}]
      BY <2>3, <3>4
    <3>7. best[i + 1][F \cup {a}] \in Nat /\ best[i + 1][F \cup {b}] \in Nat
      BY <1>3, <3>2, <3>3
    <3>8. best[i][G] = 1 + best[i + 1][F \cup {b}]
      BY <2>2, <3>4
    <3>. QED
      BY <1>8, <3>5, <3>6, <3>7, <3>8
  <2>. QED
    BY <1>7, <2>4, <2>5
<1>. QED
  BY <1>10, <1>11, <1>12, <1>13, <1>14

\* At the end nothing is missed any more.
LEMMA SoonerEverywhere ==
  ASSUME NEW best, NEW trace, NEW size, IsTable(best, trace, size)
  PROVE  \A i \in 1..(Len(trace) + 1) : SoonerIsBetter(best, trace, size, i)
<1>1. PICK n \in Nat : n = Len(trace)
  BY TableFacts
<1>. DEFINE P == {i \in 1..(n + 1) : SoonerIsBetter(best, trace, size, i)}
<1>2. SoonerIsBetter(best, trace, size, n + 1)
  <2>1. ASSUME NEW E \in SUBSET ToSet(trace), NEW a \in ToSet(trace) \ E
        PROVE  best[n + 1][E \cup {a}] = 0
    <3>1. E \cup {a} \in SUBSET ToSet(trace)
      OBVIOUS
    <3>. QED
      BY <1>1, <3>1, BestAtEnd
  <2>2. ASSUME NEW E \in SUBSET ToSet(trace),
               NEW a \in ToSet(trace) \ E, NEW b \in ToSet(trace) \ E
        PROVE  best[n + 1][E \cup {a}] <= best[n + 1][E \cup {b}]
    <3>1. best[n + 1][E \cup {a}] = 0 /\ best[n + 1][E \cup {b}] = 0
      BY <2>1
    <3>. QED
      BY <3>1
  <2>. QED
    BY <2>2 DEF SoonerIsBetter
<1>3. n + 1 \in P /\ \A i \in 1..n : i + 1 \in P => i \in P
  BY <1>1, <1>2, SoonerStep
<1>. HIDE DEF P
<1>4. \A i \in 1..(n + 1) : i \in P
  BY <1>3, Backwards
<1>. QED
  BY <1>1, <1>4 DEF P

\* The next request of victim, from position i on, is the farthest away.
IsFarthest(trace, i, cached, victim) ==
  \A other \in cached : NextRequest(trace, i, other) <= NextRequest(trace, i, victim)

\* Belady's rule: a full cache loses nothing by giving up a page whose next
\* request is the farthest away.
LEMMA FarthestIsBest ==
  ASSUME NEW best, NEW trace, NEW size, IsTable(best, trace, size),
         NEW i \in 1..Len(trace), NEW cached \in SUBSET ToSet(trace),
         trace[i] \notin cached, Cardinality(cached) = size,
         NEW victim \in cached, IsFarthest(trace, i + 1, cached, victim)
  PROVE  best[i][cached] = 1 + best[i + 1][(cached \ {victim}) \cup {trace[i]}]
<1>1. PICK x \in ToSet(trace) : x = trace[i]
  BY TableFacts
<1>2. /\ IsFiniteSet(cached) /\ Cardinality(cached) \in Nat
      /\ i + 1 \in 1..(Len(trace) + 1) /\ i \in 1..(Len(trace) + 1)
  BY TableFacts
<1>3. PICK w \in cached : best[i][cached] = 1 + best[i + 1][(cached \ {w}) \cup {x}]
  <2>1. GivesUpOne(best, trace, i, cached)
    BY BestFull
  <2>. QED
    BY <1>1, <2>1 DEF GivesUpOne
<1>4. best[i][cached] <= 1 + best[i + 1][(cached \ {victim}) \cup {x}]
  BY <1>1, BestFullAtMost
<1>5. \A v \in cached : best[i + 1][(cached \ {v}) \cup {x}] \in Nat
  <2>1. \A v \in cached : (cached \ {v}) \cup {x} \in SUBSET ToSet(trace)
    OBVIOUS
  <2>. QED
    BY <1>2, <2>1, BestIsNat
<1>6. best[i + 1][(cached \ {victim}) \cup {x}] <= best[i + 1][(cached \ {w}) \cup {x}]
  <2>1. CASE w = victim
    <3>1. best[i + 1][(cached \ {victim}) \cup {x}] \in Nat
      BY <1>5
    <3>. QED
      BY <2>1, <3>1
  <2>2. CASE w # victim
    <3>1. PICK D : D = cached \ {w}
      OBVIOUS
    <3>2. IsFiniteSet(D) /\ Cardinality(D) = size - 1
      BY <1>2, <3>1, FS_RemoveElement
    <3>3. PICK E : E = (D \ {victim}) \cup {x}
      OBVIOUS
    <3>4. x \notin D /\ victim \in D
      BY <1>1, <2>2, <3>1
    <3>5. Cardinality(E) = Cardinality(D)
      BY <3>2, <3>3, <3>4, Exchanged
    <3>6. /\ E \in SUBSET ToSet(trace)
          /\ w \in ToSet(trace) \ E /\ victim \in ToSet(trace) \ E
      BY <1>1, <2>2, <3>1, <3>3
    <3>7. /\ E \cup {w} = (cached \ {victim}) \cup {x}
          /\ E \cup {victim} = (cached \ {w}) \cup {x}
      BY <1>1, <2>2, <3>1, <3>3
    <3>8. Cardinality(E) + 1 = size
      BY <1>2, <3>2, <3>5
    <3>9. SoonerIsBetter(best, trace, size, i + 1)
      BY <1>2, SoonerEverywhere
    <3>10. best[i + 1][E \cup {w}] <= best[i + 1][E \cup {victim}]
      BY <3>6, <3>8, <3>9 DEF SoonerIsBetter, IsFarthest
    <3>. QED
      BY <3>7, <3>10
  <2>. QED
    BY <2>1, <2>2
<1>7. best[i][cached] \in Nat
  BY <1>2, BestIsNat
<1>8. /\ best[i + 1][(cached \ {victim}) \cup {x}] \in Nat
      /\ best[i + 1][(cached \ {w}) \cup {x}] \in Nat
  BY <1>5
<1>9. best[i][cached] = 1 + best[i + 1][(cached \ {victim}) \cup {x}]
  BY <1>3, <1>4, <1>6, <1>7, <1>8
<1>. QED
  BY <1>1, <1>9

\* One request served by the cache that gives up the farthest page.
Serve(trace, size, run, i) ==
  LET key == trace[i]
      farthest == CHOOSE victim \in run.cached : \A other \in run.cached :
                    NextRequest(trace, i, other) <= NextRequest(trace, i, victim)
      kept == IF Cardinality(run.cached) < size THEN run.cached
              ELSE run.cached \ {farthest}
  IN IF key \in run.cached THEN run
     ELSE [cached |-> kept \cup {key}, misses |-> run.misses + 1]

\* What such a cache may hold, and have missed.
Runs(trace) == [cached : SUBSET ToSet(trace), misses : Nat]

\* A request leaves a cache of pages of the sequence.
LEMMA ServeType ==
  ASSUME NEW trace, NEW size, NEW i \in 1..Len(trace),
         trace \in Seq(ToSet(trace)), NEW run \in Runs(trace)
  PROVE  Serve(trace, size, run, i) \in Runs(trace)
<1>1. trace[i] \in ToSet(trace)
  OBVIOUS
<1>2. run.cached \in SUBSET ToSet(trace) /\ run.misses \in Nat
  BY DEF Runs
<1>3. ASSUME NEW kept \in SUBSET ToSet(trace)
      PROVE  [cached |-> kept \cup {trace[i]}, misses |-> run.misses + 1] \in Runs(trace)
  BY <1>1, <1>2 DEF Runs
<1>. QED
  BY <1>2, <1>3 DEF Serve

\* The caches after each request.
AreRuns(runs, trace, size) ==
  /\ runs \in [0..Len(trace) -> Runs(trace)]
  /\ runs[0] = [cached |-> {}, misses |-> 0]
  /\ \A i \in 1..Len(trace) : runs[i] = Serve(trace, size, runs[i - 1], i)

\* FarthestMisses serves the trace one after the other.
LEMMA FarthestByRequests ==
  ASSUME NEW trace, NEW size, trace \in Seq(ToSet(trace))
  PROVE  \E runs : /\ AreRuns(runs, trace, size)
                   /\ FarthestMisses(trace, size) = runs[Len(trace)].misses
<1>. DEFINE n == Len(trace)
            V == Runs(trace)
            base == [cached |-> {}, misses |-> 0]
            positions == [i \in DOMAIN trace |-> i]
            pick == [s \in (SUBSET (1..n)) \ {{}} |-> Max(s)]
            step == [a \in (1..n) \X V |-> Serve(trace, size, a[2], a[1])]
            Eq(g) == g = [s \in SUBSET (DOMAIN positions) |->
                            IF s = {} THEN base
                            ELSE Serve(trace, size, g[s \ {Max(s)}], positions[Max(s)])]
<1>1. n \in Nat /\ DOMAIN positions = 1..n /\ \A i \in 1..n : positions[i] = i
  OBVIOUS
<1>2. IsFiniteSet(1..n)
  BY <1>1, FS_Interval
<1>3. \A i \in 1..n, v \in V : Serve(trace, size, v, i) \in V
  BY ServeType
<1>4. base \in V
  BY DEF Runs
<1>. HIDE DEF n, V, base, positions
<1>5. /\ IsPick(pick, 1..n)
      /\ \A s \in SUBSET (1..n) : s # {} => pick[s] = Max(s)
  BY <1>1, Greatest DEF IsPick
<1>6. /\ step \in [(1..n) \X V -> V]
      /\ \A i \in 1..n, v \in V : step[<<i, v>>] = Serve(trace, size, v, i)
  BY <1>3
<1>. HIDE DEF pick, step
<1>7. PICK it \in [SUBSET (1..n) -> V] : IsRecursion(it, 1..n, pick, base, step)
  BY <1>2, <1>4, <1>5, <1>6, SubsetRecursion
<1>8. ASSUME NEW s \in SUBSET (1..n), s # {}
      PROVE  /\ Max(s) \in 1..n
             /\ it[s] = Serve(trace, size, it[s \ {Max(s)}], Max(s))
  <2>1. Max(s) \in 1..n /\ s \ {Max(s)} \in SUBSET (1..n) /\ pick[s] = Max(s)
    BY <1>5, <1>8 DEF IsPick
  <2>2. it[s] = step[<<Max(s), it[s \ {Max(s)}]>>] /\ it[s \ {Max(s)}] \in V
    BY <1>7, <1>8, <2>1 DEF IsRecursion
  <2>. QED
    BY <1>6, <2>1, <2>2
<1>9. Eq(it)
  <2>1. it = [s \in SUBSET (1..n) |-> it[s]]
    OBVIOUS
  <2>2. \A s \in SUBSET (1..n) :
          it[s] = IF s = {} THEN base
                  ELSE Serve(trace, size, it[s \ {Max(s)}], positions[Max(s)])
    BY <1>1, <1>7, <1>8 DEF IsRecursion
  <2>. QED
    BY <1>1, <2>1, <2>2
<1>10. Eq(CHOOSE g : Eq(g))
  BY <1>9
<1>11. FarthestMisses(trace, size) = (CHOOSE g : Eq(g))[DOMAIN positions].misses
  BY DEF FarthestMisses, FoldLeft, MapThenFoldSet, Serve, positions, base
<1>. DEFINE c == CHOOSE g : Eq(g)
<1>12. c[{}] = base /\ \A s \in SUBSET (1..n) : s # {} =>
         c[s] = Serve(trace, size, c[s \ {Max(s)}], Max(s))
  <2>1. \A s \in SUBSET (1..n) :
          c[s] = IF s = {} THEN base
                 ELSE Serve(trace, size, c[s \ {Max(s)}], positions[Max(s)])
    BY <1>1, <1>10
  <2>. QED
    BY <1>1, <1>8, <2>1
<1>. HIDE DEF c, Eq
<1>. DEFINE P == {s \in SUBSET (1..n) : c[s] = it[s]}
<1>13. {} \in P
  BY <1>7, <1>12 DEF IsRecursion
<1>14. ASSUME NEW s \in SUBSET (1..n), s # {}, s \ {pick[s]} \in P PROVE s \in P
  <2>1. s \ {Max(s)} \in P
    BY <1>5, <1>14
  <2>. QED
    BY <1>8, <1>12, <1>14, <2>1
<1>15. \A s \in SUBSET (1..n) : s \in P
  <2>1. P \in SUBSET (SUBSET (1..n))
    OBVIOUS
  <2>. HIDE DEF P
  <2>2. Grows(P, 1..n, pick)
    BY <1>14 DEF Grows
  <2>. QED
    BY <1>2, <1>5, <1>13, <2>1, <2>2, SubsetInduction
<1>16. FarthestMisses(trace, size) = it[1..n].misses
  BY <1>1, <1>11, <1>15 DEF c
<1>17. PICK runs : runs = [i \in 0..n |-> it[1..i]]
  OBVIOUS
<1>18. \A i \in 0..n : runs[i] = it[1..i] /\ 1..i \in SUBSET (1..n)
  BY <1>1, <1>17
<1>19. 1..0 = {} /\ 0 \in 0..n /\ n \in 0..n
  BY <1>1
<1>20. ASSUME NEW i \in 1..n
       PROVE  runs[i] = Serve(trace, size, runs[i - 1], i)
  <2>1. 1..i \in SUBSET (1..n) /\ i \in 1..i /\ 1..i # {}
    <3>1. i \in 1..i
      BY <1>1
    <3>2. \A j \in 1..i : j \in 1..n
      BY <1>1
    <3>. QED
      BY <3>1, <3>2
  <2>2. Max(1..i) = i
    <3>1. Max(1..i) \in 1..i /\ i <= Max(1..i)
      BY <1>1, <2>1, Greatest
    <3>. QED
      BY <1>1, <3>1
  <2>3. (1..i) \ {i} = 1..(i - 1) /\ i \in 0..n /\ i - 1 \in 0..n
    BY <1>1
  <2>. QED
    BY <1>8, <1>18, <2>1, <2>2, <2>3
<1>21. runs \in [0..n -> V] /\ runs[0] = base
  BY <1>7, <1>17, <1>18, <1>19 DEF IsRecursion
<1>22. FarthestMisses(trace, size) = runs[n].misses
  BY <1>16, <1>18, <1>19
<1>. QED
  BY <1>20, <1>21, <1>22 DEF AreRuns, n, V, base

\* Of some pages one is requested last.
LEMMA FarthestExists ==
  ASSUME NEW trace, Len(trace) \in Nat, NEW i \in 1..(Len(trace) + 1),
         NEW cached, cached # {}
  PROVE  \E victim \in cached : IsFarthest(trace, i, cached, victim)
<1>1. PICK n \in Nat : n = Len(trace)
  OBVIOUS
<1>. DEFINE times == {NextRequest(trace, i, key) : key \in cached}
<1>2. times \in SUBSET (1..(n + 1)) /\ times # {}
  <2>1. \A key : NextRequest(trace, i, key) \in i..(n + 1)
    BY <1>1, NextRequestAt
  <2>. QED
    BY <1>1, <2>1
<1>3. Max(times) \in times /\ \A m \in times : m <= Max(times)
  BY <1>2, n + 1 \in Nat, Greatest
<1>. QED
  BY <1>3 DEF IsFarthest

\* After every request, the misses so far and the fewest that the rest needs.
OnCourse(best, trace, size, run, i) ==
  /\ run \in Runs(trace)
  /\ Cardinality(run.cached) <= size
  /\ run.misses + best[i][run.cached] = best[1][{}]

\* The cache that gives up the farthest page stays on course.
LEMMA ServeKeepsCourse ==
  ASSUME NEW best, NEW trace, NEW size, IsTable(best, trace, size),
         NEW i \in 1..Len(trace), NEW run, OnCourse(best, trace, size, run, i)
  PROVE  OnCourse(best, trace, size, Serve(trace, size, run, i), i + 1)
<1>1. PICK x \in ToSet(trace) : x = trace[i]
  BY TableFacts
<1>2. /\ Len(trace) \in Nat /\ size \in Nat /\ size >= 1
      /\ i + 1 \in 1..(Len(trace) + 1) /\ i \in 1..(Len(trace) + 1)
      /\ trace \in Seq(ToSet(trace))
  BY TableFacts DEF IsTable
<1>3. PICK cached \in SUBSET ToSet(trace), missed \in Nat :
        run = [cached |-> cached, misses |-> missed]
  BY DEF OnCourse, Runs
<1>4. /\ run.cached = cached /\ run.misses = missed
      /\ IsFiniteSet(cached) /\ Cardinality(cached) \in Nat
      /\ Cardinality(cached) <= size
      /\ missed + best[i][cached] = best[1][{}]
  BY <1>3, TableFacts DEF OnCourse
<1>5. Serve(trace, size, run, i) \in Runs(trace)
  BY <1>2, ServeType DEF OnCourse
<1>6. ASSUME NEW next \in SUBSET ToSet(trace), Cardinality(next) <= size,
             Serve(trace, size, run, i) = [cached |-> next, misses |-> missed + 1],
             best[i][cached] = 1 + best[i + 1][next]
      PROVE  OnCourse(best, trace, size, Serve(trace, size, run, i), i + 1)
  <2>1. best[i + 1][next] \in Nat
    BY <1>2, BestIsNat
  <2>2. missed + 1 + best[i + 1][next] = best[1][{}]
    BY <1>4, <1>6, <2>1
  <2>. QED
    BY <1>5, <1>6, <2>2 DEF OnCourse
<1>7. CASE x \in cached
  <2>1. Serve(trace, size, run, i) = run
    BY <1>1, <1>4, <1>7 DEF Serve
  <2>2. best[i][cached] = best[i + 1][cached]
    BY <1>1, <1>7, BestHit
  <2>. QED
    BY <1>4, <2>1, <2>2 DEF OnCourse
<1>8. CASE x \notin cached /\ Cardinality(cached) < size
  <2>1. Serve(trace, size, run, i)
          = [cached |-> cached \cup {x}, misses |-> missed + 1]
    BY <1>1, <1>4, <1>8 DEF Serve
  <2>2. best[i][cached] = 1 + best[i + 1][cached \cup {x}]
    <3>1. MissCosts(best, trace, size, i, cached)
      BY <1>1, <1>8, BestMiss
    <3>2. Kept(cached, size) = {cached}
      BY <1>8 DEF Kept
    <3>. QED
      BY <1>1, <3>1, <3>2 DEF MissCosts
  <2>3. Cardinality(cached \cup {x}) = Cardinality(cached) + 1
    BY <1>4, <1>8, OneMore
  <2>4. cached \cup {x} \in SUBSET ToSet(trace) /\ Cardinality(cached \cup {x}) <= size
    BY <1>2, <1>4, <1>8, <2>3
  <2>. QED
    BY <1>6, <2>1, <2>2, <2>4
<1>9. CASE x \notin cached /\ ~(Cardinality(cached) < size)
  <2>1. Cardinality(cached) = size
    BY <1>2, <1>4, <1>9
  <2>2. cached # {}
    <3>1. CASE cached = {}
      <4>1. Cardinality(cached) = 0
        BY <3>1, FS_EmptySet
      <4>. QED
        BY <1>2, <2>1, <4>1
    <3>. QED
      BY <3>1
  <2>3. PICK victim : victim = CHOOSE v \in cached : IsFarthest(trace, i, cached, v)
    OBVIOUS
  <2>4. victim \in cached /\ IsFarthest(trace, i, cached, victim)
    <3>1. \E v \in cached : IsFarthest(trace, i, cached, v)
      BY <1>2, <2>2, FarthestExists
    <3>. QED
      BY <2>3, <3>1
  <2>5. IsFarthest(trace, i + 1, cached, victim)
    <3>1. \A key \in cached :
             NextRequest(trace, i, key) = NextRequest(trace, i + 1, key)
      BY <1>1, <1>2, <1>9, NextRequestAt
    <3>. QED
      BY <2>4, <3>1 DEF IsFarthest
  <2>6. Serve(trace, size, run, i)
          = [cached |-> (cached \ {victim}) \cup {x}, misses |-> missed + 1]
    BY <1>1, <1>4, <1>9, <2>3 DEF Serve, IsFarthest
  <2>7. best[i][cached] = 1 + best[i + 1][(cached \ {victim}) \cup {x}]
    <3>1. trace[i] \notin cached
      BY <1>1, <1>9
    <3>2. best[i][cached] = 1 + best[i + 1][(cached \ {victim}) \cup {trace[i]}]
      BY <2>1, <2>4, <2>5, <3>1, FarthestIsBest
    <3>. QED
      BY <1>1, <3>2
  <2>8. /\ (cached \ {victim}) \cup {x} \in SUBSET ToSet(trace)
        /\ Cardinality((cached \ {victim}) \cup {x}) <= size
    <3>1. Cardinality((cached \ {victim}) \cup {x}) = Cardinality(cached)
      BY <1>4, <1>9, <2>4, Exchanged
    <3>. QED
      BY <1>4, <3>1
  <2>. QED
    BY <1>6, <2>6, <2>7, <2>8
<1>. QED
  BY <1>7, <1>8, <1>9

\* Belady's theorem: no cache that loads on demand serves the sequence with
\* fewer misses than the one that always gives up the farthest page.
THEOREM FarthestIsMinimal ==
  ASSUME NEW trace, NEW size, trace \in Seq(ToSet(trace)),
         size \in Nat \ {0}
  PROVE  FarthestMisses(trace, size) = MinMisses(trace, size)
<1>1. PICK best : best = MinMissesFrom(trace, size)
  OBVIOUS
<1>2. IsTable(best, trace, size)
  BY <1>1 DEF IsTable
<1>3. PICK n \in Nat : n = Len(trace)
  BY <1>2, TableFacts
<1>4. PICK runs : /\ AreRuns(runs, trace, size)
                  /\ FarthestMisses(trace, size) = runs[n].misses
  BY <1>3, FarthestByRequests
<1>. DEFINE P == {i \in Nat : i <= n => OnCourse(best, trace, size, runs[i], i + 1)}
<1>5. 0 \in P
  <2>1. /\ runs[0] = [cached |-> {}, misses |-> 0] /\ runs[0] \in Runs(trace)
        /\ runs[0].cached = {} /\ runs[0].misses = 0
    <3>1. 0 \in 0..Len(trace)
      BY <1>3
    <3>2. runs[0] = [cached |-> {}, misses |-> 0]
      BY <1>4 DEF AreRuns
    <3>3. \A i \in 0..Len(trace) : runs[i] \in Runs(trace)
      BY <1>4 DEF AreRuns
    <3>4. runs[0] \in Runs(trace)
      BY <3>1, <3>3
    <3>. QED
      BY <3>2, <3>4
  <2>2. Cardinality({}) <= size
    BY <1>2, FS_EmptySet, TableFacts
  <2>3. best[1][{}] \in Nat
    BY <1>2, <1>3, BestIsNat
  <2>4. 0 + best[1][{}] = best[1][{}]
    BY <2>3
  <2>5. OnCourse(best, trace, size, runs[0], 1)
    BY <2>1, <2>2, <2>4 DEF OnCourse
  <2>. QED
    BY <2>5, 0 + 1 = 1
<1>6. ASSUME NEW i \in P PROVE i + 1 \in P
  <2>1. CASE i + 1 <= n
    <3>1. OnCourse(best, trace, size, runs[i], i + 1) /\ i + 1 \in 1..n
      BY <1>6, <2>1
    <3>2. OnCourse(best, trace, size, Serve(trace, size, runs[i], i + 1), i + 1 + 1)
      BY <1>2, <1>3, <3>1, ServeKeepsCourse
    <3>3. runs[i + 1] = Serve(trace, size, runs[(i + 1) - 1], i + 1) /\ (i + 1) - 1 = i
      BY <1>3, <1>4, <1>6, <3>1 DEF AreRuns
    <3>. QED
      BY <3>2, <3>3
  <2>2. CASE ~(i + 1 <= n)
    BY <1>6, <2>2
  <2>. QED
    BY <2>1, <2>2
<1>7. \A i \in Nat : i \in P
  <2>1. P \in SUBSET Nat
    OBVIOUS
  <2>. HIDE DEF P
  <2>. QED
    BY <1>5, <1>6, <2>1, Induction
<1>8. OnCourse(best, trace, size, runs[n], n + 1)
  BY <1>7
<1>9. best[n + 1][runs[n].cached] = 0 /\ runs[n].misses \in Nat
  <2>1. runs[n].cached \in SUBSET ToSet(trace) /\ runs[n].misses \in Nat
    BY <1>8 DEF OnCourse, Runs
  <2>. QED
    BY <1>2, <1>3, <2>1, BestAtEnd
<1>10. runs[n].misses = best[1][{}]
  BY <1>8, <1>9 DEF OnCourse
<1>. QED
  BY <1>1, <1>4, <1>10 DEF MinMisses

-----------------------------------------------------------------------------
(***************************************************************************)
(* countIdealMisses: the queue of next uses.                               *)
(***************************************************************************)

\* The inductive invariant.  The next use recorded for a cached key is where
\* the key is requested next, so that the entry on top of the queue, if it is
\* a present one, is the farthest page's; and every present entry is queued.
CountInv ==
  /\ requests \in Traces /\ capacity \in Capacities
  /\ index \in 1..(Len(requests) + 1)
  /\ misses \in Nat
  /\ Cached \subseteq ToSet(requests)
  /\ residentNextUse = [key \in Cached |-> NextRequest(requests, index, key)]
  /\ IsFiniteSet(evictionQueue)
  /\ QueueCoversCache
  /\ evicting =>
       /\ index <= Len(requests)
       /\ requests[index] \notin Cached
       /\ Cardinality(Cached) = capacity
  /\ misses + MinMissesFrom(requests, capacity)[index][Cached]
       = MinMisses(requests, capacity) + (IF evicting THEN 1 ELSE 0)

\* The facts that every action's proof starts from.
LEMMA CountFacts ==
  ASSUME CountInv
  PROVE  /\ IsTable(MinMissesFrom(requests, capacity), requests, capacity)
         /\ Len(requests) \in Nat
         /\ capacity \in Nat /\ capacity >= 1
         /\ index \in Nat /\ index >= 1
         /\ misses \in Nat
         /\ Cached \in SUBSET ToSet(requests)
         /\ IsFiniteSet(Cached) /\ Cardinality(Cached) \in Nat
         /\ Cardinality(Cached) <= capacity
         /\ residentNextUse = [key \in Cached |-> NextRequest(requests, index, key)]
         /\ IsFiniteSet(evictionQueue)
         /\ Cardinality(evictionQueue) <= 4 * capacity
         /\ Entries(residentNextUse) \subseteq evictionQueue
         /\ MinMisses(requests, capacity) \in Nat
<1>1. IsTable(MinMissesFrom(requests, capacity), requests, capacity)
  BY TracesAssumption, CapacitiesAssumption DEF CountInv, IsTable
<1>2. /\ Len(requests) \in Nat /\ capacity \in Nat /\ capacity >= 1
      /\ \A cached \in SUBSET ToSet(requests) :
           IsFiniteSet(cached) /\ Cardinality(cached) \in Nat
  BY <1>1, TableFacts
<1>3. index \in Nat /\ index >= 1
  BY <1>2 DEF CountInv
<1>4. MinMisses(requests, capacity) \in Nat
  <2>1. 1 \in 1..(Len(requests) + 1) /\ {} \in SUBSET ToSet(requests)
    BY <1>2
  <2>. QED
    BY <1>1, <2>1, BestIsNat DEF MinMisses
<1>. QED
  BY <1>1, <1>2, <1>3, <1>4 DEF CountInv, QueueCoversCache

\* A cache has no more entries than keys.
LEMMA EntriesFacts ==
  ASSUME NEW N, IsFiniteSet(N), NEW nextUse, DOMAIN nextUse = N
  PROVE  /\ IsFiniteSet(Entries(nextUse))
         /\ Cardinality(Entries(nextUse)) <= Cardinality(N)
<1>. DEFINE f == [key \in N |-> <<nextUse[key], key>>]
<1>1. f \in Surjection(N, Entries(nextUse))
  BY DEF Surjection, Entries
<1>. QED
  BY <1>1, FS_Surjection

\* The end of a request, for the cache without the key and for its queue.
LEMMA AdmitFacts ==
  ASSUME CountInv, index <= Len(requests), NEW key, key = requests[index],
         NEW N \in SUBSET Cached, Cardinality(N \cup {key}) <= capacity,
         NEW nextUse, nextUse = [k \in N |-> residentNextUse[k]],
         NEW queue, IsFiniteSet(queue),
         \A k \in N : <<residentNextUse[k], k>> \in queue,
         Admit(nextUse, queue), UNCHANGED <<requests, capacity>>
  PROVE  /\ Cached' = N \cup {key}
         /\ residentNextUse' = [k \in Cached' |-> NextRequest(requests', index', k)]
         /\ index' = index + 1
         /\ ~ evicting'
         /\ IsFiniteSet(evictionQueue')
         /\ QueueCoversCache'
<1>1. PICK after :
        after = [k \in N \cup {key} |-> IF k = key THEN NextUse(index) ELSE nextUse[k]]
  OBVIOUS
<1>2. /\ DOMAIN after = N \cup {key}
      /\ \A k \in N \cup {key} :
           after[k] = IF k = key THEN NextUse(index) ELSE residentNextUse[k]
      /\ after = [k \in N \cup {key} |-> after[k]]
  BY <1>1
<1>3. /\ residentNextUse' = after
      /\ evictionQueue' = Compacted(queue \cup {<<NextUse(index), key>>}, after)
      /\ index' = index + 1
      /\ evicting' = FALSE
  <2>1. DOMAIN nextUse = N
    OBVIOUS
  <2>. QED
    BY <1>1, <2>1 DEF Admit
<1>4. Cached' = N \cup {key}
  BY <1>2, <1>3 DEF Cached
<1>5. \A k \in N \cup {key} : after[k] = NextRequest(requests, index + 1, k)
  <2>1. NextUse(index) = NextRequest(requests, index + 1, key)
    BY DEF NextUse
  <2>2. ASSUME NEW k \in N, k # key
        PROVE  residentNextUse[k] = NextRequest(requests, index + 1, k)
    <3>1. residentNextUse[k] = NextRequest(requests, index, k)
      BY CountFacts
    <3>2. index \in 1..Len(requests)
      BY CountFacts
    <3>3. NextRequest(requests, index, k) = NextRequest(requests, index + 1, k)
      BY <2>2, <3>2, CountFacts, NextRequestAt
    <3>. QED
      BY <3>1, <3>3
  <2>. QED
    BY <1>2, <2>1, <2>2
<1>6. residentNextUse' = [k \in Cached' |-> NextRequest(requests', index', k)]
  BY <1>2, <1>3, <1>4, <1>5
<1>7. PICK longer : longer = queue \cup {<<NextUse(index), key>>}
  OBVIOUS
<1>8. IsFiniteSet(longer)
  BY <1>7, FS_AddElement
<1>9. Entries(after) \subseteq longer
  <2>1. \A k \in N \cup {key} : <<after[k], k>> \in longer
    BY <1>2, <1>7
  <2>. QED
    BY <1>2, <2>1 DEF Entries
<1>10. /\ IsFiniteSet(N \cup {key}) /\ Cardinality(N \cup {key}) \in Nat
       /\ capacity \in Nat /\ capacity >= 1
  <2>1. IsFiniteSet(N)
    BY CountFacts, FS_Subset
  <2>2. IsFiniteSet(N \cup {key})
    BY <2>1, FS_AddElement
  <2>. QED
    BY <2>2, CountFacts, FS_CardinalityType
<1>11. /\ IsFiniteSet(Entries(after))
       /\ Cardinality(Entries(after)) <= Cardinality(N \cup {key})
       /\ Cardinality(Entries(after)) \in Nat
  BY <1>2, <1>10, EntriesFacts, FS_CardinalityType
<1>12. /\ IsFiniteSet(evictionQueue')
       /\ Entries(after) \subseteq evictionQueue'
       /\ Cardinality(evictionQueue') <= 4 * capacity
  <2>1. CASE Cardinality(longer) > 4 * capacity
    <3>1. evictionQueue' = Entries(after)
      BY <1>3, <1>7, <2>1 DEF Compacted
    <3>2. Cardinality(Entries(after)) <= 4 * capacity
      BY <1>10, <1>11
    <3>. QED
      BY <1>11, <3>1, <3>2
  <2>2. CASE ~(Cardinality(longer) > 4 * capacity)
    <3>1. evictionQueue' = longer
      BY <1>3, <1>7, <2>2 DEF Compacted
    <3>2. Cardinality(longer) \in Nat
      BY <1>8, FS_CardinalityType
    <3>3. Cardinality(longer) <= 4 * capacity
      BY <1>10, <2>2, <3>2
    <3>. QED
      BY <1>8, <1>9, <3>1, <3>3
  <2>. QED
    BY <2>1, <2>2
<1>13. QueueCoversCache'
  BY <1>3, <1>4, <1>12 DEF QueueCoversCache, Entries, Cached
<1>. QED
  BY <1>3, <1>4, <1>6, <1>12, <1>13

\* Nothing is cached at first.
LEMMA CountInit == IdealInit => CountInv
<1>. SUFFICES ASSUME IdealInit PROVE CountInv
  OBVIOUS
<1>1. requests \in Seq(ToSet(requests)) /\ capacity \in Nat \ {0} /\ Len(requests) \in Nat
  BY TracesAssumption, CapacitiesAssumption DEF IdealInit
<1>2. Cached = {}
  BY EmptySeq DEF IdealInit, Cached
<1>3. residentNextUse = [key \in {} |-> NextRequest(requests, index, key)]
  BY <1>2 DEF IdealInit, Cached
<1>4. Entries(residentNextUse) = {}
  BY <1>2 DEF Entries, Cached
<1>5. evictionQueue = {} /\ IsFiniteSet({}) /\ Cardinality({}) = 0
  BY FS_EmptySet DEF IdealInit
<1>6. QueueCoversCache
  BY <1>1, <1>2, <1>4, <1>5 DEF IdealInit, QueueCoversCache
<1>7. MinMissesFrom(requests, capacity)[1][{}] \in Nat
  <2>1. IsTable(MinMissesFrom(requests, capacity), requests, capacity)
    BY <1>1 DEF IsTable
  <2>2. 1 \in 1..(Len(requests) + 1) /\ {} \in SUBSET ToSet(requests)
    BY <1>1
  <2>. QED
    BY <2>1, <2>2, BestIsNat
<1>. QED
  BY <1>1, <1>2, <1>3, <1>5, <1>6, <1>7 DEF IdealInit, CountInv, MinMisses

\* A request of a page that is cached.
LEMMA HitCounts ==
  ASSUME CountInv, NEW key, IdealHit(key)
  PROVE  CountInv'
<1>1. /\ ~ evicting /\ index <= Len(requests) /\ requests[index] = key /\ key \in Cached
      /\ Admit(residentNextUse, evictionQueue)
      /\ UNCHANGED <<requests, capacity, misses>>
  BY DEF IdealHit, Serving
<1>2. Cached \cup {key} = Cached /\ index \in 1..Len(requests)
  BY <1>1, CountFacts
<1>3. residentNextUse = [k \in Cached |-> residentNextUse[k]]
  BY CountFacts
<1>4. \A k \in Cached : <<residentNextUse[k], k>> \in evictionQueue
  BY CountFacts DEF Entries, Cached
<1>5. Cardinality(Cached \cup {key}) <= capacity
  BY <1>2, CountFacts
<1>6. /\ Cached' = Cached \cup {key}
      /\ residentNextUse' = [k \in Cached' |-> NextRequest(requests', index', k)]
      /\ index' = index + 1
      /\ ~ evicting'
      /\ IsFiniteSet(evictionQueue')
      /\ QueueCoversCache'
  BY <1>1, <1>3, <1>4, <1>5, CountFacts, AdmitFacts
<1>7. MinMissesFrom(requests, capacity)[index][Cached]
        = MinMissesFrom(requests, capacity)[index + 1][Cached]
  BY <1>1, <1>2, CountFacts, BestHit
<1>8. index + 1 \in 1..(Len(requests) + 1)
  BY <1>2, CountFacts
<1>. QED
  BY <1>1, <1>2, <1>6, <1>7, <1>8 DEF CountInv

\* A miss while there is room.
LEMMA RoomCounts ==
  ASSUME CountInv, NEW key, MissWithRoom(key)
  PROVE  CountInv'
<1>1. /\ ~ evicting /\ index <= Len(requests) /\ requests[index] = key /\ key \notin Cached
      /\ Cardinality(Cached) # capacity
      /\ misses' = misses + 1
      /\ Admit(residentNextUse, evictionQueue)
      /\ UNCHANGED <<requests, capacity>>
  BY DEF MissWithRoom, Serving
<1>2. index \in 1..Len(requests) /\ key \in ToSet(requests)
  <2>1. index \in 1..Len(requests)
    BY <1>1, CountFacts
  <2>. QED
    BY <1>1, <2>1, CountFacts, TableFacts
<1>3. residentNextUse = [k \in Cached |-> residentNextUse[k]]
  BY CountFacts
<1>4. \A k \in Cached : <<residentNextUse[k], k>> \in evictionQueue
  BY CountFacts DEF Entries, Cached
<1>5. /\ Cardinality(Cached) < capacity
      /\ Cardinality(Cached \cup {key}) <= capacity
  <2>1. Cardinality(Cached \cup {key}) = Cardinality(Cached) + 1
    BY <1>1, CountFacts, OneMore
  <2>. QED
    BY <1>1, <2>1, CountFacts
<1>6. /\ Cached' = Cached \cup {key}
      /\ residentNextUse' = [k \in Cached' |-> NextRequest(requests', index', k)]
      /\ index' = index + 1
      /\ ~ evicting'
      /\ IsFiniteSet(evictionQueue')
      /\ QueueCoversCache'
  BY <1>1, <1>3, <1>4, <1>5, CountFacts, AdmitFacts
<1>7. MinMissesFrom(requests, capacity)[index][Cached]
        = 1 + MinMissesFrom(requests, capacity)[index + 1][Cached \cup {key}]
  BY <1>1, <1>2, <1>5, CountFacts, BestRoom, SMTT(30)
<1>8. /\ index + 1 \in 1..(Len(requests) + 1)
      /\ Cached \cup {key} \in SUBSET ToSet(requests)
  BY <1>2, CountFacts
<1>9. MinMissesFrom(requests, capacity)[index + 1][Cached \cup {key}] \in Nat
  BY <1>8, CountFacts, BestIsNat
<1>10. misses + MinMissesFrom(requests, capacity)[index][Cached]
         = MinMisses(requests, capacity)
  BY <1>1, CountFacts DEF CountInv
<1>11. misses' + MinMissesFrom(requests, capacity)[index + 1][Cached \cup {key}]
         = MinMisses(requests, capacity)
  BY <1>1, <1>7, <1>9, <1>10, CountFacts, SMTT(30)
<1>12. misses' \in Nat
  BY <1>1, CountFacts
<1>. QED
  BY <1>1, <1>6, <1>8, <1>11, <1>12, CountFacts DEF CountInv

\* A miss of a full cache: the loop that looks for a page starts.
LEMMA FullCounts ==
  ASSUME CountInv, NEW key, MissWhenFull(key)
  PROVE  CountInv'
<1>1. /\ ~ evicting /\ index <= Len(requests) /\ requests[index] = key /\ key \notin Cached
      /\ Cardinality(Cached) = capacity
      /\ misses' = misses + 1
      /\ evicting' = TRUE
      /\ UNCHANGED <<requests, capacity, index, residentNextUse, evictionQueue>>
  BY DEF MissWhenFull, Serving
<1>2. Cached' = Cached /\ Entries(residentNextUse)' = Entries(residentNextUse)
  BY <1>1 DEF Cached, Entries
<1>3. evictionQueue # {}
  <2>1. PICK k : k \in Cached
    <3>1. CASE Cached = {}
      <4>1. Cardinality(Cached) = 0
        BY <3>1, FS_EmptySet
      <4>. QED
        BY <1>1, <4>1, CountFacts
    <3>. QED
      BY <3>1
  <2>2. <<residentNextUse[k], k>> \in Entries(residentNextUse)
    BY <2>1 DEF Entries, Cached
  <2>. QED
    BY <2>2, CountFacts
<1>4. QueueCoversCache'
  BY <1>1, <1>2, <1>3, CountFacts DEF QueueCoversCache
<1>5. misses + MinMissesFrom(requests, capacity)[index][Cached] = MinMisses(requests, capacity)
  BY <1>1, CountFacts DEF CountInv
<1>6. MinMissesFrom(requests, capacity)[index][Cached] \in Nat
  <2>1. index \in 1..(Len(requests) + 1)
    BY <1>1, CountFacts
  <2>. QED
    BY <2>1, CountFacts, BestIsNat
<1>7. misses' + MinMissesFrom(requests, capacity)[index][Cached]
        = MinMisses(requests, capacity) + 1
  BY <1>1, <1>5, <1>6, CountFacts, SMTT(30)
<1>8. misses' \in Nat
  BY <1>1, CountFacts
<1>. QED
  BY <1>1, <1>2, <1>4, <1>7, <1>8, CountFacts DEF CountInv

\* A stale entry is nobody's, and the queue does not run dry of present ones.
LEMMA StaleCounts ==
  ASSUME CountInv, NEW entry, PopStale(entry)
  PROVE  CountInv'
<1>1. /\ evicting /\ entry \notin Entries(residentNextUse)
      /\ evictionQueue' = evictionQueue \ {entry}
      /\ UNCHANGED <<requests, capacity, index, evicting, residentNextUse, misses>>
  BY DEF PopStale, Current
<1>2. Cached' = Cached /\ Entries(residentNextUse)' = Entries(residentNextUse)
  BY <1>1 DEF Cached, Entries
<1>3. Entries(residentNextUse) \subseteq evictionQueue'
  BY <1>1, CountFacts
<1>4. evictionQueue' # {}
  <2>1. PICK k : k \in Cached
    <3>1. CASE Cached = {}
      <4>1. Cardinality(Cached) = 0
        BY <3>1, FS_EmptySet
      <4>. QED
        BY <1>1, <4>1, CountFacts DEF CountInv
    <3>. QED
      BY <3>1
  <2>2. <<residentNextUse[k], k>> \in Entries(residentNextUse)
    BY <2>1 DEF Entries, Cached
  <2>. QED
    BY <1>3, <2>2
<1>5. IsFiniteSet(evictionQueue') /\ Cardinality(evictionQueue') <= 4 * capacity
  <2>1. /\ IsFiniteSet(evictionQueue \ {entry})
        /\ Cardinality(evictionQueue \ {entry}) <= Cardinality(evictionQueue)
    BY CountFacts, FS_Subset
  <2>2. Cardinality(evictionQueue \ {entry}) \in Nat /\ Cardinality(evictionQueue) \in Nat
    BY <2>1, CountFacts, FS_CardinalityType
  <2>. QED
    BY <1>1, <2>1, <2>2, CountFacts
<1>6. QueueCoversCache'
  BY <1>1, <1>2, <1>3, <1>4, <1>5, CountFacts DEF QueueCoversCache
<1>. QED
  BY <1>1, <1>2, <1>5, <1>6, CountFacts DEF CountInv

\* A present entry on top of the queue is the farthest page's.
LEMMA EvictCounts ==
  ASSUME CountInv, NEW entry \in Top, Evict(entry)
  PROVE  CountInv'
<1>1. /\ evicting /\ entry \in Entries(residentNextUse)
      /\ UNCHANGED <<requests, capacity, misses>>
      /\ index <= Len(requests) /\ requests[index] \notin Cached
      /\ Cardinality(Cached) = capacity
  BY DEF Evict, Current, CountInv
<1>2. PICK key : key = requests[index]
  OBVIOUS
<1>3. PICK victim \in Cached : entry = <<residentNextUse[victim], victim>>
  BY <1>1 DEF Entries, Cached
<1>4. index \in 1..Len(requests) /\ key \in ToSet(requests)
  <2>1. index \in 1..Len(requests)
    BY <1>1, CountFacts
  <2>. QED
    BY <1>2, <2>1, CountFacts, TableFacts
<1>5. \A k \in Cached : <<residentNextUse[k], k>> \in evictionQueue
  BY CountFacts DEF Entries, Cached
<1>6. IsFarthest(requests, index + 1, Cached, victim)
  <2>1. \A other \in Cached : residentNextUse[other] <= residentNextUse[victim]
    BY <1>3, <1>5 DEF Top
  <2>2. \A k \in Cached : residentNextUse[k] = NextRequest(requests, index, k)
    BY CountFacts
  <2>3. \A k \in Cached : NextRequest(requests, index, k) = NextRequest(requests, index + 1, k)
    BY <1>1, <1>4, CountFacts, NextRequestAt
  <2>. QED
    BY <2>1, <2>2, <2>3 DEF IsFarthest
<1>7. PICK N : N = Cached \ {victim}
  OBVIOUS
<1>8. PICK nextUse : nextUse = [k \in N |-> residentNextUse[k]]
  OBVIOUS
<1>9. PICK queue : queue = evictionQueue \ {entry}
  OBVIOUS
<1>10. Admit(nextUse, queue)
  BY <1>3, <1>7, <1>8, <1>9 DEF Evict
<1>11. /\ N \in SUBSET Cached
       /\ IsFiniteSet(queue)
       /\ \A k \in N : <<residentNextUse[k], k>> \in queue
  <2>1. IsFiniteSet(queue)
    BY <1>9, CountFacts, FS_Subset
  <2>2. \A k \in N : <<residentNextUse[k], k>> # entry
    BY <1>3, <1>7
  <2>. QED
    BY <1>5, <1>7, <1>9, <2>1, <2>2
<1>12. Cardinality(N \cup {key}) <= capacity
  <2>1. Cardinality((Cached \ {victim}) \cup {key}) = Cardinality(Cached)
    BY <1>1, <1>2, CountFacts, Exchanged
  <2>. QED
    BY <1>1, <1>7, <2>1, CountFacts
<1>13. /\ Cached' = N \cup {key}
       /\ residentNextUse' = [k \in Cached' |-> NextRequest(requests', index', k)]
       /\ index' = index + 1
       /\ ~ evicting'
       /\ IsFiniteSet(evictionQueue')
       /\ QueueCoversCache'
  BY <1>1, <1>2, <1>8, <1>10, <1>11, <1>12, AdmitFacts
<1>14. MinMissesFrom(requests, capacity)[index][Cached]
         = 1 + MinMissesFrom(requests, capacity)[index + 1][(Cached \ {victim}) \cup {key}]
  <2>1. PICK best : best = MinMissesFrom(requests, capacity)
    OBVIOUS
  <2>2. IsTable(best, requests, capacity)
    BY <2>1, CountFacts
  <2>3. PICK held \in SUBSET ToSet(requests) : held = Cached
    BY CountFacts
  <2>4. PICK i \in 1..Len(requests) : i = index
    BY <1>4
  <2>5. requests[i] \notin held
    BY <1>1, <2>3, <2>4
  <2>6. Cardinality(held) = capacity
    BY <1>1, <2>3
  <2>7. victim \in held
    BY <2>3
  <2>8. IsFarthest(requests, i + 1, held, victim)
    BY <1>6, <2>3, <2>4
  <2>9. best[i][held] = 1 + best[i + 1][(held \ {victim}) \cup {requests[i]}]
    BY <2>2, <2>5, <2>6, <2>7, <2>8, FarthestIsBest
  <2>. QED
    BY <1>2, <2>1, <2>3, <2>4, <2>9
<1>15. /\ index + 1 \in 1..(Len(requests) + 1)
       /\ N \cup {key} \in SUBSET ToSet(requests)
  BY <1>4, <1>7, CountFacts
<1>16. MinMissesFrom(requests, capacity)[index + 1][N \cup {key}] \in Nat
  BY <1>15, CountFacts, BestIsNat
<1>17. misses + MinMissesFrom(requests, capacity)[index][Cached]
         = MinMisses(requests, capacity) + 1
  BY <1>1, CountFacts DEF CountInv
<1>18. MinMissesFrom(requests, capacity)[index][Cached]
         = 1 + MinMissesFrom(requests, capacity)[index + 1][N \cup {key}]
  BY <1>2, <1>7, <1>14
<1>19. misses + MinMissesFrom(requests, capacity)[index + 1][N \cup {key}]
         = MinMisses(requests, capacity)
  BY <1>16, <1>17, <1>18, CountFacts, SMTT(30)
<1>. QED
  BY <1>1, <1>13, <1>15, <1>19, CountFacts DEF CountInv

\* Every step of the algorithm keeps the invariant.
LEMMA CountNext == CountInv /\ [IdealNext]_idealVars => CountInv'
<1>. SUFFICES ASSUME CountInv, [IdealNext]_idealVars PROVE CountInv'
  OBVIOUS
<1>1. ASSUME UNCHANGED idealVars PROVE CountInv'
  BY <1>1 DEF idealVars, CountInv, QueueCoversCache, Cached, Entries
<1>. QED
  BY <1>1, HitCounts, RoomCounts, FullCounts, StaleCounts, EvictCounts DEF IdealNext, Finished

\* The queue never runs dry while the cache looks for a page to give up, nor
\* outgrows its bound (countIdealMisses, the eviction loop and the clean-up).
THEOREM QueueCovers == IdealSpec => []QueueCoversCache
<1>1. CountInv => QueueCoversCache
  BY DEF CountInv
<1>. QED
  BY CountInit, CountNext, <1>1, PTL DEF IdealSpec

\* The count of countIdealMisses is the fewest misses of any cache of the size,
\* and so a lower bound for every policy.
THEOREM CountsMinimum == IdealSpec => []CountIsMinimal
<1>1. CountInv => CountIsMinimal
  <2>. SUFFICES ASSUME CountInv PROVE CountIsMinimal
    OBVIOUS
  <2>1. ASSUME ~ evicting
        PROVE  misses + MinMissesFrom(requests, capacity)[index][Cached]
                 = MinMisses(requests, capacity)
    BY <2>1, CountFacts DEF CountInv
  <2>2. ASSUME index > Len(requests) PROVE misses = FarthestMisses(requests, capacity)
    <3>1. ~ evicting /\ index = Len(requests) + 1
      BY <2>2, CountFacts DEF CountInv
    <3>2. MinMissesFrom(requests, capacity)[index][Cached] = 0
      BY <3>1, CountFacts, BestAtEnd
    <3>3. misses = MinMisses(requests, capacity)
      BY <2>1, <3>1, <3>2, CountFacts
    <3>4. FarthestMisses(requests, capacity) = MinMisses(requests, capacity)
      BY CountFacts, FarthestIsMinimal DEF IsTable
    <3>. QED
      BY <3>3, <3>4
  <2>. QED
    BY <2>1, <2>2 DEF CountIsMinimal
<1>. QED
  BY CountInit, CountNext, <1>1, PTL DEF IdealSpec

-----------------------------------------------------------------------------
(***************************************************************************)
(* The REF cache.                                                          *)
(***************************************************************************)

\* Starting a call keeps the stack within its bound.
LEMMA EnterKeepsCalls ==
  ASSUME NEW key \in Key, CallsTypeOK, Enter(key)
  PROVE  CallsTypeOK'
BY MaxDepthAssumption DEF CallsTypeOK, Enter

\* A call that ends takes its key, and nothing else, off the stack.
LEMMA LeaveKeepsCalls ==
  ASSUME NEW key, CallsTypeOK, Leave(key)
  PROVE  CallsTypeOK' /\ key \in Key
BY FrontFacts, MaxDepthAssumption DEF CallsTypeOK, Leave

\* The inductive invariant: as for the other policies, the entry that evictPage
\* erases is the right one because no key has two records.
Inv == IndexConsistent

\* The facts about the list that every action's proof starts from.
LEMMA InvFacts ==
  ASSUME Inv
  PROVE  /\ cache_ \in Seq(Key)
         /\ Len(cache_) \in Nat
         /\ Len(cache_) <= Capacity
         /\ Capacity \in Nat /\ Capacity >= 1
         /\ IsInjective(cache_)
         /\ ToSet(cache_) \subseteq Key
         /\ pageIndex_ = ToSet(cache_)
         /\ requests_ \in Seq(Key) /\ requests_ \in RequestLists
         /\ Len(requests_) \in Nat
         /\ currentRequest_ \in 1..(Len(requests_) + 1)
         /\ CallsTypeOK
<1>1. requests_ \in RequestLists
  BY DEF Inv, TypeOK, IndexConsistent
<1>2. requests_ \in Seq(Key)
  BY <1>1, RequestsAssumption
<1>. QED
  BY <1>1, <1>2, CapacityAssumption DEF Inv, TypeOK, IndexConsistent, Resident

\* How far away a page's next request is, and where that request is.
LEMMA DistanceFacts ==
  ASSUME Inv, NEW key
  PROVE  /\ NextRequest(requests_, currentRequest_, key)
              \in currentRequest_..(Len(requests_) + 1)
         /\ DistanceToNextRequest(key) =
              IF NextRequest(requests_, currentRequest_, key) = Len(requests_) + 1
              THEN Len(requests_)
              ELSE NextRequest(requests_, currentRequest_, key) - currentRequest_
<1>1. PICK n \in Nat : n = Len(requests_)
  BY InvFacts
<1>2. PICK c \in 1..(n + 1) : c = currentRequest_
  BY <1>1, InvFacts
<1>3. NextRequest(requests_, c, key) \in c..(n + 1)
  BY <1>1, NextRequestAt
<1>4. PICK next : next = {i \in c..n : requests_[i] = key}
  OBVIOUS
<1>5. NextRequest(requests_, c, key) = Min(next \cup {n + 1})
  BY <1>1, <1>4 DEF NextRequest
<1>6. CASE next = {}
  <2>1. Min({n + 1}) = n + 1
    BY {n + 1} \in SUBSET Nat, Smallest
  <2>2. NextRequest(requests_, c, key) = n + 1
    BY <1>5, <1>6, <2>1
  <2>3. DistanceToNextRequest(key) = n
    BY <1>1, <1>2, <1>4, <1>6 DEF DistanceToNextRequest
  <2>. QED
    BY <1>1, <1>2, <2>2, <2>3
<1>7. CASE next # {}
  <2>1. next \in SUBSET Nat /\ next \cup {n + 1} \in SUBSET Nat
    BY <1>4
  <2>2. PICK least \in next : least = Min(next) /\ \A m \in next : least <= m
    BY <1>7, <2>1, Smallest
  <2>3. PICK first \in next \cup {n + 1} :
          first = Min(next \cup {n + 1}) /\ \A m \in next \cup {n + 1} : first <= m
    BY <2>1, Smallest
  <2>4. least \in c..n /\ first = least
    BY <1>4, <2>2, <2>3
  <2>5. DistanceToNextRequest(key) = least - c
    BY <1>1, <1>2, <1>4, <1>7, <2>2 DEF DistanceToNextRequest
  <2>. QED
    BY <1>1, <1>2, <1>3, <1>5, <2>3, <2>4, <2>5
<1>. QED
  BY <1>6, <1>7

\* The record that findResidentToEvict finds is one whose next request is the
\* farthest away; a page never requested again is farther than all others.
LEMMA ResidentToEvictFacts ==
  ASSUME Inv, cache_ # <<>>
  PROVE  /\ ResidentToEvict \in ToSet(cache_)
         /\ IsFarthest(requests_, currentRequest_, ToSet(cache_), ResidentToEvict)
<1>. DEFINE Farthest(key) == \A other \in ToSet(cache_) :
                               DistanceToNextRequest(other) <= DistanceToNextRequest(key)
            farthest == {i \in 1..Len(cache_) : Farthest(cache_[i])}
<1>1. /\ cache_ \in Seq(Key) /\ Len(cache_) \in Nat /\ Len(cache_) > 0
      /\ ToSet(cache_) = {cache_[i] : i \in 1..Len(cache_)}
  <2>1. Len(cache_) > 0
    BY InvFacts
  <2>. QED
    BY <2>1, InvFacts DEF ToSet
<1>2. PICK n \in Nat : n = Len(requests_)
  BY InvFacts
<1>3. PICK c \in 1..(n + 1) : c = currentRequest_
  BY <1>2, InvFacts
<1>4. \A a, b : DistanceToNextRequest(a) <= DistanceToNextRequest(b)
                  <=> NextRequest(requests_, c, a) <= NextRequest(requests_, c, b)
  <2>. TAKE a, b
  <2>1. PICK x \in c..(n + 1) : x = NextRequest(requests_, c, a)
    BY <1>2, <1>3, DistanceFacts
  <2>2. PICK y \in c..(n + 1) : y = NextRequest(requests_, c, b)
    BY <1>2, <1>3, DistanceFacts
  <2>3. DistanceToNextRequest(a) = IF x = n + 1 THEN n ELSE x - c
    BY <1>2, <1>3, <2>1, DistanceFacts
  <2>4. DistanceToNextRequest(b) = IF y = n + 1 THEN n ELSE y - c
    BY <1>2, <1>3, <2>2, DistanceFacts
  <2>5. (IF x = n + 1 THEN n ELSE x - c) <= (IF y = n + 1 THEN n ELSE y - c) <=> x <= y
    OBVIOUS
  <2>. QED
    BY <2>1, <2>2, <2>3, <2>4, <2>5
<1>5. \A key : Farthest(key) <=> IsFarthest(requests_, c, ToSet(cache_), key)
  BY <1>4 DEF IsFarthest
<1>6. farthest # {}
  <2>1. ToSet(cache_) # {}
    BY <1>1
  <2>2. PICK victim \in ToSet(cache_) : IsFarthest(requests_, c, ToSet(cache_), victim)
    BY <1>2, <2>1, FarthestExists
  <2>. HIDE DEF Farthest
  <2>. QED
    BY <1>1, <1>5, <2>2
<1>7. farthest \in SUBSET (1..Len(cache_))
  OBVIOUS
<1>8. Max(farthest) \in farthest
  BY <1>1, <1>6, <1>7, Greatest
<1>9. ResidentToEvict = cache_[Max(farthest)]
  BY <1>6 DEF ResidentToEvict, SelectLastInSeq
<1>10. PICK p \in 1..Len(cache_) : ResidentToEvict = cache_[p] /\ Farthest(cache_[p])
  BY <1>8, <1>9
<1>. HIDE DEF Farthest, farthest
<1>. QED
  BY <1>1, <1>3, <1>5, <1>10

\* What insert does to a full list: one record goes, key's comes first.
LEMMA InsertFullFacts ==
  ASSUME Inv, NEW key \in Key, Insert(key), IsFull
  PROVE  \E victim \in ToSet(cache_) :
           /\ IsFarthest(requests_, currentRequest_, ToSet(cache_), victim)
           /\ cache_' \in Seq(Key)
           /\ Len(cache_') = Len(cache_)
           /\ IsInjective(cache_')
           /\ ToSet(cache_') = (ToSet(cache_) \ {victim}) \cup {key}
           /\ pageIndex_' = (ToSet(cache_) \ {victim}) \cup {key}
<1>1. /\ cache_ \in Seq(Key) /\ Len(cache_) \in Nat /\ Len(cache_) >= 1 /\ cache_ # <<>>
      /\ IsInjective(cache_) /\ pageIndex_ = ToSet(cache_)
      /\ key \notin ToSet(cache_)
  BY InvFacts DEF IsFull, Insert
<1>2. PICK victim : victim = ResidentToEvict
  OBVIOUS
<1>3. /\ victim \in ToSet(cache_)
      /\ IsFarthest(requests_, currentRequest_, ToSet(cache_), victim)
  BY <1>1, <1>2, ResidentToEvictFacts
<1>4. PICK kept \in Seq(Key) : kept = RemoveFirst(cache_, victim)
  BY <1>1, <1>3, RemoveFirstFacts
<1>5. /\ Len(kept) = Len(cache_) - 1 /\ IsInjective(kept)
      /\ ToSet(kept) = ToSet(cache_) \ {victim}
  BY <1>1, <1>3, <1>4, RemoveFirstFacts
<1>6. key \notin ToSet(kept)
  BY <1>1, <1>5
<1>7. /\ Cons(key, kept) \in Seq(Key) /\ Len(Cons(key, kept)) = Len(kept) + 1
      /\ IsInjective(Cons(key, kept))
      /\ ToSet(Cons(key, kept)) = ToSet(kept) \cup {key}
  <2>1. /\ Cons(key, kept) \in Seq(Key)
        /\ Len(Cons(key, kept)) = Len(kept) + 1
        /\ ToSet(Cons(key, kept)) = ToSet(kept) \cup {key}
        /\ key \notin ToSet(kept) /\ IsInjective(kept) => IsInjective(Cons(key, kept))
    BY ConsFacts
  <2>. QED
    BY <1>5, <1>6, <2>1
<1>8. cache_' = Cons(key, kept) /\ pageIndex_' = (pageIndex_ \cup {key}) \ {victim}
  BY <1>2, <1>4 DEF Insert
<1>9. pageIndex_' = (ToSet(cache_) \ {victim}) \cup {key}
  BY <1>1, <1>3, <1>8
<1>. QED
  BY <1>1, <1>3, <1>5, <1>7, <1>8, <1>9

\* What insert does to a list that is not full: key's record comes first.
LEMMA InsertRoomFacts ==
  ASSUME Inv, NEW key \in Key, Insert(key), ~IsFull
  PROVE  /\ cache_' \in Seq(Key)
         /\ Len(cache_') = Len(cache_) + 1
         /\ Len(cache_') <= Capacity
         /\ IsInjective(cache_')
         /\ ToSet(cache_') = ToSet(cache_) \cup {key}
         /\ pageIndex_' = ToSet(cache_) \cup {key}
<1>1. /\ cache_ \in Seq(Key) /\ Len(cache_) \in Nat /\ Capacity \in Nat
      /\ IsInjective(cache_) /\ pageIndex_ = ToSet(cache_)
      /\ key \notin ToSet(cache_)
  BY InvFacts DEF Insert
<1>2. Len(cache_) + 1 <= Capacity
  BY <1>1 DEF IsFull
<1>3. PICK kept \in Seq(Key) : kept = cache_
  BY <1>1
<1>4. /\ Cons(key, kept) \in Seq(Key)
      /\ Len(Cons(key, kept)) = Len(kept) + 1
      /\ ToSet(Cons(key, kept)) = ToSet(kept) \cup {key}
      /\ key \notin ToSet(kept) /\ IsInjective(kept) => IsInjective(Cons(key, kept))
  BY ConsFacts
<1>5. IsInjective(Cons(key, kept))
  BY <1>1, <1>3, <1>4
<1>6. cache_' = Cons(key, cache_) /\ pageIndex_' = pageIndex_ \cup {key}
  BY DEF Insert
<1>. QED
  BY <1>1, <1>2, <1>3, <1>4, <1>5, <1>6

\* Nothing is cached at first.
LEMMA InitInv == Init => Inv
<1>. SUFFICES ASSUME Init PROVE Inv
  OBVIOUS
<1>1. <<>> \in Seq(Key) /\ Len(<<>>) = 0 /\ DOMAIN <<>> = {}
  BY EmptySeq
<1>2. ToSet(cache_) = {} /\ IsInjective(cache_)
  BY <1>1 DEF Init, ToSet, IsInjective
<1>3. requests_ \in Seq(Key) /\ currentRequest_ \in 1..(Len(requests_) + 1)
  BY RequestsAssumption DEF Init
<1>. QED
  BY <1>1, <1>2, <1>3, CapacityAssumption, MaxDepthAssumption
     DEF Init, Inv, TypeOK, IndexConsistent, Resident, CallsTypeOK

\* A request is consumed at once; the cursor stays within the sequence.
LEMMA AcceptFacts ==
  ASSUME Inv, NEW key, Accept(key)
  PROVE  /\ requests_' = requests_
         /\ currentRequest_' = currentRequest_ + 1
         /\ currentRequest_ \in 1..Len(requests_)
         /\ key = requests_[currentRequest_]
         /\ currentRequest_' \in 1..(Len(requests_') + 1)
BY InvFacts DEF Accept

\* Every action preserves the invariant.
LEMMA NextInv == Inv /\ [Next]_vars => Inv'
<1>. SUFFICES ASSUME Inv, [Next]_vars PROVE Inv'
  OBVIOUS
<1>. USE DEF Resident
<1>1. ASSUME NEW key \in Key, Hit(key) PROVE Inv'
  <2>1. requests_' = requests_ /\ currentRequest_' \in 1..(Len(requests_') + 1)
    BY <1>1, AcceptFacts DEF Hit
  <2>. QED
    BY <1>1, <2>1 DEF Hit, Inv, TypeOK, IndexConsistent, CallsTypeOK
<1>2. ASSUME NEW key \in Key, Miss(key) PROVE Inv'
  <2>1. CallsTypeOK'
    BY <1>2, InvFacts, EnterKeepsCalls DEF Miss
  <2>2. requests_' = requests_ /\ currentRequest_' \in 1..(Len(requests_') + 1)
    BY <1>2, AcceptFacts DEF Miss
  <2>. QED
    BY <1>2, <2>1, <2>2 DEF Miss, store, Inv, TypeOK, IndexConsistent
<1>3. ASSUME NEW key \in Key, Insert(key) PROVE Inv'
  <2>1. CallsTypeOK' /\ UNCHANGED <<requests_, currentRequest_>>
    BY <1>3, InvFacts, LeaveKeepsCalls DEF Insert
  <2>2. CASE IsFull
    <3>1. /\ cache_' \in Seq(Key)
          /\ Len(cache_') = Len(cache_)
          /\ IsInjective(cache_')
          /\ pageIndex_' = ToSet(cache_')
          /\ ToSet(cache_') \subseteq Key
      BY <1>3, <2>2, InsertFullFacts, InvFacts
    <3>. QED
      BY <2>1, <3>1, InvFacts DEF Inv, TypeOK, IndexConsistent
  <2>3. CASE ~IsFull
    <3>1. /\ cache_' \in Seq(Key)
          /\ Len(cache_') <= Capacity
          /\ IsInjective(cache_')
          /\ pageIndex_' = ToSet(cache_')
          /\ ToSet(cache_') \subseteq Key
      BY <1>3, <2>3, InsertRoomFacts, InvFacts
    <3>. QED
      BY <2>1, <3>1, InvFacts DEF Inv, TypeOK, IndexConsistent
  <2>. QED
    BY <2>2, <2>3
<1>4. ASSUME NEW key \in Key, InsertThrows(key) PROVE Inv'
  <2>1. CallsTypeOK'
    BY <1>4, InvFacts, LeaveKeepsCalls DEF InsertThrows
  <2>2. pageIndex_' = pageIndex_
    BY <1>4 DEF InsertThrows
  <2>. QED
    BY <1>4, <2>1, <2>2 DEF InsertThrows, Inv, TypeOK, IndexConsistent
<1>5. ASSUME NEW key \in Key, InsertDuplicate(key) \/ LoadThrows(key) PROVE Inv'
  <2>1. CallsTypeOK'
    BY <1>5, InvFacts, LeaveKeepsCalls DEF InsertDuplicate, LoadThrows
  <2>. QED
    BY <1>5, <2>1 DEF InsertDuplicate, LoadThrows, Inv, TypeOK, IndexConsistent
<1>6. ASSUME UNCHANGED vars PROVE Inv'
  BY <1>6 DEF vars, Inv, TypeOK, IndexConsistent, CallsTypeOK
<1>. QED
  BY <1>1, <1>2, <1>3, <1>4, <1>5, <1>6 DEF Next

\* The REF cache's records are consistent with its index, and its cursor is
\* within its sequence, at all times.
THEOREM IndexCorrect == Spec => []IndexConsistent
<1>1. Inv => IndexConsistent
  BY DEF Inv
<1>. QED
  BY <1>1, InitInv, NextInv, PTL DEF Spec

\* The contract's calling protocol is the one of this module.
LEMMA SameProtocol ==
  /\ \A key : Contract!Leave(key) <=> Leave(key)
  /\ \A key : Contract!Enter(key) <=> Enter(key)
  /\ \A S : Contract!Cardinality(S) = Cardinality(S)
<1>1. \A key : Contract!Leave(key) <=> Leave(key)
  BY DEF Contract!Leave, Contract!Last, Contract!Front, Leave, Last, Front
<1>2. \A key : Contract!Enter(key) <=> Enter(key)
  BY DEF Contract!Enter, Enter
<1>3. \A S : Contract!Cardinality(S) = Cardinality(S)
  BY DEF Contract!Cardinality, Cardinality
<1>. QED
  BY <1>1, <1>2, <1>3

\* Every step of the REF cache is a step that a client of Cache may see.
LEMMA StepRefines ==
  ASSUME Inv, [Next]_vars
  PROVE  [Contract!Next]_(Contract!vars)
<1>1. /\ IsFiniteSet(ToSet(cache_))
      /\ Cardinality(ToSet(cache_)) = Len(cache_)
      /\ pageIndex_ = ToSet(cache_)
  BY InvFacts, InjectiveCardinality
<1>2. ASSUME NEW key \in Key, Hit(key) PROVE UNCHANGED Contract!vars
  BY <1>2 DEF Hit, Contract!vars
<1>3. ASSUME NEW key \in Key, Miss(key) PROVE Contract!Miss(key)
  BY <1>3, SameProtocol DEF Miss, store, Contract!Miss
<1>4. ASSUME NEW key \in Key, Insert(key) PROVE Contract!Insert(key)
  <2>1. key \notin pageIndex_ /\ Contract!Leave(key)
    BY <1>4, SameProtocol DEF Insert
  <2>2. CASE IsFull
    <3>1. PICK victim \in ToSet(cache_) :
            pageIndex_' = (ToSet(cache_) \ {victim}) \cup {key}
      BY <1>4, <2>2, InsertFullFacts
    <3>2. Len(cache_) >= Capacity /\ Len(cache_) \in Nat /\ Capacity \in Nat
      BY <2>2, InvFacts DEF IsFull
    <3>3. ~(Contract!Cardinality(pageIndex_) < Capacity)
      BY <1>1, <3>2, SameProtocol
    <3>. QED
      BY <1>1, <2>1, <3>1, <3>3 DEF Contract!Insert
  <2>3. CASE ~IsFull
    <3>1. pageIndex_' = ToSet(cache_) \cup {key}
      BY <1>4, <2>3, InsertRoomFacts
    <3>2. Contract!Cardinality(pageIndex_) < Capacity
      BY <1>1, <2>3, InvFacts, SameProtocol DEF IsFull
    <3>. QED
      BY <1>1, <2>1, <3>1, <3>2 DEF Contract!Insert
  <2>. QED
    BY <2>2, <2>3
<1>5. ASSUME NEW key \in Key,
             InsertThrows(key) \/ InsertDuplicate(key) \/ LoadThrows(key)
      PROVE  Contract!Fail(key)
  <2>1. Contract!Leave(key)
    BY <1>5, SameProtocol DEF InsertThrows, InsertDuplicate, LoadThrows
  <2>2. pageIndex_' = pageIndex_
    BY <1>5 DEF InsertThrows, InsertDuplicate, LoadThrows
  <2>. QED
    BY <2>1, <2>2 DEF Contract!Fail
<1>6. ASSUME UNCHANGED vars PROVE UNCHANGED Contract!vars
  BY <1>6 DEF vars, Contract!vars
<1>7. CASE Next
  BY <1>2, <1>3, <1>4, <1>5, <1>7 DEF Next, Contract!Next
<1>. QED
  BY <1>6, <1>7

\* CacheREF implements the contract of Cache::lookupUpdate: the keys of its
\* index change only as the contract allows, and they are those of its list.
THEOREM Refinement == Spec => ImplementsCache
<1>1. Init => Contract!Init
  BY DEF Init, Contract!Init
<1>2. Inv /\ [Next]_vars => [Contract!Next]_(Contract!vars)
  BY StepRefines
<1>3. Inv /\ [Next]_vars => [IndexConsistent']_vars
  BY NextInv DEF Inv
<1>. QED
  BY <1>1, <1>2, <1>3, InitInv, NextInv, PTL DEF Spec, ImplementsCache, Contract!Spec

-----------------------------------------------------------------------------
(***************************************************************************)
(* The REF cache reaches the minimum.                                      *)
(***************************************************************************)

\* What is still needed from position i on, and the total.
Rest(i, cached) == MinMissesFrom(requests_, Capacity)[i][cached]
Total == MinMisses(requests_, Capacity)

\* As long as every load has succeeded and none has called the cache again, the
\* misses so far and those the best cache still needs add up to the minimum;
\* while the page of a request is being loaded its miss is counted already.
OnCourseREF ==
  /\ Resident \subseteq ToSet(requests_)
  /\ calls = <<>> => amountMisses + Rest(currentRequest_, Resident) = Total
  /\ calls # <<>> =>
       /\ Len(calls) = 1
       /\ currentRequest_ > 1
       /\ calls[1] = requests_[currentRequest_ - 1]
       /\ amountMisses + Rest(currentRequest_ - 1, Resident) = Total + 1

\* The inductive invariant of the history.
HistoryInv ==
  /\ Inv
  /\ amountMisses \in Nat
  /\ ~ disturbed => OnCourseREF

\* The table that the best cache's misses are read from.
LEMMA RestFacts ==
  ASSUME Inv
  PROVE  /\ IsTable(MinMissesFrom(requests_, Capacity), requests_, Capacity)
         /\ Total \in Nat
         /\ \A i \in 1..(Len(requests_) + 1) : \A cached \in SUBSET ToSet(requests_) :
              Rest(i, cached) \in Nat
<1>1. requests_ \in Seq(ToSet(requests_)) /\ Len(requests_) \in Nat
  BY InvFacts, SeqOfElements
<1>2. IsTable(MinMissesFrom(requests_, Capacity), requests_, Capacity)
  BY <1>1, CapacityAssumption DEF IsTable
<1>3. \A i \in 1..(Len(requests_) + 1) : \A cached \in SUBSET ToSet(requests_) :
        MinMissesFrom(requests_, Capacity)[i][cached] \in Nat
  BY <1>2, BestIsNat
<1>4. 1 \in 1..(Len(requests_) + 1) /\ {} \in SUBSET ToSet(requests_)
  BY <1>1
<1>. QED
  BY <1>2, <1>3, <1>4 DEF Rest, Total, MinMisses

\* A call of an idle cache that has been on course all along.
LEMMA CallOnCourse ==
  ASSUME HistoryInv, NEW key \in Key, Call(key), ~ disturbed'
  PROVE  OnCourseREF'
<1>1. /\ ~ disturbed /\ calls = <<>>
      /\ OnCourseREF
      /\ Inv
      /\ amountMisses \in Nat
  BY DEF Call, HistoryInv
<1>2. /\ requests_' = requests_
      /\ currentRequest_' = currentRequest_ + 1
      /\ currentRequest_ \in 1..Len(requests_)
      /\ key = requests_[currentRequest_]
      /\ cache_' = cache_
  BY <1>1, AcceptFacts DEF Call, Hit, Miss, store
<1>3. /\ Resident' = Resident
      /\ Rest(currentRequest_, Resident)' = Rest(currentRequest_ + 1, Resident)
      /\ Rest(currentRequest_ - 1, Resident)' = Rest(currentRequest_, Resident)
      /\ Total' = Total
  BY <1>2, InvFacts, <1>1 DEF Resident, Rest, Total
<1>4. CASE Hit(key) /\ UNCHANGED amountMisses
  <2>1. calls' = <<>> /\ key \in Resident
    BY <1>1, <1>4, InvFacts DEF Hit, Resident
  <2>2. Rest(currentRequest_, Resident) = Rest(currentRequest_ + 1, Resident)
    BY <1>1, <1>2, <2>1, RestFacts, BestHit DEF Rest, OnCourseREF
  <2>. QED
    BY <1>1, <1>2, <1>3, <1>4, <2>1, <2>2 DEF OnCourseREF
<1>5. CASE Miss(key) /\ amountMisses' = amountMisses + 1
  <2>1. Len(calls') = 1 /\ calls'[1] = key /\ calls' # <<>>
    BY <1>1, <1>5 DEF Miss, Enter
  <2>2. currentRequest_' - 1 = currentRequest_ /\ currentRequest_' > 1
    BY <1>2
  <2>3. Rest(currentRequest_, Resident) \in Nat /\ Total \in Nat
    BY <1>1, <1>2, RestFacts, InvFacts DEF OnCourseREF
  <2>4. amountMisses' + Rest(currentRequest_, Resident) = Total + 1
    BY <1>1, <1>5, <2>3 DEF OnCourseREF
  <2>. QED
    BY <1>1, <1>2, <1>3, <2>1, <2>2, <2>4 DEF OnCourseREF
<1>. QED
  BY <1>4, <1>5 DEF Call

\* The page of the only call is stored.
LEMMA AnswerOnCourse ==
  ASSUME HistoryInv, NEW key \in Key, Answer(key), ~ disturbed'
  PROVE  OnCourseREF'
<1>1. /\ ~ disturbed /\ OnCourseREF /\ Inv /\ amountMisses \in Nat
      /\ amountMisses' = amountMisses
      /\ Insert(key)
  BY DEF Answer, HistoryInv
<1>2. /\ calls # <<>> /\ Len(calls) = 1 /\ calls[1] = key /\ calls' = <<>>
      /\ key \notin Resident
      /\ requests_' = requests_ /\ currentRequest_' = currentRequest_
  BY <1>1, InvFacts DEF Insert, Leave, OnCourseREF, Last, Front, CallsTypeOK, Resident
<1>3. PICK i \in 1..Len(requests_) : i = currentRequest_ - 1
  BY <1>1, <1>2, InvFacts DEF OnCourseREF
<1>4. /\ currentRequest_ = i + 1
      /\ key = requests_[i]
      /\ amountMisses + Rest(i, Resident) = Total + 1
      /\ Resident \in SUBSET ToSet(requests_)
      /\ key \in ToSet(requests_)
  <2>1. currentRequest_ = i + 1
    BY <1>3, InvFacts, <1>1
  <2>2. requests_[i] \in ToSet(requests_)
    BY <1>1, RestFacts, TableFacts
  <2>. QED
    BY <1>1, <1>2, <1>3, <2>1, <2>2 DEF OnCourseREF
<1>5. Resident' \subseteq ToSet(requests_) /\ Rest(i, Resident) = 1 + Rest(i + 1, Resident')
  <2>1. Cardinality(Resident) = Len(cache_)
    BY <1>1, InvFacts, InjectiveCardinality DEF Resident
  <2>2. CASE IsFull
    <3>1. PICK victim \in ToSet(cache_) :
            /\ IsFarthest(requests_, currentRequest_, ToSet(cache_), victim)
            /\ ToSet(cache_') = (ToSet(cache_) \ {victim}) \cup {key}
      BY <1>1, <2>2, InsertFullFacts
    <3>2. victim \in Resident /\ IsFarthest(requests_, i + 1, Resident, victim)
      BY <1>4, <3>1 DEF Resident
    <3>3. Cardinality(Resident) = Capacity
      BY <1>1, <2>1, <2>2, InvFacts DEF IsFull
    <3>4. requests_[i] \notin Resident
      BY <1>2, <1>4
    <3>5. PICK best : best = MinMissesFrom(requests_, Capacity)
      OBVIOUS
    <3>6. IsTable(best, requests_, Capacity)
      BY <1>1, <3>5, RestFacts
    <3>7. best[i][Resident] = 1 + best[i + 1][(Resident \ {victim}) \cup {requests_[i]}]
      BY <1>4, <3>2, <3>3, <3>4, <3>6, FarthestIsBest
    <3>8. Resident' = (Resident \ {victim}) \cup {key}
      BY <3>1 DEF Resident
    <3>. QED
      BY <1>4, <3>5, <3>7, <3>8 DEF Rest
  <2>3. CASE ~IsFull
    <3>1. Cardinality(Resident) < Capacity
      BY <1>1, <2>1, <2>3, InvFacts DEF IsFull
    <3>2. requests_[i] \notin Resident
      BY <1>2, <1>4
    <3>3. MinMissesFrom(requests_, Capacity)[i][Resident]
            = 1 + MinMissesFrom(requests_, Capacity)[i + 1][Resident \cup {requests_[i]}]
      BY <1>1, <1>4, <3>1, <3>2, RestFacts, BestRoom
    <3>4. Resident' = Resident \cup {key}
      BY <1>1, <2>3, InsertRoomFacts DEF Resident
    <3>. QED
      BY <1>4, <3>3, <3>4 DEF Rest
  <2>. QED
    BY <2>2, <2>3
<1>6. Rest(i + 1, Resident') \in Nat /\ Total \in Nat
  <2>1. i + 1 \in 1..(Len(requests_) + 1)
    BY <1>1, InvFacts
  <2>. QED
    BY <1>1, <1>5, <2>1, RestFacts
<1>7. amountMisses + Rest(i + 1, Resident') = Total
  BY <1>1, <1>4, <1>5, <1>6
<1>8. /\ Rest(currentRequest_, Resident)' = Rest(i + 1, Resident')
      /\ Total' = Total
  BY <1>2, <1>4 DEF Rest, Total
<1>. QED
  BY <1>1, <1>2, <1>5, <1>7, <1>8 DEF OnCourseREF

\* Nothing is missed before the first request.
LEMMA HistoryInitInv == HistoryInit => HistoryInv
<1>. SUFFICES ASSUME HistoryInit PROVE HistoryInv
  OBVIOUS
<1>1. Inv
  BY InitInv DEF HistoryInit
<1>2. ToSet(cache_) = {}
  BY EmptySeq DEF HistoryInit, Init, ToSet
<1>3. Rest(1, {}) = Total /\ Total \in Nat
  BY <1>1, RestFacts DEF Rest, Total, MinMisses
<1>. QED
  BY <1>1, <1>2, <1>3 DEF HistoryInit, Init, HistoryInv, OnCourseREF, Resident

\* Every step keeps the invariant of the history.
LEMMA HistoryNextInv == HistoryInv /\ [HistoryNext]_historyVars => HistoryInv'
<1>. SUFFICES ASSUME HistoryInv, [HistoryNext]_historyVars PROVE HistoryInv'
  OBVIOUS
<1>1. Inv'
  <2>1. [Next]_vars
    BY DEF HistoryNext, historyVars, vars, Next, Call, Answer, Failure
  <2>. QED
    BY <2>1, NextInv DEF HistoryInv
<1>2. ASSUME NEW key \in Key, Call(key) PROVE HistoryInv'
  <2>1. amountMisses' \in Nat
    BY <1>2 DEF Call, HistoryInv
  <2>. QED
    BY <1>1, <1>2, <2>1, CallOnCourse DEF HistoryInv
<1>3. ASSUME NEW key \in Key, Answer(key) PROVE HistoryInv'
  <2>1. amountMisses' \in Nat
    BY <1>3 DEF Answer, HistoryInv
  <2>. QED
    BY <1>1, <1>3, <2>1, AnswerOnCourse DEF HistoryInv
<1>4. ASSUME NEW key \in Key, Failure(key) PROVE HistoryInv'
  BY <1>1, <1>4 DEF Failure, HistoryInv
<1>5. ASSUME UNCHANGED historyVars PROVE HistoryInv'
  <2>1. OnCourseREF' <=> OnCourseREF
    BY <1>5 DEF historyVars, OnCourseREF, Rest, Total, Resident
  <2>. QED
    BY <1>1, <1>5, <2>1 DEF historyVars, HistoryInv
<1>. QED
  BY <1>2, <1>3, <1>4, <1>5 DEF HistoryNext

\* The REF cache is the lower bound the benchmarks take it for: whatever the
\* request sequence and the cache size, no cache that loads on demand serves
\* the sequence with fewer misses, as long as every load succeeds and none
\* calls the cache again.
THEOREM NeverWorse == HistorySpec => []NeverWorseThanBest
<1>1. HistoryInv => NeverWorseThanBest
  BY DEF HistoryInv, OnCourseREF, NeverWorseThanBest, Rest, Total
<1>. QED
  BY <1>1, HistoryInitInv, HistoryNextInv, PTL DEF HistorySpec

-----------------------------------------------------------------------------
(***************************************************************************)
(* The invariant.                                                          *)
(***************************************************************************)

Studies == [number : Nat, patterns : Seq(STRING), totals : Seq(Nat)]

PointRecords == [study : Nat, pattern : STRING, total : Nat]

Contents == {None, Torn} \cup [kind : {"records"}, list : Seq(PointRecords)]

Manifests ==
  [kind : {"manifest"}, study : Studies, status : {"running", "complete"},
   resultsHash : Contents, validated : Contents]

Phases ==
  {"idle", "manifest", "search", "shutdown", "complete", "render", "hashes", "validated"}

States == {"pending", "running", "done", "failed", "cancelled"}

\* The tasks of the pool exist from the first write of the manifest to the last.
Pooled == {"search", "shutdown", "complete"}

FilesInv ==
  /\ manifest \in {None, Torn} \cup Manifests
  /\ results \in Contents
  /\ main \in Phases

StudyInv ==
  /\ study \in Studies /\ study.number <= MaxStudies
  /\ ToSet(study.patterns) \subseteq Pattern
  /\ main \in Pooled \cup {"manifest"} => study.totals # <<>>

\* Each task has the first records of its pattern, all of them once it is done.
TaskInv(pattern) ==
  LET found == tasks[pattern].records
  IN /\ Len(found) <= Len(study.totals)
     /\ \A j \in 1..Len(found) : found[j] = Record(pattern, study.totals[j])
     /\ tasks[pattern].state = "done" => Len(found) = Len(study.totals)

PoolInv ==
  /\ IF main \in Pooled
     THEN tasks \in [ToSet(study.patterns) -> [state : States, records : Seq(PointRecords)]]
     ELSE tasks = <<>>
  /\ \A pattern \in DOMAIN tasks : TaskInv(pattern)
  /\ IsFiniteSet(InState("running")) /\ Cardinality(InState("running")) <= Workers

\* What has been taken from the pool is the beginning of what is to be saved.
CollectedInv ==
  /\ collected \in Seq(PointRecords)
  /\ main = "search" =>
       \E k \in 0..Len(study.patterns) :
         /\ Len(collected) = k * Len(study.totals)
         /\ \A i \in 1..Len(collected) : collected[i] = StudyRecords(study)[i]

\* What the command running now has already written, or is about to write.
CommandInv ==
  /\ main \in Pooled => manifest = Manifest("running")
  /\ main = "complete" => results = Records(StudyRecords(study))
  /\ main \in {"render", "hashes", "validated"} => Readable(manifest)
  /\ main \in {"hashes", "validated"} => manifest.status = "complete" /\ Readable(results)
  /\ main = "hashes" => metadata = manifest /\ summary = results
  /\ main = "validated" => metadata = [manifest EXCEPT !.validated = results]

StudiesInv ==
  /\ FilesInv
  /\ StudyInv
  /\ PoolInv
  /\ CollectedInv
  /\ CommandInv
  /\ ManifestTruthful

-----------------------------------------------------------------------------

\* Quotient and remainder of a number that is given by them.
LEMMA Division ==
  ASSUME NEW k \in Nat, NEW n \in Nat, NEW r \in Nat, r < n
  PROVE  (k * n + r) \div n = k /\ (k * n + r) % n = r
<1>. DEFINE x == k * n + r
            q == x \div n
<1>1. x \in Nat /\ n > 0
  OBVIOUS
<1>2. q \in Int /\ x = n * q + (x % n) /\ x % n \in 0..(n-1)
  BY <1>1
<1>. HIDE DEF q
<1>3. n * (q - k) = r - (x % n)
  BY <1>2
<1>4. q - k < 1
  <2>1. SUFFICES ASSUME q - k >= 1 PROVE FALSE
    BY <1>2
  <2>2. n * (q - k) >= n
    BY <2>1, <1>1, <1>2
  <2>. QED
    BY <2>2, <1>2, <1>3
<1>5. q - k > -1
  <2>1. SUFFICES ASSUME q - k <= -1 PROVE FALSE
    BY <1>2
  <2>2. n * (k - q) >= n
    BY <2>1, <1>1, <1>2
  <2>. QED
    BY <2>2, <1>2, <1>3
<1>6. q = k
  BY <1>4, <1>5, <1>2
<1>. QED
  BY <1>2, <1>6 DEF q

\* A multiple of a positive number.
LEMMA Multiples ==
  ASSUME NEW n \in Nat, NEW k \in 0..n, NEW t \in Nat \ {0}
  PROVE  /\ k * t \in Nat /\ k * t <= n * t
         /\ (k + 1) * t = k * t + t
         /\ k < n => (k + 1) * t <= n * t
         /\ k * t = n * t => k = n
         /\ (k * t) \div t = k
<1>1. k * t \in Nat /\ n * t \in Nat /\ (k + 1) * t = k * t + t
  OBVIOUS
<1>2. PICK d \in Nat : n = k + d
  <2>1. n = k + (n - k) /\ n - k \in Nat
    OBVIOUS
  <2>. QED
    BY <2>1
<1>3. n * t = k * t + d * t
  BY <1>2
<1>4. d # 0 => d * t >= t
  OBVIOUS
<1>5. (k * t + 0) \div t = k
  BY Division
<1>6. d * t \in Nat /\ k * t + 0 = k * t
  BY <1>1
<1>7. k * t = n * t => k = n
  BY <1>1, <1>2, <1>3, <1>4, <1>6
<1>8. k < n => (k + 1) * t <= n * t
  BY <1>1, <1>2, <1>3, <1>4, <1>6
<1>. QED
  BY <1>1, <1>3, <1>5, <1>6, <1>7, <1>8

\* The position of a point of a study among its records.
LEMMA StudyPositions ==
  ASSUME NEW of \in Studies, of.totals # <<>>,
         NEW k \in 0..(Len(of.patterns) - 1), NEW j \in 1..Len(of.totals)
  PROVE  LET i == k * Len(of.totals) + j
         IN /\ i \in 1..(Len(of.patterns) * Len(of.totals))
            /\ StudyRecords(of)[i] =
                 [study |-> of.number, pattern |-> of.patterns[k + 1], total |-> of.totals[j]]
<1>. DEFINE n == Len(of.patterns)
            t == Len(of.totals)
            i == k * t + j
<1>1. n \in Nat /\ t \in Nat \ {0} /\ k \in Nat /\ j \in 1..t
  BY DEF Studies
<1>2. k \in 0..n /\ k < n
  BY <1>1
<1>. HIDE DEF n, t
<1>3. k * t \in Nat /\ k * t + t <= n * t /\ n * t \in Nat
  <2>1. (k + 1) * t = k * t + t /\ (k < n => (k + 1) * t <= n * t) /\ k * t \in Nat
    BY <1>1, <1>2, Multiples
  <2>. QED
    BY <2>1, <1>1, <1>2
<1>4. k * t + j \in 1..(n * t)
  <2>. DEFINE a == k * t
              b == n * t
  <2>. HIDE DEF a, b
  <2>1. a + j \in 1..b
    BY <1>1, <1>3 DEF a, b
  <2>. QED
    BY <2>1 DEF a, b
<1>5. (k * t + (j - 1)) \div t = k /\ (k * t + (j - 1)) % t = j - 1
  <2>1. j - 1 \in Nat /\ j - 1 < t
    BY <1>1
  <2>. QED
    BY <1>1, <2>1, Division
<1>6. (k * t + j) - 1 = k * t + (j - 1)
  BY <1>1, <1>3
<1>7. (i - 1) \div t = k /\ (i - 1) % t = j - 1
  BY <1>5, <1>6
<1>8. 1 + k = k + 1 /\ 1 + (j - 1) = j
  BY <1>1
<1>9. i \in 1..(n * t)
  BY <1>4
<1>. HIDE DEF i
<1>10. StudyRecords(of)[i] =
        [study   |-> of.number,
         pattern |-> of.patterns[1 + ((i - 1) \div t)],
         total   |-> of.totals[1 + ((i - 1) % t)]]
  BY <1>9 DEF StudyRecords, n, t
<1>11. StudyRecords(of)[i] =
         [study |-> of.number, pattern |-> of.patterns[k + 1], total |-> of.totals[j]]
  BY <1>7, <1>8, <1>10
<1>. QED
  BY <1>9, <1>11 DEF n, t, i

\* A list with a record for each point, each in its place, is what a study saves.
LEMMA CollectedAll ==
  ASSUME NEW of \in Studies, NEW list \in Seq(PointRecords),
         Len(list) = Len(of.patterns) * Len(of.totals),
         \A i \in 1..Len(list) : list[i] = StudyRecords(of)[i]
  PROVE  list = StudyRecords(of)
<1>1. list = [i \in 1..Len(list) |-> list[i]]
  OBVIOUS
<1>2. StudyRecords(of) = [i \in 1..Len(list) |-> StudyRecords(of)[i]]
  BY DEF StudyRecords
<1>. QED
  BY <1>1, <1>2

\* The records of the next pattern follow those of the patterns before it.
LEMMA CollectedNext ==
  ASSUME NEW of \in Studies, of.totals # <<>>,
         NEW k \in 0..(Len(of.patterns) - 1),
         NEW list \in Seq(PointRecords), Len(list) = k * Len(of.totals),
         \A i \in 1..Len(list) : list[i] = StudyRecords(of)[i],
         NEW found \in Seq(PointRecords), Len(found) = Len(of.totals),
         \A j \in 1..Len(found) :
           found[j] = [study |-> of.number, pattern |-> of.patterns[k + 1], total |-> of.totals[j]]
  PROVE  /\ list \o found \in Seq(PointRecords)
         /\ Len(list \o found) = (k + 1) * Len(of.totals)
         /\ \A i \in 1..Len(list \o found) : (list \o found)[i] = StudyRecords(of)[i]
<1>. DEFINE t == Len(of.totals)
<1>1. t \in Nat \ {0} /\ k \in 0..Len(of.patterns) /\ Len(of.patterns) \in Nat /\ k \in Nat
  BY DEF Studies
<1>. HIDE DEF t
<1>2. (k + 1) * t = k * t + t
  BY <1>1, Multiples
<1>3. Len(list \o found) = (k + 1) * t
  <2>1. Len(list \o found) = Len(list) + Len(found)
    BY ConcatProperties
  <2>2. Len(list) = k * t /\ Len(found) = t
    BY DEF t
  <2>. QED
    BY <1>2, <2>1, <2>2
<1>4. ASSUME NEW i \in 1..Len(list \o found)
      PROVE  (list \o found)[i] = StudyRecords(of)[i]
  <2>1. CASE i <= Len(list)
    BY <2>1
  <2>2. CASE i > Len(list)
    <3>1. PICK j \in 1..Len(found) : i = Len(list) + j
      <4>1. i - Len(list) \in 1..Len(found) /\ i = Len(list) + (i - Len(list))
        BY <2>2
      <4>. QED
        BY <4>1
    <3>2. (list \o found)[i] = found[j]
      BY <3>1
    <3>3. j \in 1..Len(of.totals) /\ i = k * Len(of.totals) + j
      BY <3>1
    <3>4. StudyRecords(of)[i] =
            [study |-> of.number, pattern |-> of.patterns[k + 1], total |-> of.totals[j]]
      BY <3>3, StudyPositions
    <3>. QED
      BY <3>2, <3>4
  <2>. QED
    BY <2>1, <2>2
<1>5. list \o found \in Seq(PointRecords)
  OBVIOUS
<1>6. Len(list \o found) = (k + 1) * Len(of.totals)
  BY <1>3 DEF t
<1>. QED
  BY <1>4, <1>5, <1>6

\* A task that changes its state keeps its records, and the others are as they
\* were.
LEMMA TaskMoves ==
  ASSUME PoolInv, main \in Pooled, NEW pattern \in DOMAIN tasks, NEW state \in States,
         tasks' = [tasks EXCEPT ![pattern].state = state]
  PROVE  /\ tasks' \in [ToSet(study.patterns) -> [state : States, records : Seq(PointRecords)]]
         /\ DOMAIN tasks' = DOMAIN tasks
         /\ \A p \in DOMAIN tasks :
              /\ tasks'[p].records = tasks[p].records
              /\ tasks'[p].state = IF p = pattern THEN state ELSE tasks[p].state
         /\ InState("running")' =
              IF state = "running" THEN InState("running") \cup {pattern}
              ELSE InState("running") \ {pattern}
<1>. DEFINE Task == [state : States, records : Seq(PointRecords)]
<1>1. tasks \in [ToSet(study.patterns) -> Task]
  BY DEF PoolInv
<1>2. tasks' = [tasks EXCEPT ![pattern] = [tasks[pattern] EXCEPT !.state = state]]
  OBVIOUS
<1>3. tasks[pattern] \in Task
  BY <1>1
<1>4. /\ [tasks[pattern] EXCEPT !.state = state] \in Task
      /\ [tasks[pattern] EXCEPT !.state = state].state = state
      /\ [tasks[pattern] EXCEPT !.state = state].records = tasks[pattern].records
  BY <1>3
<1>. HIDE DEF Task
<1>5. /\ tasks' \in [ToSet(study.patterns) -> Task]
      /\ DOMAIN tasks' = DOMAIN tasks
  BY <1>1, <1>2, <1>4
<1>6. ASSUME NEW p \in DOMAIN tasks
      PROVE  /\ tasks'[p].records = tasks[p].records
             /\ tasks'[p].state = IF p = pattern THEN state ELSE tasks[p].state
  <2>1. tasks'[p] = IF p = pattern THEN [tasks[pattern] EXCEPT !.state = state] ELSE tasks[p]
    BY <1>1, <1>2
  <2>. QED
    BY <2>1, <1>4
<1>7. InState("running")' =
        IF state = "running" THEN InState("running") \cup {pattern}
        ELSE InState("running") \ {pattern}
  BY <1>5, <1>6 DEF InState
<1>. QED
  BY <1>5, <1>6, <1>7 DEF Task

\* The types follow from the invariant.
LEMMA TypesFollow ==
  /\ StudyInv /\ PoolInv => StudyTypeOK
  /\ (StudyInv /\ PoolInv)' => StudyTypeOK'
<1>1. ASSUME StudyInv, PoolInv PROVE StudyTypeOK
  <2>1. DOMAIN tasks \subseteq Pattern
    BY <1>1 DEF StudyInv, PoolInv
  <2>. QED
    BY <1>1, <2>1, BoundsAssumption DEF StudyTypeOK, StudyInv, PoolInv, Studies
<1>2. ASSUME StudyInv', PoolInv' PROVE StudyTypeOK'
  <2>1. DOMAIN tasks' \subseteq Pattern
    BY <1>2 DEF StudyInv, PoolInv
  <2>. QED
    BY <1>2, <2>1, BoundsAssumption DEF StudyTypeOK, StudyInv, PoolInv, Studies
<1>. QED
  BY <1>1, <1>2

\* No other step than a write makes a manifest untrue.
LEMMA TruthKept ==
  ASSUME ManifestTruthful, UNCHANGED disk, StudyInv', PoolInv'
  PROVE  ManifestTruthful'
BY TypesFollow DEF ManifestTruthful, disk, Readable, Records, StudyRecords, None, Torn

\* Without a pool there are no tasks, and none of them runs.
LEMMA NoTasks ==
  ASSUME main' \notin Pooled, tasks' = <<>>
  PROVE  PoolInv'
<1>1. DOMAIN tasks' = {} /\ InState("running")' = {}
  BY DEF InState
<1>2. IsFiniteSet(InState("running")') /\ Cardinality(InState("running")') <= Workers
  BY <1>1, FS_EmptySet, BoundsAssumption
<1>. QED
  BY <1>1, <1>2 DEF PoolInv

\* Steps of the threads of the pool change their tasks alone.
LEMMA PoolAlone ==
  ASSUME StudiesInv, UNCHANGED <<disk, main, study, collected, metadata>>, PoolInv'
  PROVE  StudiesInv'
<1>1. StudyInv'
  BY DEF StudiesInv, StudyInv
<1>2. ManifestTruthful'
  BY <1>1, TruthKept DEF StudiesInv
<1>3. FilesInv' /\ CommandInv'
  BY DEF StudiesInv, FilesInv, CommandInv, disk, Manifest, Readable, StudyRecords
<1>4. CollectedInv'
  BY DEF StudiesInv, CollectedInv, StudyRecords
<1>. QED
  BY <1>1, <1>2, <1>3, <1>4 DEF StudiesInv

\* There are tasks only while there is a pool.
LEMMA TaskPooled ==
  ASSUME StudiesInv, NEW state, NEW pattern \in InState(state)
  PROVE  main \in Pooled /\ pattern \in DOMAIN tasks /\ tasks[pattern].state = state
BY DEF StudiesInv, PoolInv, InState

\* A thread that takes a task is one more of those running.
LEMMA TakeInv ==
  ASSUME StudiesInv, Take
  PROVE  StudiesInv'
<1>1. PICK pattern \in InState("pending") : tasks' = [tasks EXCEPT ![pattern].state = "running"]
  <2>. DEFINE next == SelectInSeq(study.patterns, LAMBDA p : p \in InState("pending"))
              I == {i \in 1..Len(study.patterns) : study.patterns[i] \in InState("pending")}
  <2>1. next # 0 /\ tasks' = [tasks EXCEPT ![study.patterns[next]].state = "running"]
    BY DEF Take
  <2>2. I # {} /\ next = Min(I)
    BY <2>1 DEF SelectInSeq
  <2>3. I \in SUBSET Nat
    OBVIOUS
  <2>4. next \in I
    BY <2>2, <2>3, Smallest
  <2>. QED
    BY <2>1, <2>4
<1>2. main \in Pooled /\ pattern \in DOMAIN tasks /\ tasks[pattern].state = "pending"
  BY TaskPooled
<1>3. PoolInv /\ StudyInv /\ Cardinality(InState("running")) < Workers
  BY DEF StudiesInv, Take
<1>4. UNCHANGED <<disk, main, study, collected, metadata>>
  BY DEF Take
<1>5. /\ tasks' \in [ToSet(study.patterns) -> [state : States, records : Seq(PointRecords)]]
      /\ DOMAIN tasks' = DOMAIN tasks
      /\ \A p \in DOMAIN tasks :
           /\ tasks'[p].records = tasks[p].records
           /\ tasks'[p].state = IF p = pattern THEN "running" ELSE tasks[p].state
      /\ InState("running")' = InState("running") \cup {pattern}
  <2>1. "running" \in States
    BY DEF States
  <2>. HIDE DEF Pooled
  <2>. QED
    BY <1>1, <1>2, <1>3, <2>1, TaskMoves
<1>6. IsFiniteSet(InState("running")') /\ Cardinality(InState("running")') <= Workers
  <2>. DEFINE S == InState("running")
  <2>1. IsFiniteSet(S) /\ Cardinality(S) < Workers
    BY <1>3 DEF PoolInv
  <2>. HIDE DEF S
  <2>2. Cardinality(S) \in Nat /\ IsFiniteSet(S \cup {pattern})
        /\ (Cardinality(S \cup {pattern}) = Cardinality(S)
            \/ Cardinality(S \cup {pattern}) = Cardinality(S) + 1)
    BY <2>1, FS_AddElement, FS_CardinalityType
  <2>3. InState("running")' = S \cup {pattern}
    BY <1>5 DEF S
  <2>4. Cardinality(S \cup {pattern}) <= Workers
    BY <2>1, <2>2, BoundsAssumption
  <2>. QED
    BY <2>2, <2>3, <2>4, Zenon
<1>7. \A p \in DOMAIN tasks' : TaskInv(p)'
  BY <1>3, <1>4, <1>5 DEF PoolInv, TaskInv, Record
<1>8. PoolInv'
  BY <1>2, <1>4, <1>5, <1>6, <1>7 DEF PoolInv
<1>. QED
  BY <1>4, <1>8, PoolAlone

\* A running task gets its next record.
LEMMA ReadRecordInv ==
  ASSUME StudiesInv, NEW pattern, ReadRecord(pattern)
  PROVE  StudiesInv'
<1>. DEFINE found == tasks[pattern].records
            new == Record(pattern, study.totals[Len(found) + 1])
            Task == [state : States, records : Seq(PointRecords)]
<1>1. /\ pattern \in InState("running")
      /\ Len(found) < Len(study.totals)
      /\ tasks' = [tasks EXCEPT ![pattern].records = Append(@, new)]
      /\ UNCHANGED <<disk, main, study, collected, metadata>>
  BY DEF ReadRecord
<1>2. main \in Pooled /\ pattern \in DOMAIN tasks /\ tasks[pattern].state = "running"
  BY <1>1, TaskPooled
<1>3. PoolInv /\ StudyInv
  BY DEF StudiesInv
<1>4. tasks \in [ToSet(study.patterns) -> Task] /\ tasks[pattern] \in Task /\ TaskInv(pattern)
  BY <1>2, <1>3 DEF PoolInv
<1>5. new \in PointRecords
  <2>1. pattern \in STRING
    BY <1>2, <1>4, <1>3 DEF StudyInv, Studies, ToSet
  <2>2. study.totals[Len(found) + 1] \in Nat
    BY <1>1, <1>4, <1>3 DEF StudyInv, Studies
  <2>. QED
    BY <2>1, <2>2, <1>3 DEF StudyInv, Studies, Record, PointRecords
<1>6. /\ Append(found, new) \in Seq(PointRecords)
      /\ Len(Append(found, new)) = Len(found) + 1
      /\ \A j \in 1..Len(found) : Append(found, new)[j] = found[j]
      /\ Append(found, new)[Len(found) + 1] = new
  BY <1>4, <1>5
<1>. HIDE DEF new
<1>7. tasks' = [tasks EXCEPT ![pattern] = [tasks[pattern] EXCEPT !.records = Append(found, new)]]
  BY <1>1
<1>8. /\ [tasks[pattern] EXCEPT !.records = Append(found, new)] \in Task
      /\ [tasks[pattern] EXCEPT !.records = Append(found, new)].state = "running"
      /\ [tasks[pattern] EXCEPT !.records = Append(found, new)].records = Append(found, new)
  BY <1>2, <1>4, <1>6
<1>. HIDE DEF found, Task
<1>9. tasks' \in [ToSet(study.patterns) -> Task] /\ DOMAIN tasks' = DOMAIN tasks
  BY <1>4, <1>7, <1>8
<1>10. tasks'[pattern].records = Append(found, new) /\ tasks'[pattern].state = "running"
  BY <1>2, <1>7, <1>8
<1>11. \A p \in DOMAIN tasks : p # pattern => tasks'[p] = tasks[p]
  BY <1>7
<1>12. InState("running")' = InState("running")
  BY <1>2, <1>9, <1>10, <1>11 DEF InState
<1>13. TaskInv(pattern)'
  <2>1. UNCHANGED study
    BY <1>1
  <2>2. Len(found) \in Nat /\ Len(found) + 1 <= Len(study.totals)
    BY <1>1, <1>4, <1>3 DEF found, Task, StudyInv, Studies
  <2>3. \A j \in 1..Len(found) : found[j] = Record(pattern, study.totals[j])
    BY <1>4 DEF TaskInv, found
  <2>4. \A j \in 1..(Len(found) + 1) : Append(found, new)[j] = Record(pattern, study.totals[j])
    BY <1>6, <2>2, <2>3 DEF new
  <2>. QED
    BY <1>6, <1>10, <2>1, <2>2, <2>4 DEF TaskInv, Record
<1>14. \A p \in DOMAIN tasks' : TaskInv(p)'
  BY <1>1, <1>3, <1>9, <1>11, <1>13 DEF PoolInv, TaskInv, Record
<1>15. PoolInv'
  BY <1>1, <1>2, <1>3, <1>9, <1>12, <1>14 DEF PoolInv, Task
<1>. QED
  BY <1>1, <1>15, PoolAlone

\* A task that stops running, with all its records if it says it is done.
LEMMA StopInv ==
  ASSUME StudiesInv, NEW pattern, Return(pattern) \/ Raise(pattern)
  PROVE  StudiesInv'
<1>1. PICK state \in {"done", "failed"} :
        /\ tasks' = [tasks EXCEPT ![pattern].state = state]
        /\ state = "done" => Len(tasks[pattern].records) = Len(study.totals)
  BY DEF Return, Raise
<1>2. pattern \in InState("running") /\ UNCHANGED <<disk, main, study, collected, metadata>>
  BY DEF Return, Raise
<1>3. main \in Pooled /\ pattern \in DOMAIN tasks /\ PoolInv
  BY <1>2, TaskPooled DEF StudiesInv
<1>4. /\ tasks' \in [ToSet(study.patterns) -> [state : States, records : Seq(PointRecords)]]
      /\ DOMAIN tasks' = DOMAIN tasks
      /\ \A p \in DOMAIN tasks :
           /\ tasks'[p].records = tasks[p].records
           /\ tasks'[p].state = IF p = pattern THEN state ELSE tasks[p].state
      /\ InState("running")' = InState("running") \ {pattern}
  <2>1. state \in States /\ state # "running"
    BY DEF States
  <2>. HIDE DEF Pooled
  <2>. QED
    BY <1>1, <1>3, <2>1, TaskMoves
<1>5. IsFiniteSet(InState("running")') /\ Cardinality(InState("running")') <= Workers
  <2>. DEFINE S == InState("running")
  <2>1. IsFiniteSet(S) /\ Cardinality(S) <= Workers
    BY <1>3 DEF PoolInv
  <2>. HIDE DEF S
  <2>2. S \ {pattern} \in SUBSET S
    OBVIOUS
  <2>3. IsFiniteSet(S \ {pattern}) /\ Cardinality(S \ {pattern}) <= Cardinality(S)
        /\ Cardinality(S) \in Nat /\ Cardinality(S \ {pattern}) \in Nat
    BY <2>1, <2>2, FS_Subset, FS_CardinalityType
  <2>4. Cardinality(S \ {pattern}) <= Workers
    BY <2>1, <2>3, BoundsAssumption
  <2>5. InState("running")' = S \ {pattern}
    BY <1>4 DEF S
  <2>. QED
    BY <2>3, <2>4, <2>5, Zenon
<1>6. \A p \in DOMAIN tasks' : TaskInv(p)'
  BY <1>1, <1>2, <1>3, <1>4 DEF PoolInv, TaskInv, Record
<1>7. PoolInv'
  BY <1>2, <1>3, <1>4, <1>5, <1>6 DEF PoolInv
<1>. QED
  BY <1>2, <1>7, PoolAlone

\* The records of the task whose turn it is go after those taken before.
LEMMA CollectInv ==
  ASSUME StudiesInv, Collect
  PROVE  StudiesInv'
<1>. DEFINE n == Len(study.patterns)
            t == Len(study.totals)
            found == tasks[NextPattern].records
<1>1. /\ main = "search" /\ Taken < n /\ NextPattern \in InState("done")
      /\ collected' = collected \o found
      /\ UNCHANGED <<disk, main, study, tasks, metadata>>
  BY DEF Collect
<1>2. study \in Studies /\ study.totals # <<>>
  BY <1>1 DEF StudiesInv, StudyInv, Pooled
<1>3. PICK k \in 0..n :
        /\ Len(collected) = k * t
        /\ \A i \in 1..Len(collected) : collected[i] = StudyRecords(study)[i]
  BY <1>1 DEF StudiesInv, CollectedInv
<1>4. n \in Nat /\ t \in Nat \ {0}
  BY <1>2 DEF Studies
<1>5. Taken = k
  <2>. HIDE DEF n, t
  <2>1. (k * t) \div t = k
    BY <1>4, Multiples
  <2>2. Taken = Len(collected) \div t
    BY DEF Taken, t
  <2>. QED
    BY <2>1, <2>2, <1>3
<1>6. k \in 0..(n - 1) /\ NextPattern = study.patterns[k + 1]
  BY <1>1, <1>3, <1>4, <1>5 DEF NextPattern
<1>7. TaskInv(NextPattern) /\ NextPattern \in DOMAIN tasks /\ tasks[NextPattern].state = "done"
  BY <1>1, TaskPooled DEF StudiesInv, PoolInv
<1>8. found \in Seq(PointRecords)
  BY <1>1, <1>7 DEF StudiesInv, PoolInv, Pooled
<1>9. Len(found) = t /\ \A j \in 1..Len(found) :
        found[j] = [study |-> study.number, pattern |-> study.patterns[k + 1],
                    total |-> study.totals[j]]
  BY <1>6, <1>7 DEF TaskInv, Record
<1>10. collected \in Seq(PointRecords)
  BY DEF StudiesInv, CollectedInv
<1>. HIDE DEF found
<1>11. /\ collected \o found \in Seq(PointRecords)
       /\ Len(collected \o found) = (k + 1) * t
       /\ \A i \in 1..Len(collected \o found) : (collected \o found)[i] = StudyRecords(study)[i]
  BY <1>2, <1>3, <1>6, <1>8, <1>9, <1>10, CollectedNext
<1>12. k + 1 \in 0..n
  BY <1>4, <1>6
<1>13. CollectedInv'
  <2>1. PICK list \in Seq(PointRecords) :
          /\ list = collected \o found /\ Len(list) = (k + 1) * t
          /\ \A i \in 1..Len(list) : list[i] = StudyRecords(study)[i]
    BY <1>11
  <2>2. collected' = list /\ UNCHANGED <<study, main>>
    BY <1>1, <2>1
  <2>. QED
    BY <1>12, <2>1, <2>2 DEF CollectedInv, StudyRecords
<1>14. StudyInv'
  BY <1>1 DEF StudiesInv, StudyInv
<1>15. PoolInv'
  BY <1>1 DEF StudiesInv, PoolInv, TaskInv, InState, Record
<1>16. FilesInv' /\ CommandInv'
  BY <1>1 DEF StudiesInv, FilesInv, CommandInv, disk, Manifest, Readable, StudyRecords
<1>17. ManifestTruthful'
  BY <1>1, <1>14, <1>15, TruthKept DEF StudiesInv
<1>. QED
  BY <1>13, <1>14, <1>15, <1>16, <1>17 DEF StudiesInv

\* A failure ends the study: no task starts any more.
LEMMA CollectFailureInv ==
  ASSUME StudiesInv, CollectFailure
  PROVE  StudiesInv'
<1>1. /\ main = "search" /\ main' = "shutdown"
      /\ tasks' = [pattern \in DOMAIN tasks |->
                     IF pattern \in InState("pending")
                     THEN [tasks[pattern] EXCEPT !.state = "cancelled"] ELSE tasks[pattern]]
      /\ UNCHANGED <<disk, study, collected, metadata>>
  BY DEF CollectFailure
<1>2. tasks \in [ToSet(study.patterns) -> [state : States, records : Seq(PointRecords)]]
  BY <1>1 DEF StudiesInv, PoolInv, Pooled
<1>3. ASSUME NEW p \in DOMAIN tasks
      PROVE  /\ tasks'[p] \in [state : States, records : Seq(PointRecords)]
             /\ tasks'[p].records = tasks[p].records
             /\ tasks'[p].state = IF tasks[p].state = "pending" THEN "cancelled" ELSE tasks[p].state
  BY <1>1, <1>2 DEF InState, States
<1>4. tasks' \in [ToSet(study.patterns) -> [state : States, records : Seq(PointRecords)]]
      /\ DOMAIN tasks' = DOMAIN tasks
  <2>1. DOMAIN tasks = ToSet(study.patterns)
    BY <1>2
  <2>. QED
    BY <1>1, <1>3, <2>1
<1>5. InState("running")' = InState("running")
  BY <1>3, <1>4 DEF InState
<1>6. \A p \in DOMAIN tasks' : TaskInv(p)'
  BY <1>1, <1>3, <1>4 DEF StudiesInv, PoolInv, TaskInv, Record
<1>7. PoolInv'
  BY <1>1, <1>4, <1>5, <1>6 DEF StudiesInv, PoolInv, Pooled
<1>8. StudyInv'
  BY <1>1 DEF StudiesInv, StudyInv, Pooled
<1>9. FilesInv' /\ CollectedInv'
  BY <1>1 DEF StudiesInv, FilesInv, CollectedInv, disk, Phases
<1>10. CommandInv'
  BY <1>1 DEF StudiesInv, CommandInv, disk, Manifest, Readable, Pooled
<1>11. ManifestTruthful'
  BY <1>1, <1>7, <1>8, TruthKept DEF StudiesInv
<1>. QED
  BY <1>7, <1>8, <1>9, <1>10, <1>11 DEF StudiesInv

\* Steps that leave the files alone and end in a phase without a pool.
LEMMA QuietStep ==
  ASSUME StudiesInv, UNCHANGED <<disk, collected>>, tasks' = <<>>,
         main' \in {"idle", "manifest", "render"}, main' = "render" => Readable(manifest),
         StudyInv'
  PROVE  StudiesInv'
<1>1. PoolInv'
  BY NoTasks DEF Pooled
<1>2. FilesInv' /\ CollectedInv' /\ CommandInv'
  BY DEF StudiesInv, FilesInv, CollectedInv, CommandInv, disk, Phases, Pooled, Readable
<1>3. ManifestTruthful'
  BY <1>1, TruthKept DEF StudiesInv
<1>. QED
  BY <1>1, <1>2, <1>3 DEF StudiesInv

\* A new study takes the next number.
LEMMA StartInv ==
  ASSUME StudiesInv, NEW arguments \in Arguments, Start(arguments)
  PROVE  StudiesInv'
<1>1. /\ main = "idle" /\ study.number < MaxStudies
      /\ study' = [number |-> study.number + 1,
                   patterns |-> arguments.patterns, totals |-> arguments.totals]
      /\ main' = "manifest"
      /\ UNCHANGED <<disk, tasks, collected, metadata>>
  BY DEF Start
<1>2. arguments.patterns \in Seq(STRING) /\ arguments.totals \in Seq(Nat) /\ arguments.totals # <<>>
  BY ArgumentsAssumption
<1>3. ToSet(arguments.patterns) \subseteq Pattern
  BY DEF Pattern
<1>4. study.number \in Nat /\ tasks = <<>>
  BY <1>1 DEF StudiesInv, StudyInv, Studies, PoolInv, Pooled
<1>5. StudyInv'
  BY <1>1, <1>2, <1>3, <1>4, BoundsAssumption DEF StudyInv, Studies
<1>. QED
  BY <1>1, <1>4, <1>5, QuietStep

\* Where there is no pool there are no tasks.
LEMMA NoPool ==
  ASSUME StudiesInv, main \notin Pooled
  PROVE  tasks = <<>>
BY DEF StudiesInv, PoolInv

\* The steps that write no file and start no task.
LEMMA QuietInv ==
  ASSUME StudiesInv, Shutdown \/ ValidateFails \/ RenderOnly \/ Refuse
  PROVE  StudiesInv'
<1>1. /\ UNCHANGED <<disk, collected, study>>
      /\ main' \in {"idle", "render"} /\ (main' = "render" => Readable(manifest))
      /\ \/ tasks' = <<>>
         \/ main \notin Pooled /\ UNCHANGED tasks
  <2>1. CASE Shutdown
    BY <2>1 DEF Shutdown
  <2>2. CASE ValidateFails
    BY <2>2 DEF ValidateFails, pool, Pooled
  <2>3. CASE RenderOnly
    BY <2>3 DEF RenderOnly, pool, Pooled
  <2>4. CASE Refuse
    BY <2>4 DEF Refuse, pool, Pooled
  <2>. QED
    BY <2>1, <2>2, <2>3, <2>4
<1>2. tasks' = <<>>
  BY <1>1, NoPool
<1>3. StudyInv'
  BY <1>1 DEF StudiesInv, StudyInv, Pooled
<1>. QED
  BY <1>1, <1>2, <1>3, QuietStep

\* The manifest of a study that starts claims nothing, and its tasks wait.
LEMMA WriteRunningInv ==
  ASSUME StudiesInv, WriteRunning
  PROVE  StudiesInv'
<1>1. /\ main = "manifest" /\ main' = "search"
      /\ manifest' = Manifest("running")
      /\ tasks' = [pattern \in ToSet(study.patterns) |-> [state |-> "pending", records |-> <<>>]]
      /\ collected' = <<>>
      /\ UNCHANGED <<results, summary, study, metadata>>
  BY DEF WriteRunning
<1>2. study \in Studies /\ study.totals # <<>>
  BY <1>1 DEF StudiesInv, StudyInv
<1>3. Manifest("running") \in Manifests
  BY <1>2 DEF Manifest, Manifests, Contents
<1>4. StudyInv'
  BY <1>1 DEF StudiesInv, StudyInv, Pooled
<1>5. PoolInv'
  <2>1. tasks' \in [ToSet(study.patterns) -> [state : States, records : Seq(PointRecords)]]
    BY <1>1 DEF States
  <2>2. \A p \in DOMAIN tasks' : tasks'[p].state = "pending" /\ tasks'[p].records = <<>>
    BY <1>1
  <2>3. InState("running")' = {}
    BY <2>2 DEF InState
  <2>4. IsFiniteSet(InState("running")') /\ Cardinality(InState("running")') <= Workers
    BY <2>3, FS_EmptySet, BoundsAssumption
  <2>5. \A p \in DOMAIN tasks' : TaskInv(p)'
    BY <1>1, <1>2, <2>2 DEF TaskInv, Studies
  <2>. QED
    BY <1>1, <2>1, <2>4, <2>5 DEF PoolInv, Pooled
<1>6. CollectedInv'
  <2>1. 0 \in 0..Len(study.patterns) /\ 0 * Len(study.totals) = 0
    BY <1>2 DEF Studies
  <2>. QED
    BY <1>1, <2>1 DEF CollectedInv
<1>7. FilesInv'
  BY <1>1, <1>3 DEF StudiesInv, FilesInv, Phases
<1>8. CommandInv'
  BY <1>1 DEF CommandInv, Manifest, Pooled
<1>9. ManifestTruthful'
  BY <1>1, <1>4, <1>5, TypesFollow DEF ManifestTruthful, Manifest, Readable, None
<1>. QED
  BY <1>4, <1>5, <1>6, <1>7, <1>8, <1>9 DEF StudiesInv

\* The results of a study that ends are all its records.
LEMMA WriteResultsInv ==
  ASSUME StudiesInv, WriteResults
  PROVE  StudiesInv'
<1>1. /\ main = "search" /\ main' = "complete"
      /\ Len(collected) = Len(study.patterns) * Len(study.totals)
      /\ results' = Records(collected)
      /\ UNCHANGED <<manifest, summary, study, tasks, collected, metadata>>
  BY DEF WriteResults, pool
<1>2. study \in Studies /\ collected \in Seq(PointRecords)
  BY <1>1 DEF StudiesInv, StudyInv, CollectedInv
<1>3. \A i \in 1..Len(collected) : collected[i] = StudyRecords(study)[i]
  BY <1>1 DEF StudiesInv, CollectedInv
<1>4. collected = StudyRecords(study)
  BY <1>1, <1>2, <1>3, CollectedAll
<1>5. manifest = Manifest("running")
  BY <1>1 DEF StudiesInv, CommandInv, Pooled
<1>6. StudyInv'
  BY <1>1 DEF StudiesInv, StudyInv, Pooled
<1>7. PoolInv'
  BY <1>1 DEF StudiesInv, PoolInv, TaskInv, InState, Record, Pooled
<1>8. CollectedInv'
  BY <1>1 DEF StudiesInv, CollectedInv
<1>9. FilesInv'
  BY <1>1, <1>2 DEF StudiesInv, FilesInv, Phases, Contents, Records
<1>10. CommandInv'
  BY <1>1, <1>4, <1>5 DEF CommandInv, Manifest, StudyRecords
<1>11. ManifestTruthful'
  BY <1>1, <1>5, <1>6, <1>7, TypesFollow DEF ManifestTruthful, Manifest, Readable, None
<1>. QED
  BY <1>6, <1>7, <1>8, <1>9, <1>10, <1>11 DEF StudiesInv

\* Then the manifest may say "complete".
LEMMA WriteCompleteInv ==
  ASSUME StudiesInv, WriteComplete
  PROVE  StudiesInv'
<1>1. /\ main = "complete" /\ main' = "render"
      /\ manifest' = Manifest("complete") /\ tasks' = <<>>
      /\ UNCHANGED <<results, summary, study, collected, metadata>>
  BY DEF WriteComplete
<1>2. study \in Studies /\ results = Records(StudyRecords(study))
  BY <1>1 DEF StudiesInv, StudyInv, CommandInv
<1>3. Manifest("complete") \in Manifests /\ Readable(Manifest("complete"))
  BY <1>2 DEF Manifest, Manifests, Contents, Readable, None, Torn
<1>4. StudyInv'
  BY <1>1 DEF StudiesInv, StudyInv, Pooled
<1>5. PoolInv'
  BY <1>1, NoTasks DEF Pooled
<1>6. CollectedInv'
  BY <1>1 DEF StudiesInv, CollectedInv
<1>7. FilesInv'
  BY <1>1, <1>3 DEF StudiesInv, FilesInv, Phases
<1>8. CommandInv'
  BY <1>1, <1>3 DEF CommandInv, Pooled
<1>9. ManifestTruthful'
  <2>1. manifest'.study = study /\ manifest'.resultsHash = None /\ manifest'.validated = None
    BY <1>1 DEF Manifest
  <2>2. results' = Records(StudyRecords(study))
    BY <1>1, <1>2
  <2>. QED
    BY <1>4, <1>5, <2>1, <2>2, TypesFollow
    DEF ManifestTruthful, Readable, StudyRecords
<1>. QED
  BY <1>4, <1>5, <1>6, <1>7, <1>8, <1>9 DEF StudiesInv

\* A manifest in which one field has been set.
LEMMA SetField ==
  ASSUME NEW m \in Manifests, NEW content \in Contents
  PROVE  /\ LET n == [m EXCEPT !.resultsHash = content]
            IN /\ n \in Manifests /\ n.study = m.study /\ n.status = m.status
               /\ n.resultsHash = content /\ n.validated = m.validated
         /\ LET n == [m EXCEPT !.validated = content]
            IN /\ n \in Manifests /\ n.study = m.study /\ n.status = m.status
               /\ n.resultsHash = m.resultsHash /\ n.validated = content
         /\ Readable(m) /\ m \notin {None, Torn}
BY DEF Manifests, Readable, None, Torn

\* A manifest that can be read is one that a command has written.
LEMMA ReadableManifest ==
  ASSUME StudiesInv, Readable(manifest)
  PROVE  manifest \in Manifests
BY DEF StudiesInv, FilesInv, Readable

\* The tables are made from the results that the manifest describes.
LEMMA WriteSummaryInv ==
  ASSUME StudiesInv, WriteSummary
  PROVE  StudiesInv'
<1>1. /\ main = "render" /\ main' = "hashes"
      /\ manifest.status # "running" /\ Readable(results)
      /\ metadata' = manifest /\ summary' = results
      /\ UNCHANGED <<manifest, results, study, tasks, collected>>
  BY DEF WriteSummary, MayRender, pool
<1>2. Readable(manifest) /\ manifest \in Manifests
  BY <1>1, ReadableManifest DEF StudiesInv, CommandInv
<1>3. manifest.status = "complete"
  BY <1>1, <1>2 DEF Manifests
<1>4. StudyInv'
  BY <1>1 DEF StudiesInv, StudyInv, Pooled
<1>5. PoolInv'
  BY <1>1, NoPool, NoTasks DEF Pooled
<1>6. FilesInv' /\ CollectedInv'
  BY <1>1 DEF StudiesInv, FilesInv, CollectedInv, Phases
<1>7. CommandInv'
  BY <1>1, <1>2, <1>3 DEF CommandInv, Pooled, Readable
<1>8. ManifestTruthful'
  BY <1>1, <1>4, <1>5, TypesFollow DEF StudiesInv, ManifestTruthful, Readable, StudyRecords
<1>. QED
  BY <1>4, <1>5, <1>6, <1>7, <1>8 DEF StudiesInv

\* The hash that is added is that of the results the tables were made from.
LEMMA WriteHashesInv ==
  ASSUME StudiesInv, WriteHashes
  PROVE  StudiesInv'
<1>1. /\ main = "hashes" /\ main' = "idle"
      /\ manifest' = [metadata EXCEPT !.resultsHash = results]
      /\ UNCHANGED <<results, summary, study, tasks, collected>>
  BY DEF WriteHashes, pool
<1>2. /\ Readable(manifest) /\ metadata = manifest /\ summary = results
      /\ manifest.status = "complete" /\ results \in Contents
  BY <1>1 DEF StudiesInv, CommandInv, FilesInv
<1>3. manifest \in Manifests
  BY <1>2, ReadableManifest
<1>4. /\ manifest' \in Manifests /\ manifest'.study = manifest.study
      /\ manifest'.status = "complete" /\ manifest'.resultsHash = results
      /\ manifest'.validated = manifest.validated
  <2>1. manifest' = [manifest EXCEPT !.resultsHash = results]
    BY <1>1, <1>2, Zenon
  <2>. QED
    BY <1>2, <1>3, <2>1, SetField
<1>5. results = Records(StudyRecords(manifest.study))
  BY <1>2 DEF StudiesInv, ManifestTruthful
<1>6. StudyInv'
  BY <1>1 DEF StudiesInv, StudyInv, Pooled
<1>7. PoolInv'
  BY <1>1, NoPool, NoTasks DEF Pooled
<1>8. FilesInv' /\ CollectedInv' /\ CommandInv'
  BY <1>1, <1>4, SMTT(30) DEF StudiesInv, FilesInv, CollectedInv, CommandInv, Phases, Pooled
<1>9. ManifestTruthful'
  <2>1. results' = Records(StudyRecords(manifest'.study))
    BY <1>1, <1>4, <1>5 DEF StudyRecords
  <2>2. Readable(manifest'.validated) => manifest'.validated = results'
    BY <1>1, <1>2, <1>4 DEF StudiesInv, ManifestTruthful
  <2>. QED
    BY <1>1, <1>2, <1>4, <1>6, <1>7, <2>1, <2>2, TypesFollow DEF ManifestTruthful, StudyRecords
<1>. QED
  BY <1>6, <1>7, <1>8, <1>9 DEF StudiesInv

\* validate_saved reads a manifest and its results.
LEMMA ValidateInv ==
  ASSUME StudiesInv, Validate
  PROVE  StudiesInv'
<1>1. /\ main = "idle" /\ main' = "validated"
      /\ Readable(manifest) /\ manifest.status # "running" /\ Readable(results)
      /\ metadata' = [manifest EXCEPT !.validated = results]
      /\ UNCHANGED <<disk, study, tasks, collected>>
  BY DEF Validate, pool
<1>2. manifest \in Manifests /\ manifest.status = "complete"
  BY <1>1, ReadableManifest DEF Manifests
<1>3. StudyInv'
  BY <1>1 DEF StudiesInv, StudyInv, Pooled
<1>4. PoolInv'
  BY <1>1, NoPool, NoTasks DEF Pooled
<1>5. FilesInv' /\ CollectedInv'
  BY <1>1 DEF StudiesInv, FilesInv, CollectedInv, Phases, disk
<1>6. CommandInv'
  BY <1>1, <1>2 DEF CommandInv, Pooled, Readable, disk
<1>7. ManifestTruthful'
  BY <1>1, <1>3, <1>4, TruthKept DEF StudiesInv
<1>. QED
  BY <1>3, <1>4, <1>5, <1>6, <1>7 DEF StudiesInv

\* It writes back what it has read, with what it has validated.
LEMMA WriteValidatedInv ==
  ASSUME StudiesInv, WriteValidated
  PROVE  StudiesInv'
<1>1. /\ main = "validated" /\ main' = "render"
      /\ manifest' = metadata
      /\ UNCHANGED <<results, summary, study, tasks, collected>>
  BY DEF WriteValidated, pool
<1>2. /\ Readable(manifest) /\ metadata = [manifest EXCEPT !.validated = results]
      /\ results \in Contents
  BY <1>1 DEF StudiesInv, CommandInv, FilesInv
<1>3. manifest \in Manifests
  BY <1>2, ReadableManifest
<1>4. /\ manifest' \in Manifests /\ Readable(manifest') /\ manifest'.study = manifest.study
      /\ manifest'.status = manifest.status /\ manifest'.validated = results
      /\ manifest'.resultsHash = manifest.resultsHash
  BY <1>1, <1>2, <1>3, SetField
<1>5. StudyInv'
  BY <1>1 DEF StudiesInv, StudyInv, Pooled
<1>6. PoolInv'
  BY <1>1, NoPool, NoTasks DEF Pooled
<1>7. FilesInv' /\ CollectedInv' /\ CommandInv'
  BY <1>1, <1>4 DEF StudiesInv, FilesInv, CollectedInv, CommandInv, Phases, Pooled, Readable
<1>8. ManifestTruthful'
  BY <1>1, <1>2, <1>4, <1>5, <1>6, TypesFollow
  DEF StudiesInv, ManifestTruthful, StudyRecords, Readable
<1>. QED
  BY <1>5, <1>6, <1>7, <1>8 DEF StudiesInv

\* A kill may tear the one file that the command was about to write: what is
\* left can be told to be torn, or claims no more than before.
LEMMA KillInv ==
  ASSUME StudiesInv, Kill
  PROVE  StudiesInv'
<1>1. /\ main # "idle" /\ main' = "idle" /\ tasks' = <<>>
      /\ UNCHANGED <<study, collected>>
  BY DEF Kill
<1>2. StudyInv'
  BY <1>1 DEF StudiesInv, StudyInv, Pooled
<1>3. PoolInv'
  BY <1>1, NoTasks DEF Pooled
<1>4. CollectedInv' /\ CommandInv'
  BY <1>1 DEF StudiesInv, CollectedInv, CommandInv, Pooled
<1>5. CASE UNCHANGED disk
  <2>1. ManifestTruthful'
    BY <1>2, <1>3, <1>5, TruthKept DEF StudiesInv
  <2>2. FilesInv'
    BY <1>1, <1>5 DEF StudiesInv, FilesInv, Phases, disk
  <2>. QED
    BY <1>2, <1>3, <1>4, <2>1, <2>2 DEF StudiesInv
<1>6. CASE manifest' = Torn /\ UNCHANGED <<results, summary>>
  <2>1. ManifestTruthful'
    BY <1>2, <1>3, <1>6, TypesFollow DEF ManifestTruthful, Readable
  <2>2. FilesInv'
    BY <1>1, <1>6 DEF StudiesInv, FilesInv, Phases
  <2>. QED
    BY <1>2, <1>3, <1>4, <2>1, <2>2 DEF StudiesInv
<1>7. CASE main = "search" /\ results' = Torn /\ UNCHANGED <<manifest, summary>>
  <2>1. manifest.resultsHash = None /\ manifest.validated = None /\ manifest.status = "running"
    BY <1>7 DEF StudiesInv, CommandInv, Pooled, Manifest
  <2>2. ManifestTruthful'
    BY <1>2, <1>3, <1>7, <2>1, TypesFollow DEF ManifestTruthful, Readable
  <2>3. FilesInv'
    BY <1>1, <1>7 DEF StudiesInv, FilesInv, Phases, Contents
  <2>. QED
    BY <1>2, <1>3, <1>4, <2>2, <2>3 DEF StudiesInv
<1>8. CASE summary' = Torn /\ UNCHANGED <<manifest, results>>
  <2>1. ManifestTruthful'
    BY <1>2, <1>3, <1>8, TypesFollow DEF StudiesInv, ManifestTruthful, Readable, StudyRecords
  <2>2. FilesInv'
    BY <1>1, <1>8 DEF StudiesInv, FilesInv, Phases
  <2>. QED
    BY <1>2, <1>3, <1>4, <2>1, <2>2 DEF StudiesInv
<1>. QED
  BY <1>5, <1>6, <1>7, <1>8 DEF Kill

\* Nothing is on disk and nobody works at first.
LEMMA StudiesInitInv == StudyInit => StudiesInv
<1>. SUFFICES ASSUME StudyInit PROVE StudiesInv
  OBVIOUS
<1>1. study \in Studies /\ study.number = 0 /\ study.totals = <<>> /\ study.patterns = <<>>
  BY DEF StudyInit, NoStudy, Studies
<1>2. StudyInv
  BY <1>1, BoundsAssumption DEF StudyInit, StudyInv, Pooled, ToSet
<1>3. DOMAIN tasks = {} /\ InState("running") = {}
  BY DEF StudyInit, InState
<1>4. PoolInv
  BY <1>3, FS_EmptySet, BoundsAssumption DEF StudyInit, PoolInv, Pooled
<1>5. FilesInv /\ CollectedInv /\ CommandInv
  BY DEF StudyInit, FilesInv, CollectedInv, CommandInv, Contents, Phases, Pooled
<1>6. ManifestTruthful
  BY <1>2, <1>4, TypesFollow DEF StudyInit, ManifestTruthful, Readable
<1>. QED
  BY <1>2, <1>4, <1>5, <1>6 DEF StudiesInv

\* Every action preserves the invariant.
LEMMA StudiesNextInv == StudiesInv /\ [StudyNext]_studyVars => StudiesInv'
<1>. SUFFICES ASSUME StudiesInv, [StudyNext]_studyVars PROVE StudiesInv'
  OBVIOUS
<1>1. CASE Command
  BY <1>1, StartInv, QuietInv, ValidateInv DEF Command
<1>2. CASE MainStep
  BY <1>2, WriteRunningInv, CollectInv, CollectFailureInv, QuietInv, WriteResultsInv,
     WriteCompleteInv, WriteSummaryInv, WriteHashesInv, WriteValidatedInv
  DEF MainStep
<1>3. CASE PoolStep
  BY <1>3, TakeInv, ReadRecordInv, StopInv DEF PoolStep
<1>4. CASE \E pattern \in Pattern : Raise(pattern)
  BY <1>4, StopInv
<1>5. CASE ValidateFails
  BY <1>5, QuietInv
<1>6. CASE Kill
  BY <1>6, KillInv
<1>7. CASE UNCHANGED studyVars
  <2>1. UNCHANGED <<disk, main, study, tasks, collected, metadata>>
    BY <1>7 DEF studyVars, pool
  <2>2. PoolInv'
    BY <2>1 DEF StudiesInv, PoolInv, TaskInv, InState, Record
  <2>. QED
    BY <2>1, <2>2, PoolAlone
<1>. QED
  BY <1>1, <1>2, <1>3, <1>4, <1>5, <1>6, <1>7 DEF StudyNext

\* Whatever the manifest says of results.json and of the tables is true, for
\* any number of threads, studies and patterns, and whatever fails, is killed
\* or is torn.
THEOREM Truthful == StudySpec => []ManifestTruthful
<1>1. StudiesInv => ManifestTruthful
  BY DEF StudiesInv
<1>. QED
  BY StudiesInitInv, StudiesNextInv, <1>1, PTL DEF StudySpec

-----------------------------------------------------------------------------
(***************************************************************************)
(* The sessions with the runner: the invariant.                            *)
(***************************************************************************)

Clients ==
  {"idle", "open config", "write config", "check input", "write input", "send", "receive",
   "close", "close broken", "wait", "closed"}

Runners ==
  {"config path", "input path", "config file", "input file", "experiment", "exited"}

WellFormed(experiment) ==
  experiment = [strategies |-> experiment.strategies, input |-> experiment.input]

\* What a call asks for can be told from what a new session remembers.
CallInv ==
  /\ client \in Clients /\ runner \in Runners
  /\ call \in Calls \cup {NoCall}
  /\ client \in {"open config", "write config", "check input", "write input", "send", "receive"}
       => call \in Calls
  /\ WellFormed(call) /\ WellFormed(loaded)

\* Every configuration the session has written is whole; the one it is about
\* to write is none of them, the one it sends is.
ConfigInv ==
  /\ configurationPaths \subseteq configFiles
  /\ client \in {"open config", "write config"} => call.strategies \notin configurationPaths

\* The input file is what the session remembers, until it writes another.
InputInv ==
  /\ client \in {"idle", "open config", "write config", "check input"}
       => lastInput = NoInput \/ inputFile = lastInput
  /\ client \in {"send", "receive"} => lastInput = call.input /\ inputFile = call.input

\* The pipes, by what the runner is about to do: a request is two lines, and
\* its answer is written after both have been read.
PipesInv ==
  /\ stdin = <<>> \/ (\E p : stdin = <<p>>) \/ (\E p, q : stdin = <<p, q>>)
  /\ stdout = <<>> \/ (\E line : stdout = <<line>>)
  /\ stdin = <<>> \/ stdout = <<>>
  /\ runner = "config path" => stdin = <<>> \/ \E p, q : stdin = <<p, q>>
  /\ runner = "input path" => stdout = <<>> /\ \E p : stdin = <<p>>
  /\ runner \in {"config file", "input file", "experiment"} => stdin = <<>> /\ stdout = <<>>

\* Between calls nothing is in the pipes and the runner waits for a path.
NoOutputInv ==
  /\ client = "idle" \/ Writing =>
       /\ stdin = <<>> /\ stdout = <<>>
       /\ runner \in {"config path", "exited"}
  /\ client \in {"close broken", "closed"} => runner = "exited"

\* During a call the request on its way, what the runner has read, and the
\* answer on its way back are all of this call.
RequestInv ==
  client = "receive" =>
    /\ runner = "config path" /\ stdin # <<>> => \E q : stdin = <<call.strategies, q>>
    /\ runner \in {"input path", "config file", "input file", "experiment"}
         => loaded.strategies = call.strategies
    /\ runner = "experiment" => loaded.input = call.input
    /\ stdout = <<>> \/ stdout = <<call>>

BatchInv ==
  /\ CallInv
  /\ ConfigInv
  /\ InputInv
  /\ PipesInv
  /\ NoOutputInv
  /\ RequestInv
  /\ AnswersMatch

-----------------------------------------------------------------------------

\* Lines enter a pipe at one end and leave it at the other.
LEMMA PipeFacts ==
  ASSUME NEW p, NEW q
  PROVE  /\ <<>> \o <<p, q>> = <<p, q>>
         /\ Head(<<p, q>>) = p /\ Tail(<<p, q>>) = <<q>>
         /\ Head(<<p>>) = p /\ Tail(<<p>>) = <<>>
         /\ Append(<<>>, p) = <<p>>
         /\ <<p>> # <<>> /\ <<p, q>> # <<>> /\ <<p>> # <<p, q>>
         /\ Len(<<>>) = 0 /\ Len(<<p>>) = 1 /\ Len(<<p, q>>) = 2
OBVIOUS

\* What a call asks for is an experiment, and not what a new session remembers.
LEMMA CallFacts ==
  /\ \A experiment \in Calls : experiment.input # NoInput /\ WellFormed(experiment)
  /\ WellFormed(NoCall)
<1>1. ASSUME NEW experiment \in Calls
      PROVE  experiment.input # NoInput /\ WellFormed(experiment)
  <2>1. PICK strategies \in Strategies, capacities \in BatchCapacities, list \in BatchRequests :
          experiment = [strategies |-> strategies,
                        input |-> [capacities |-> capacities, requests |-> list]]
    BY DEF Calls, Experiments
  <2>2. experiment.input.requests = list /\ NoInput.requests = "none"
    BY <2>1 DEF NoInput
  <2>. QED
    BY <2>1, <2>2, BatchRequestsAssumption DEF WellFormed
<1>2. WellFormed(NoCall)
  BY DEF WellFormed, NoCall
<1>. QED
  BY <1>1, <1>2

\* The invariant says what the runs check of the files and the answers.
LEMMA InvImplies == BatchInv => FilesExclusive
<1>. SUFFICES ASSUME BatchInv PROVE FilesExclusive
  OBVIOUS
<1>1. Len(stdin) <= 2
  <2>1. CASE \E p, q : stdin = <<p, q>>
    <3>1. PICK p, q : stdin = <<p, q>>
      BY <2>1
    <3>. QED
      BY <3>1
  <2>2. CASE \E p : stdin = <<p>>
    <3>1. PICK p : stdin = <<p>>
      BY <2>2
    <3>. QED
      BY <3>1
  <2>3. CASE stdin = <<>>
    BY <2>3
  <2>. QED
    BY <2>1, <2>2, <2>3 DEF BatchInv, PipesInv
<1>2. Len(stdout) <= 1
  <2>1. CASE \E line : stdout = <<line>>
    <3>1. PICK line : stdout = <<line>>
      BY <2>1
    <3>. QED
      BY <3>1
  <2>2. CASE stdout = <<>>
    BY <2>2
  <2>. QED
    BY <2>1, <2>2 DEF BatchInv, PipesInv
<1>3. BatchTypeOK
  BY <1>1, <1>2 DEF BatchInv, CallInv, ConfigInv, BatchTypeOK
<1>. QED
  BY <1>3 DEF BatchInv, NoOutputInv, FilesExclusive

-----------------------------------------------------------------------------
(***************************************************************************)
(* The sessions with the runner: the steps.                                *)
(***************************************************************************)

\* A new session finds the pipes empty and remembers nothing.
LEMMA SessionInv ==
  ASSUME StartSession \/ NewSession
  PROVE  BatchInv'
<1>1. /\ client' = "idle" /\ configurationPaths' = {} /\ lastInput' = NoInput
      /\ stdin' = <<>> /\ stdout' = <<>> /\ runner' = "config path"
      /\ call' = NoCall /\ loaded' = NoCall
      /\ answer' = [call |-> NoCall, response |-> NoCall]
  BY DEF NewSession, StartSession
<1>2. CallInv'
  BY <1>1, CallFacts DEF CallInv, Clients, Runners, WellFormed
<1>3. ConfigInv' /\ InputInv' /\ PipesInv' /\ NoOutputInv' /\ RequestInv' /\ AnswersMatch'
  BY <1>1 DEF ConfigInv, InputInv, PipesInv, NoOutputInv, RequestInv, AnswersMatch, Writing
<1>. QED
  BY <1>2, <1>3 DEF BatchInv

\* The first session is like every other.
LEMMA BatchInitInv == BatchInit => BatchInv
<1>. SUFFICES ASSUME BatchInit PROVE BatchInv
  OBVIOUS
<1>1. CallInv
  BY CallFacts DEF BatchInit, CallInv, Clients, Runners, WellFormed
<1>2. ConfigInv /\ InputInv /\ PipesInv /\ NoOutputInv /\ RequestInv /\ AnswersMatch
  BY DEF BatchInit, ConfigInv, InputInv, PipesInv, NoOutputInv, RequestInv, AnswersMatch, Writing
<1>. QED
  BY <1>1, <1>2 DEF BatchInv

\* What the script does before it sends a request: the pipes and the runner rest.
LEMMA PrepareStep ==
  ASSUME BatchInv,
         \/ \E experiment \in Calls : Run(experiment)
         \/ OpenConfig \/ WriteConfig \/ KeepInput \/ OpenInput \/ WriteInput
  PROVE  BatchInv'
<1>. USE DEF Pipes, Process, files
<1>1. /\ UNCHANGED <<stdin, stdout, runner, loaded, answer>>
      /\ client' \in {"open config", "write config", "check input", "write input", "send"}
      /\ client = "idle" \/ Writing
  BY DEF Run, OpenConfig, WriteConfig, KeepInput, OpenInput, WriteInput, Writing
<1>2. PipesInv' /\ NoOutputInv' /\ RequestInv' /\ AnswersMatch'
  BY <1>1 DEF BatchInv, PipesInv, NoOutputInv, RequestInv, AnswersMatch, Writing
<1>3. ASSUME NEW experiment \in Calls, Run(experiment)
      PROVE  CallInv' /\ ConfigInv' /\ InputInv'
  BY <1>3, CallFacts
     DEF Run, BatchInv, CallInv, ConfigInv, InputInv, Clients, Runners, WellFormed
<1>4. CASE OpenConfig
  BY <1>2, <1>4
     DEF OpenConfig, BatchInv, CallInv, ConfigInv, InputInv, Clients, Runners, WellFormed
<1>5. CASE WriteConfig
  BY <1>2, <1>5
     DEF WriteConfig, BatchInv, CallInv, ConfigInv, InputInv, Clients, Runners, WellFormed
<1>6. CASE KeepInput
  <2>1. call.input # NoInput
    BY <1>6, CallFacts DEF KeepInput, BatchInv, CallInv
  <2>2. lastInput = call.input /\ inputFile = call.input
    BY <1>6, <2>1 DEF KeepInput, InputIsLast, BatchInv, InputInv
  <2>. QED
    BY <1>2, <1>6, <2>2
       DEF KeepInput, BatchInv, CallInv, ConfigInv, InputInv, Clients, Runners, WellFormed
<1>7. CASE OpenInput
  BY <1>2, <1>7
     DEF OpenInput, BatchInv, CallInv, ConfigInv, InputInv, Clients, Runners, WellFormed
<1>8. CASE WriteInput
  BY <1>2, <1>8
     DEF WriteInput, BatchInv, CallInv, ConfigInv, InputInv, Clients, Runners, WellFormed
<1>. QED
  BY <1>2, <1>3, <1>4, <1>5, <1>6, <1>7, <1>8 DEF BatchInv

\* The request is sent while the runner waits for a path.
LEMMA SendStep ==
  ASSUME BatchInv, Send
  PROVE  BatchInv'
<1>. USE DEF Process, files
<1>1. /\ UNCHANGED <<call, configurationPaths, lastInput, answer, configFiles, inputFile,
                     stdout, runner, loaded>>
      /\ client = "send" /\ client' = "receive"
  BY DEF Send
<1>2. stdin = <<>> /\ stdout = <<>> /\ runner = "config path"
  BY <1>1 DEF Send, BatchInv, NoOutputInv, Writing
<1>3. stdin' = <<call.strategies, "current_input.txt">>
  BY <1>2, PipeFacts DEF Send
<1>4. CallInv' /\ ConfigInv' /\ InputInv' /\ AnswersMatch'
  BY <1>1 DEF BatchInv, CallInv, ConfigInv, InputInv, AnswersMatch, Clients, Runners, WellFormed
<1>5. PipesInv' /\ NoOutputInv' /\ RequestInv'
  BY <1>1, <1>2, <1>3 DEF PipesInv, NoOutputInv, RequestInv, Writing
<1>. QED
  BY <1>4, <1>5 DEF BatchInv

\* An answer is taken from its pipe once the runner is done with its request.
LEMMA ReceiveStep ==
  ASSUME BatchInv, Receive
  PROVE  BatchInv'
<1>. USE DEF Process, files
<1>1. /\ UNCHANGED <<call, configurationPaths, lastInput, configFiles, inputFile, stdin,
                     runner, loaded>>
      /\ client = "receive" /\ stdout # <<>>
      /\ \/ client' = "idle" /\ answer' = [call |-> call, response |-> Head(stdout)]
         \/ client' = "close" /\ UNCHANGED answer
  BY DEF Receive
<1>2. stdout = <<call>>
  BY <1>1 DEF BatchInv, RequestInv
<1>3. stdout' = <<>> /\ Head(stdout) = call
  BY <1>2, PipeFacts DEF Receive
<1>4. stdin = <<>> /\ runner \in {"config path", "exited"}
  BY <1>1 DEF BatchInv, PipesInv, CallInv, Runners
<1>5. CallInv' /\ ConfigInv'
  BY <1>1 DEF BatchInv, CallInv, ConfigInv, Clients, Runners, WellFormed
<1>6. InputInv'
  BY <1>1 DEF BatchInv, InputInv
<1>7. PipesInv' /\ NoOutputInv' /\ RequestInv'
  <2>1. stdin' = <<>> /\ stdout' = <<>> /\ runner' \in {"config path", "exited"}
        /\ client' \in {"idle", "close"}
    BY <1>1, <1>3, <1>4
  <2>. QED
    BY <2>1 DEF PipesInv, NoOutputInv, RequestInv, Writing
<1>8. AnswersMatch'
  <2>1. CASE client' = "idle"
    <3>1. answer' = [call |-> call, response |-> call]
      BY <1>1, <1>3, <2>1
    <3>. QED
      BY <3>1 DEF AnswersMatch
  <2>2. CASE UNCHANGED answer
    BY <2>2 DEF BatchInv, AnswersMatch
  <2>. QED
    BY <1>1, <2>1, <2>2
<1>. QED
  BY <1>5, <1>6, <1>7, <1>8 DEF BatchInv

\* The end of a session, whatever brings it about.
LEMMA CloseStep ==
  ASSUME BatchInv,
         \/ SendFails \/ ReceiveEnd \/ Interrupt
         \/ Close \/ CloseBroken \/ Waited \/ WaitTimesOut
  PROVE  BatchInv'
<1>. USE DEF Process, Pipes, files
<1>1. /\ UNCHANGED <<call, configurationPaths, lastInput, answer, configFiles, inputFile,
                     stdin, stdout, loaded>>
      /\ runner' \in {runner, "exited"}
      /\ client' \in {"close", "close broken", "wait", "closed"}
  BY DEF SendFails, ReceiveEnd, Interrupt, Close, CloseBroken, Waited, WaitTimesOut
<1>2. client' \in {"close broken", "closed"} => runner' = "exited"
  BY DEF SendFails, ReceiveEnd, Interrupt, Close, CloseBroken, Waited, WaitTimesOut,
         BatchInv, NoOutputInv
<1>3. CallInv' /\ ConfigInv' /\ InputInv' /\ AnswersMatch'
  BY <1>1 DEF BatchInv, CallInv, ConfigInv, InputInv, AnswersMatch, Clients, Runners, WellFormed
<1>4. PipesInv' /\ NoOutputInv' /\ RequestInv'
  BY <1>1, <1>2 DEF BatchInv, PipesInv, NoOutputInv, RequestInv, Writing
<1>. QED
  BY <1>3, <1>4 DEF BatchInv

-----------------------------------------------------------------------------

\* What no step of the runner touches.
LEMMA ScriptRests ==
  ASSUME BatchInv, UNCHANGED <<script, files>>, runner' \in Runners, WellFormed(loaded')
  PROVE  CallInv' /\ ConfigInv' /\ InputInv' /\ AnswersMatch'
BY DEF BatchInv, CallInv, ConfigInv, InputInv, AnswersMatch, script, files, WellFormed

\* The runner reads a path, the first or the second line of a request.
LEMMA PathStep ==
  ASSUME BatchInv, ReadConfigPath \/ ReadInputPath
  PROVE  BatchInv'
<1>1. /\ UNCHANGED <<script, files, stdout>>
      /\ client' = client /\ call' = call
      /\ stdin # <<>> /\ stdout = <<>> /\ runner # "exited"
  BY DEF ReadConfigPath, ReadInputPath, script, BatchInv, PipesInv
<1>2. ~ (client = "idle" \/ Writing) /\ client \notin {"close broken", "closed"}
  BY <1>1 DEF BatchInv, NoOutputInv
<1>3. CASE ReadConfigPath
  <2>1. PICK p, q : stdin = <<p, q>>
    BY <1>1, <1>3 DEF ReadConfigPath, BatchInv, PipesInv
  <2>2. stdin' = <<q>> /\ loaded' = [NoCall EXCEPT !.strategies = p] /\ runner' = "input path"
    BY <1>3, <2>1, PipeFacts DEF ReadConfigPath
  <2>3. loaded' = [strategies |-> p, input |-> NoInput]
    BY <2>2 DEF NoCall
  <2>4. WellFormed(loaded')
    BY <2>3 DEF WellFormed
  <2>5. client = "receive" => loaded'.strategies = call.strategies
    <3>. SUFFICES ASSUME client = "receive" PROVE p = call.strategies
      BY <2>3
    <3>1. PICK other : stdin = <<call.strategies, other>>
      BY <1>1, <1>3 DEF ReadConfigPath, BatchInv, RequestInv
    <3>. QED
      BY <2>1, <3>1, PipeFacts
  <2>6. PipesInv' /\ NoOutputInv' /\ RequestInv'
    BY <1>1, <1>2, <2>2, <2>5 DEF PipesInv, NoOutputInv, RequestInv, Writing
  <2>. QED
    BY <1>1, <2>2, <2>4, <2>6, ScriptRests DEF BatchInv, Runners
<1>4. CASE ReadInputPath
  <2>1. PICK p : stdin = <<p>>
    BY <1>4 DEF ReadInputPath, BatchInv, PipesInv
  <2>2. stdin' = <<>> /\ loaded' = loaded /\ runner' = "config file" /\ runner = "input path"
    BY <1>4, <2>1, PipeFacts DEF ReadInputPath
  <2>3. PipesInv' /\ NoOutputInv' /\ RequestInv'
    BY <1>1, <1>2, <2>2 DEF BatchInv, PipesInv, NoOutputInv, RequestInv, Writing
  <2>4. WellFormed(loaded')
    BY <2>2 DEF BatchInv, CallInv
  <2>. QED
    BY <1>1, <2>2, <2>3, <2>4, ScriptRests DEF BatchInv, Runners
<1>. QED
  BY <1>3, <1>4

\* The runner reads the files, which the script leaves alone meanwhile.
LEMMA FileStep ==
  ASSUME BatchInv, ReadConfigFile \/ ReadInputFile
  PROVE  BatchInv'
<1>. USE DEF Pipes
<1>1. /\ UNCHANGED <<script, files, stdin, stdout>>
      /\ client' = client /\ call' = call
      /\ runner \in {"config file", "input file"}
      /\ runner' \in {"input file", "experiment"}
      /\ stdin = <<>> /\ stdout = <<>>
  BY DEF ReadConfigFile, ReadInputFile, script, BatchInv, PipesInv
<1>2. ~ (client = "idle" \/ Writing) /\ client \notin {"close broken", "closed"}
  BY <1>1 DEF BatchInv, NoOutputInv
<1>3. /\ WellFormed(loaded') /\ loaded'.strategies = loaded.strategies
      /\ runner' = "experiment" => loaded'.input = inputFile
  <2>1. loaded = [strategies |-> loaded.strategies, input |-> loaded.input]
    BY DEF BatchInv, CallInv, WellFormed
  <2>2. CASE ReadConfigFile
    BY <2>1, <2>2 DEF ReadConfigFile, WellFormed
  <2>3. CASE ReadInputFile
    <3>1. loaded' = [strategies |-> loaded.strategies, input |-> inputFile]
      BY <2>1, <2>3 DEF ReadInputFile
    <3>. QED
      BY <3>1 DEF WellFormed
  <2>. QED
    BY <2>2, <2>3
<1>4. PipesInv' /\ NoOutputInv' /\ RequestInv'
  BY <1>1, <1>2, <1>3 DEF BatchInv, PipesInv, NoOutputInv, RequestInv, InputInv, Writing
<1>. QED
  BY <1>1, <1>3, <1>4, ScriptRests DEF BatchInv, Runners

\* The answer to a request is the experiment that the request asked for.
LEMMA PrintStep ==
  ASSUME BatchInv, PrintStatistics
  PROVE  BatchInv'
<1>1. /\ UNCHANGED <<script, files, stdin, loaded>>
      /\ client' = client /\ call' = call
      /\ runner = "experiment" /\ runner' = "config path"
      /\ stdin = <<>> /\ stdout = <<>>
  BY DEF PrintStatistics, script, BatchInv, PipesInv
<1>2. ~ (client = "idle" \/ Writing) /\ client \notin {"close broken", "closed"}
  BY <1>1 DEF BatchInv, NoOutputInv
<1>3. stdout' = <<loaded>>
  BY <1>1, PipeFacts DEF PrintStatistics
<1>4. client = "receive" => loaded = call
  BY <1>1 DEF BatchInv, RequestInv, CallInv, WellFormed
<1>5. PipesInv' /\ NoOutputInv' /\ RequestInv'
  BY <1>1, <1>2, <1>3, <1>4 DEF PipesInv, NoOutputInv, RequestInv, Writing
<1>6. WellFormed(loaded')
  BY <1>1 DEF BatchInv, CallInv
<1>. QED
  BY <1>1, <1>5, <1>6, ScriptRests DEF BatchInv, Runners

\* The runner ends, by itself or not: nothing that was sent is taken back.
LEMMA ExitStep ==
  ASSUME BatchInv, EndOfInput \/ Fail \/ Crash
  PROVE  BatchInv'
<1>. USE DEF Pipes
<1>1. /\ UNCHANGED <<script, files, stdin, stdout, loaded>>
      /\ client' = client /\ call' = call
      /\ runner' = "exited"
  BY DEF EndOfInput, Fail, Crash, script
<1>2. PipesInv' /\ NoOutputInv' /\ RequestInv'
  BY <1>1 DEF BatchInv, PipesInv, NoOutputInv, RequestInv, Writing
<1>3. WellFormed(loaded')
  BY <1>1 DEF BatchInv, CallInv
<1>. QED
  BY <1>1, <1>2, <1>3, ScriptRests DEF BatchInv, Runners

\* Nothing happens.
LEMMA StutterStep ==
  ASSUME BatchInv, UNCHANGED batchVars
  PROVE  BatchInv'
BY DEF batchVars, script, files, BatchInv, CallInv, ConfigInv, InputInv, PipesInv,
       NoOutputInv, RequestInv, AnswersMatch, Writing, WellFormed

\* No step of the script, the runner or the system breaks the invariant.
LEMMA BatchNextInv == BatchInv /\ [BatchNext]_batchVars => BatchInv'
<1>. SUFFICES ASSUME BatchInv, BatchNext PROVE BatchInv'
  BY StutterStep
<1>1. CASE \E experiment \in Calls : Run(experiment)
  BY <1>1, PrepareStep
<1>2. CASE ScriptStep
  BY <1>2, PrepareStep, SendStep, ReceiveStep, CloseStep DEF ScriptStep
<1>3. CASE Interrupt \/ WaitTimesOut
  BY <1>3, CloseStep
<1>4. CASE NewSession
  BY <1>4, SessionInv
<1>5. CASE RunnerStep
  BY <1>5, PathStep, FileStep, PrintStep, ExitStep DEF RunnerStep
<1>6. CASE Crash
  BY <1>6, ExitStep
<1>. QED
  BY <1>1, <1>2, <1>3, <1>4, <1>5, <1>6 DEF BatchNext

-----------------------------------------------------------------------------

\* The invariant holds in every state of all sessions.
LEMMA Invariance == BatchSpec => []BatchInv
BY BatchInitInv, BatchNextInv, PTL DEF BatchSpec

\* Script and runner never have the files at the same time, and a session is
\* closed only when its runner has ended.
THEOREM FilesStayExclusive == BatchSpec => []FilesExclusive
BY Invariance, InvImplies, PTL

\* The counters a call of Runner.run returns are those of the experiment it was
\* called for, whatever was interrupted, crashed or left on disk before.
THEOREM AnswersStayMatched == BatchSpec => []AnswersMatch
<1>1. BatchInv => AnswersMatch
  BY DEF BatchInv
<1>. QED
  BY <1>1, Invariance, PTL
=============================================================================
