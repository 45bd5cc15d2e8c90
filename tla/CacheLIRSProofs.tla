--------------------------- MODULE CacheLIRSProofs ---------------------------
(***************************************************************************)
(* Theorems about CacheLIRS, for every set of keys, every capacity of two  *)
(* or more, every HIR share and every depth of nested calls.               *)
(***************************************************************************)
EXTENDS CacheLIRS, ListProofs

\* Starting a call keeps the stack of calls within its bound.
LEMMA EnterKeepsCalls ==
  ASSUME NEW key \in Key, CallsTypeOK, Enter(key)
  PROVE  CallsTypeOK'
BY MaxDepthAssumption DEF CallsTypeOK, Enter

\* A call that ends takes its key, and nothing else, off the stack of calls.
LEMMA LeaveKeepsCalls ==
  ASSUME NEW key, CallsTypeOK, Leave(key)
  PROVE  /\ CallsTypeOK'
         /\ Len(calls') = Len(calls) - 1
         /\ key \in Key
         /\ key = Last(calls)
BY FrontFacts, MaxDepthAssumption DEF CallsTypeOK, Leave

\* The three things an index entry may say are different.
LEMMA StatusNames == LIR # HIR /\ LIR # NoEntry /\ HIR # NoEntry
BY DEF LIR, HIR, NoEntry

\* Both shares of the cache are at least one page.
LEMMA TargetFacts ==
  /\ Capacity \in Nat
  /\ lirTargetSize_ \in Nat
  /\ 1 <= lirTargetSize_
  /\ lirTargetSize_ < Capacity
<1>1. Capacity \in Nat /\ Capacity >= 2
  BY CapacityAssumption, TwoSlotsAssumption
<1>2. hirTargetSizeDivisor \in Nat /\ hirTargetSizeDivisor >= 2
  BY DivisorAssumption
<1>3. PICK share : share = Capacity \div hirTargetSizeDivisor
  OBVIOUS
<1>4. share \in Nat /\ share <= Capacity - 1
  <2>1. share \in Int /\ share * hirTargetSizeDivisor <= Capacity
    BY <1>1, <1>2, <1>3
  <2>2. 0 <= share
    BY <1>1, <1>2, <1>3
  <2>3. share + share <= share * hirTargetSizeDivisor
    BY <1>2, <2>1, <2>2
  <2>. QED
    BY <1>1, <1>2, <2>1, <2>2, <2>3
<1>5. Max({1, share}) \in {1, share} /\ 1 <= Max({1, share})
  <2>1. \E x \in {1, share} : \A y \in {1, share} : x >= y
    BY <1>4
  <2>2. Max({1, share}) \in {1, share} /\ \A y \in {1, share} : Max({1, share}) >= y
    BY <2>1 DEF Max
  <2>. QED
    BY <2>2
<1>. QED
  BY <1>1, <1>3, <1>4, <1>5 DEF lirTargetSize_, hirTargetSize_

-----------------------------------------------------------------------------
(***************************************************************************)
(* Lists.                                                                  *)
(***************************************************************************)

\* Erasing a key, whether the list holds it or not, takes away that key alone,
\* and the bottom of the list stays unless it is that key.
LEMMA WithoutKey ==
  ASSUME NEW S, NEW s \in Seq(S), IsInjective(s), NEW e
  PROVE  /\ RemoveFirst(s, e) \in Seq(S)
         /\ IsInjective(RemoveFirst(s, e))
         /\ ToSet(RemoveFirst(s, e)) = ToSet(s) \ {e}
         /\ s # <<>> /\ Last(s) # e =>
              RemoveFirst(s, e) # <<>> /\ Last(RemoveFirst(s, e)) = Last(s)
         /\ e \notin ToSet(s) => RemoveFirst(s, e) = s
<1>1. DOMAIN s = 1..Len(s) /\ Len(s) \in Nat
  OBVIOUS
<1>2. CASE e \notin ToSet(s)
  <2>1. ~ \E i \in 1..Len(s) : s[i] = e
    BY <1>2 DEF ToSet
  <2>2. RemoveFirst(s, e) = s
    BY <2>1 DEF RemoveFirst
  <2>. QED
    BY <1>2, <2>2
<1>3. CASE e \in ToSet(s)
  <2>1. PICK r \in Seq(S) : r = RemoveFirst(s, e)
    BY <1>3, RemoveFirstFacts
  <2>2. /\ Len(r) = Len(s) - 1 /\ IsInjective(r) /\ ToSet(r) = ToSet(s) \ {e}
    BY <1>3, <2>1, RemoveFirstFacts
  <2>3. PICK p \in 1..Len(s) :
          /\ s[p] = e
          /\ \A i \in 1..(Len(s) - 1) : r[i] = IF i < p THEN s[i] ELSE s[i + 1]
    BY <1>3, <2>1, RemoveFirstAt
  <2>4. ASSUME Last(s) # e PROVE r # <<>> /\ Last(r) = Last(s)
    <3>1. p # Len(s) /\ Len(s) - 1 \in 1..(Len(s) - 1) /\ p <= Len(s) - 1
      BY <1>1, <2>3, <2>4 DEF Last
    <3>2. r[Len(s) - 1] = s[Len(s)]
      BY <1>1, <2>3, <3>1
    <3>3. r # <<>>
      BY <2>2, <3>1, EmptySeq
    <3>. QED
      BY <2>2, <3>2, <3>3 DEF Last
  <2>. QED
    BY <1>3, <2>1, <2>2, <2>4
<1>. QED
  BY <1>2, <1>3

\* Cutting a list of different keys in two parts its keys.
LEMMA Parted ==
  ASSUME NEW S, NEW s \in Seq(S), IsInjective(s), NEW n \in 0..Len(s)
  PROVE  /\ SubSeq(s, 1, n) \in Seq(S)
         /\ Len(SubSeq(s, 1, n)) = n
         /\ IsInjective(SubSeq(s, 1, n))
         /\ n > 0 => Last(SubSeq(s, 1, n)) = s[n]
         /\ ToSet(SubSeq(s, n + 1, Len(s))) = {s[i] : i \in (n + 1)..Len(s)}
         /\ ToSet(SubSeq(s, 1, n)) = ToSet(s) \ ToSet(SubSeq(s, n + 1, Len(s)))
<1>1. DOMAIN s = 1..Len(s) /\ Len(s) \in Nat /\ n \in Nat /\ n <= Len(s)
      /\ \A i \in 1..Len(s) : s[i] \in S
  OBVIOUS
<1>2. PICK t : t = SubSeq(s, 1, n)
  OBVIOUS
<1>3. PICK u : u = SubSeq(s, n + 1, Len(s))
  OBVIOUS
<1>4. t \in Seq(S) /\ Len(t) = n /\ DOMAIN t = 1..n /\ \A i \in 1..n : t[i] = s[i]
  <2>1. /\ SubSeq(s, 1, n) \in Seq(S)
        /\ Len(SubSeq(s, 1, n)) = IF 1 <= n THEN n - 1 + 1 ELSE 0
        /\ \A i \in 1..(n - 1 + 1) : SubSeq(s, 1, n)[i] = s[1 + i - 1]
    BY <1>1, SubSeqProperties
  <2>. QED
    BY <1>1, <1>2, <2>1
<1>5. /\ u \in Seq(S) /\ Len(u) = Len(s) - n /\ DOMAIN u = 1..(Len(s) - n)
      /\ \A i \in 1..(Len(s) - n) : u[i] = s[n + i]
  <2>1. /\ SubSeq(s, n + 1, Len(s)) \in Seq(S)
        /\ Len(SubSeq(s, n + 1, Len(s))) = IF n + 1 <= Len(s) THEN Len(s) - (n + 1) + 1 ELSE 0
        /\ \A i \in 1..(Len(s) - (n + 1) + 1) : SubSeq(s, n + 1, Len(s))[i] = s[n + 1 + i - 1]
    BY <1>1, SubSeqProperties
  <2>2. Len(u) = Len(s) - n /\ u \in Seq(S)
    <3>1. u \in Seq(S) /\ Len(u) = IF n + 1 <= Len(s) THEN Len(s) - (n + 1) + 1 ELSE 0
      BY <1>3, <2>1
    <3>2. PICK m \in Nat : m = Len(s)
      BY <1>1
    <3>3. n \in Nat /\ n <= m /\ Len(u) = IF n + 1 <= m THEN m - (n + 1) + 1 ELSE 0
      BY <1>1, <3>1, <3>2
    <3>4. Len(u) = m - n
      BY <3>3
    <3>. QED
      BY <3>1, <3>2, <3>4
  <2>3. ASSUME NEW i \in 1..(Len(s) - n) PROVE u[i] = s[n + i]
    <3>1. i \in 1..(Len(s) - (n + 1) + 1) /\ n + 1 + i - 1 = n + i
      BY <1>1
    <3>. QED
      BY <1>3, <2>1, <3>1
  <2>. QED
    BY <2>2, <2>3
<1>6. ToSet(t) = {s[i] : i \in 1..n}
  BY <1>4 DEF ToSet
<1>7. ToSet(u) = {s[i] : i \in (n + 1)..Len(s)}
  <2>1. \A i \in 1..(Len(s) - n) : n + i \in (n + 1)..Len(s)
    BY <1>1
  <2>2. \A i \in (n + 1)..Len(s) : i - n \in 1..(Len(s) - n) /\ n + (i - n) = i
    BY <1>1
  <2>3. ToSet(u) = {u[i] : i \in 1..(Len(s) - n)}
    BY <1>5 DEF ToSet
  <2>4. ASSUME NEW i \in 1..(Len(s) - n) PROVE u[i] \in {s[j] : j \in (n + 1)..Len(s)}
    BY <1>5, <2>1
  <2>5. ASSUME NEW j \in (n + 1)..Len(s) PROVE s[j] \in ToSet(u)
    <3>1. j - n \in 1..(Len(s) - n) /\ u[j - n] = s[j]
      BY <1>5, <2>2
    <3>. QED
      BY <2>3, <3>1
  <2>. QED
    BY <2>3, <2>4, <2>5
<1>8. IsInjective(t)
  BY <1>1, <1>4 DEF IsInjective
<1>9. ToSet(t) = ToSet(s) \ ToSet(u)
  <2>1. ToSet(s) = {s[i] : i \in 1..Len(s)}
    BY <1>1 DEF ToSet
  <2>2. \A i, j \in 1..Len(s) : s[i] = s[j] => i = j
    BY <1>1 DEF IsInjective
  <2>3. \A i \in 1..Len(s) : (i \in 1..n /\ i \notin (n + 1)..Len(s))
                             \/ (i \notin 1..n /\ i \in (n + 1)..Len(s))
    BY <1>1
  <2>4. 1..n \subseteq 1..Len(s) /\ (n + 1)..Len(s) \subseteq 1..Len(s)
    BY <1>1
  <2>. QED
    BY <1>6, <1>7, <2>1, <2>2, <2>3, <2>4
<1>. QED
  BY <1>2, <1>3, <1>4, <1>7, <1>8, <1>9 DEF Last

-----------------------------------------------------------------------------
(***************************************************************************)
(* The inductive invariant.                                                *)
(***************************************************************************)

\* The LIR pages.
Lirs(index) == {k \in Key : index[k] = LIR}

\* The resident HIR pages.
Waiting(index, pages) == {k \in Key : index[k] = HIR /\ k \in pages}

\* Stack, queue and pages are those that the statuses tell of.
Fit(stack, queue, index, pages) ==
  /\ index \in [Key -> {LIR, HIR, NoEntry}]
  /\ pages \subseteq Key
  /\ stack \in Seq(Key) /\ IsInjective(stack)
  /\ Holds(queue, Waiting(index, pages))
  /\ \A k \in Key :
       /\ index[k] = LIR => k \in ToSet(stack) /\ k \in pages
       /\ index[k] = HIR => k \in ToSet(stack) \/ k \in pages
       /\ index[k] = NoEntry => k \notin ToSet(stack) /\ k \notin pages
  /\ stack # <<>> => index[Last(stack)] = LIR

\* The two shares: HIR pages come only when the LIR share is full.
Shared(queue, index, count) ==
  /\ count = Cardinality(Lirs(index))
  /\ count <= lirTargetSize_
  /\ count + Len(queue) <= Capacity
  /\ queue # <<>> => count = lirTargetSize_

Inv ==
  /\ CallsTypeOK
  /\ Fit(stackS_, queueQ_, pageIndex_, residentPages_)
  /\ Shared(queueQ_, pageIndex_, lirCount_)

\* The pages are the LIR ones and those in the queue, a finite number.
LEMMA PagesCounted ==
  ASSUME NEW stack, NEW queue, NEW index, NEW pages, Fit(stack, queue, index, pages)
  PROVE  /\ IsFiniteSet(Lirs(index))
         /\ Cardinality(Lirs(index)) \in Nat
         /\ Len(queue) \in Nat
         /\ IsFiniteSet(pages)
         /\ Cardinality(pages) = Cardinality(Lirs(index)) + Len(queue)
<1>1. PICK lirs : lirs = Lirs(index)
  OBVIOUS
<1>2. PICK waiting : waiting = Waiting(index, pages)
  OBVIOUS
<1>3. IsFiniteSet(lirs) /\ Cardinality(lirs) \in Nat
  <2>1. IsFiniteSet(ToSet(stack))
    BY InjectiveCardinality DEF Fit
  <2>2. lirs \in SUBSET ToSet(stack)
    BY <1>1 DEF Lirs, Fit
  <2>3. IsFiniteSet(lirs)
    BY <2>1, <2>2, FS_Subset
  <2>. QED
    BY <2>3, FS_CardinalityType
<1>4. IsFiniteSet(waiting) /\ Cardinality(waiting) = Len(queue) /\ Len(queue) \in Nat
  BY <1>2, HoldsFacts DEF Fit
<1>5. lirs \cap waiting = {} /\ lirs \cup waiting = pages
  <2>1. \A k \in pages : index[k] = LIR \/ index[k] = HIR
    BY DEF Fit
  <2>2. \A k \in lirs : k \in pages
    BY <1>1 DEF Lirs, Fit
  <2>3. pages \subseteq Key
    BY DEF Fit
  <2>. QED
    BY <1>1, <1>2, <2>1, <2>2, <2>3, StatusNames DEF Lirs, Waiting
<1>6. Cardinality(lirs \cap waiting) = 0
  BY <1>5, FS_EmptySet
<1>7. /\ IsFiniteSet(lirs \cup waiting)
      /\ Cardinality(lirs \cup waiting) =
           Cardinality(lirs) + Cardinality(waiting) - Cardinality(lirs \cap waiting)
  BY <1>3, <1>4, FS_Union
<1>8. IsFiniteSet(pages)
      /\ Cardinality(pages) = Cardinality(lirs) + Cardinality(waiting) - Cardinality(lirs \cap waiting)
  BY <1>5, <1>7
<1>9. Cardinality(pages) = Cardinality(lirs) + Len(queue)
  BY <1>3, <1>4, <1>6, <1>8
<1>. QED
  BY <1>1, <1>3, <1>4, <1>8, <1>9

\* A full cache has a page in the queue to evict.
LEMMA FullFacts ==
  ASSUME Inv
  PROVE  /\ Full <=> lirCount_ + Len(queueQ_) = Capacity
         /\ Full => queueQ_ # <<>>
         /\ Full <=> Cardinality(residentPages_) = Capacity
         /\ Cardinality(residentPages_) <= Capacity
         /\ lirCount_ \in Nat
<1>1. PICK size : size = Cardinality(residentPages_)
  OBVIOUS
<1>2. /\ lirCount_ \in Nat /\ Len(queueQ_) \in Nat /\ size = lirCount_ + Len(queueQ_)
      /\ lirCount_ <= lirTargetSize_ /\ size <= Capacity
  BY <1>1, PagesCounted DEF Inv, Shared
<1>3. Full <=> size = Capacity
  BY <1>1, <1>2, TargetFacts DEF Full
<1>4. Len(queueQ_) > 0 <=> queueQ_ # <<>>
  BY HoldsFacts DEF Inv, Fit
<1>. QED
  BY <1>1, <1>2, <1>3, <1>4, TargetFacts

-----------------------------------------------------------------------------
(***************************************************************************)
(* The plan of an access.                                                  *)
(***************************************************************************)

\* The page to demote is the LIR page at the bottom of the stack, another key
\* than the one promoted, and one is demoted exactly for want of a LIR slot.
LEMMA DemotedFacts ==
  ASSUME Inv, NEW key \in Key
  PROVE  /\ \/ LirToDemote(key) = {}
            \/ LirToDemote(key) = {Last(stackS_)} /\ stackS_ # <<>>
         /\ \A k \in LirToDemote(key) : k \in Key /\ pageIndex_[k] = LIR /\ k # key
         /\ Promotes(key) => (LirToDemote(key) = {} <=> lirCount_ < lirTargetSize_)
         /\ ~ Promotes(key) => LirToDemote(key) = {}
<1>1. /\ lirCount_ \in Nat /\ lirTargetSize_ \in Nat /\ 1 <= lirTargetSize_
      /\ lirCount_ = Cardinality(Lirs(pageIndex_)) /\ IsFiniteSet(Lirs(pageIndex_))
  BY FullFacts, TargetFacts, PagesCounted DEF Inv, Shared
<1>2. CASE Promotes(key) /\ lirCount_ >= lirTargetSize_
  <2>1. Lirs(pageIndex_) # {}
    BY <1>1, <1>2, FS_EmptySet
  <2>2. stackS_ # <<>>
    <3>1. ToSet(stackS_) # {}
      BY <2>1 DEF Lirs, Inv, Fit
    <3>. QED
      BY <3>1 DEF ToSet
  <2>3. stackS_ \in Seq(Key) /\ pageIndex_[Last(stackS_)] = LIR
    BY <2>2 DEF Inv, Fit
  <2>4. Last(stackS_) \in Key
    BY <2>2, <2>3, FrontFacts
  <2>5. Last(stackS_) # key
    BY <1>2, <2>3 DEF Promotes, IsLIR
  <2>6. LirToDemote(key) = {Last(stackS_)}
    BY <1>2 DEF LirToDemote
  <2>. QED
    BY <1>1, <1>2, <2>2, <2>3, <2>4, <2>5, <2>6
<1>3. CASE ~ (Promotes(key) /\ lirCount_ >= lirTargetSize_)
  <2>1. LirToDemote(key) = {}
    BY <1>3 DEF LirToDemote
  <2>2. Promotes(key) => lirCount_ < lirTargetSize_
    BY <1>1, <1>3
  <2>. QED
    BY <2>1, <2>2
<1>. QED
  BY <1>2, <1>3

\* Pruning keeps the stack down to the last page that stays LIR.
LEMMA PruneFacts ==
  ASSUME Inv, NEW key \in Key, NEW below, below = StackBelow(key),
         NEW demoted, demoted = LirToDemote(key),
         NEW n, n = KeptByPrune(key)
  PROVE  /\ below \in Seq(Key) /\ IsInjective(below)
         /\ ToSet(below) = ToSet(stackS_) \ {key}
         /\ n \in 0..Len(below)
         /\ n > 0 => pageIndex_[below[n]] = LIR /\ below[n] \notin demoted
         /\ \A i \in (n + 1)..Len(below) : pageIndex_[below[i]] = LIR => below[i] \in demoted
<1>1. below \in Seq(Key) /\ IsInjective(below) /\ ToSet(below) = ToSet(stackS_) \ {key}
  BY WithoutKey DEF StackBelow, Inv, Fit
<1>2. PICK stay : stay = {i \in 1..Len(below) : pageIndex_[below[i]] = LIR
                                                /\ below[i] \notin demoted}
  OBVIOUS
<1>3. n = IF stay # {} THEN Max(stay) ELSE 0
  BY <1>2 DEF KeptByPrune, SelectLastInSeq, IsLIR
<1>4. Len(below) \in Nat /\ stay \in SUBSET (1..Len(below))
  BY <1>1, <1>2
<1>5. CASE stay = {}
  <2>1. n = 0
    BY <1>3, <1>5
  <2>. QED
    BY <1>1, <1>2, <1>4, <1>5, <2>1
<1>6. CASE stay # {}
  <2>1. n \in stay /\ \A i \in stay : i <= n
    BY <1>3, <1>4, <1>6, Greatest
  <2>2. \A i \in (n + 1)..Len(below) : i \in 1..Len(below) /\ i \notin stay
    BY <1>4, <2>1
  <2>. QED
    BY <1>1, <1>2, <1>4, <2>1, <2>2
<1>. QED
  BY <1>5, <1>6

\* The bottom of a list with a key put on top.
LEMMA LastOfCons ==
  ASSUME NEW S, NEW s \in Seq(S), NEW e \in S
  PROVE  /\ Cons(e, s) # <<>>
         /\ Last(Cons(e, s)) = IF s = <<>> THEN e ELSE Last(s)
<1>1. PICK c \in Seq(S) : c = Cons(e, s)
  BY ConsFacts
<1>2. Len(s) \in Nat /\ Len(c) = Len(s) + 1 /\ c[1] = e
      /\ \A i \in 2..(Len(s) + 1) : c[i] = s[i - 1]
  <2>1. /\ Len(Cons(e, s)) = Len(s) + 1
        /\ Cons(e, s)[1] = e
        /\ \A i \in 2..(Len(s) + 1) : Cons(e, s)[i] = s[i - 1]
    BY ConsFacts
  <2>2. Len(s) \in Nat
    OBVIOUS
  <2>3. Len(c) = Len(s) + 1 /\ c[1] = e
    BY <1>1, <2>1
  <2>4. ASSUME NEW i \in 2..(Len(s) + 1) PROVE c[i] = s[i - 1]
    BY <1>1, <2>1
  <2>. QED
    BY <2>2, <2>3, <2>4
<1>3. c # <<>>
  BY <1>2, EmptySeq
<1>4. CASE s = <<>>
  <2>1. Len(c) = 1
    BY <1>2, <1>4
  <2>. QED
    BY <1>1, <1>2, <1>3, <1>4, <2>1 DEF Last
<1>5. CASE s # <<>>
  <2>1. Len(s) >= 1
    BY <1>2, <1>5, EmptySeq
  <2>2. c[Len(s) + 1] = s[Len(s)]
    BY <1>2, <2>1
  <2>. QED
    BY <1>1, <1>2, <1>3, <1>5, <2>2 DEF Last
<1>. QED
  BY <1>4, <1>5

\* When nothing is pruned, the stack has a page below the accessed key: an HIR
\* page that is reused or loaded and not promoted needs a full LIR share.
LEMMA UnprunedFacts ==
  ASSUME Inv, NEW key \in Key, ~ Prunes(key)
  PROVE  /\ key \notin ToSet(stackS_)
         /\ lirCount_ = lirTargetSize_
         /\ stackS_ # <<>>
         /\ pageIndex_[key] # LIR
         /\ pageIndex_[key] = HIR <=> key \in residentPages_
<1>1. pageIndex_[key] # LIR /\ ~ Promotes(key)
  BY DEF Prunes, IsLIR
<1>2. key \notin ToSet(stackS_)
  <2>1. ~ \E i \in 1..Len(stackS_) : stackS_[i] = key
    BY <1>1 DEF Promotes, IsLIR, Contains
  <2>. QED
    BY <2>1 DEF Inv, Fit, ToSet
<1>3. lirCount_ \in Nat /\ lirCount_ <= lirTargetSize_ /\ 1 <= lirTargetSize_
      /\ lirTargetSize_ \in Nat
  BY FullFacts, TargetFacts DEF Inv, Shared
<1>4. pageIndex_[key] = HIR <=> key \in residentPages_
  BY <1>1, <1>2 DEF Inv, Fit
<1>5. lirCount_ = lirTargetSize_
  <2>1. CASE key \in residentPages_
    <3>1. key \in Waiting(pageIndex_, residentPages_)
      BY <1>4, <2>1 DEF Waiting
    <3>2. queueQ_ # <<>>
      BY <3>1, HoldsFacts DEF Inv, Fit
    <3>. QED
      BY <3>2 DEF Inv, Shared
  <2>2. CASE key \notin residentPages_
    BY <1>1, <1>3, <2>2 DEF Promotes, IsLIR
  <2>. QED
    BY <2>1, <2>2
<1>6. stackS_ # <<>>
  <2>1. Cardinality(Lirs(pageIndex_)) # 0
    BY <1>3, <1>5 DEF Inv, Shared
  <2>2. Lirs(pageIndex_) # {}
    BY <2>1, FS_EmptySet
  <2>3. ToSet(stackS_) # {}
    BY <2>2 DEF Lirs, Inv, Fit
  <2>. QED
    BY <2>3 DEF ToSet
<1>. QED
  BY <1>1, <1>2, <1>4, <1>5, <1>6

\* The stack after an access holds the accessed key and what the pruning left,
\* with an LIR page at the bottom; the page that is demoted is pruned.
LEMMA StackStep ==
  ASSUME Inv, NEW key \in Key, NEW stack, stack = StackAfter(key),
         NEW pruned, pruned = StackToPrune(key),
         NEW demoted, demoted = LirToDemote(key)
  PROVE  /\ stack \in Seq(Key) /\ IsInjective(stack)
         /\ ToSet(stack) = (ToSet(stackS_) \ pruned) \cup {key}
         /\ key \notin pruned /\ pruned \subseteq ToSet(stackS_) /\ demoted \subseteq pruned
         /\ \A k \in pruned : pageIndex_[k] = LIR => k \in demoted
         /\ ~ Prunes(key) => pruned = {}
         /\ \/ Last(stack) = key /\ Prunes(key)
            \/ /\ Last(stack) # key /\ Last(stack) \notin demoted
               /\ Last(stack) \in Key /\ pageIndex_[Last(stack)] = LIR
<1>1. PICK below : below = StackBelow(key)
  OBVIOUS
<1>2. PICK n : n = KeptByPrune(key)
  OBVIOUS
<1>3. /\ below \in Seq(Key) /\ IsInjective(below)
      /\ ToSet(below) = ToSet(stackS_) \ {key}
      /\ n \in 0..Len(below)
      /\ n > 0 => pageIndex_[below[n]] = LIR /\ below[n] \notin demoted
      /\ \A i \in (n + 1)..Len(below) : pageIndex_[below[i]] = LIR => below[i] \in demoted
  BY <1>1, <1>2, PruneFacts
<1>4. /\ stackS_ \in Seq(Key) /\ IsInjective(stackS_) /\ below = RemoveFirst(stackS_, key)
      /\ stackS_ # <<>> => pageIndex_[Last(stackS_)] = LIR
  BY <1>1 DEF StackBelow, Inv, Fit
<1>5. CASE Prunes(key)
  <2>1. PICK t : t = SubSeq(below, 1, n)
    OBVIOUS
  <2>2. stack = Cons(key, t) /\ pruned = ToSet(SubSeq(below, n + 1, Len(below)))
    BY <1>1, <1>2, <1>5, <2>1 DEF StackAfter, StackToPrune
  <2>3. /\ t \in Seq(Key) /\ Len(t) = n /\ IsInjective(t)
        /\ n > 0 => Last(t) = below[n]
        /\ pruned = {below[i] : i \in (n + 1)..Len(below)}
        /\ ToSet(t) = ToSet(below) \ pruned
    <3>1. /\ SubSeq(below, 1, n) \in Seq(Key)
          /\ Len(SubSeq(below, 1, n)) = n
          /\ IsInjective(SubSeq(below, 1, n))
          /\ n > 0 => Last(SubSeq(below, 1, n)) = below[n]
          /\ ToSet(SubSeq(below, n + 1, Len(below))) = {below[i] : i \in (n + 1)..Len(below)}
          /\ ToSet(SubSeq(below, 1, n)) = ToSet(below) \ ToSet(SubSeq(below, n + 1, Len(below)))
      BY <1>3, Parted
    <3>. QED
      BY <2>1, <2>2, <3>1
  <2>4. pruned \subseteq ToSet(below)
    BY <1>3, <2>3 DEF ToSet
  <2>5. stack \in Seq(Key) /\ IsInjective(stack) /\ ToSet(stack) = ToSet(t) \cup {key}
    <3>1. key \notin ToSet(t) /\ t \in Seq(Key) /\ IsInjective(t)
      BY <1>3, <2>3
    <3>2. /\ Cons(key, t) \in Seq(Key)
          /\ ToSet(Cons(key, t)) = ToSet(t) \cup {key}
          /\ IsInjective(Cons(key, t))
      BY <3>1, ConsFacts
    <3>. QED
      BY <2>2, <3>2
  <2>6. ASSUME NEW d \in demoted PROVE d \in pruned
    <3>1. demoted = {Last(stackS_)} /\ stackS_ # <<>> /\ d # key
      BY <2>6, DemotedFacts
    <3>2. below # <<>> /\ Last(below) = d
      BY <1>4, <3>1, WithoutKey
    <3>3. Len(below) \in Nat /\ Len(below) >= 1 /\ below[Len(below)] = d
      BY <1>3, <3>2, EmptySeq DEF Last
    <3>4. n # Len(below)
      BY <1>3, <3>3
    <3>5. Len(below) \in (n + 1)..Len(below)
      BY <1>3, <3>3, <3>4
    <3>. QED
      BY <2>3, <3>3, <3>5
  <2>7. ASSUME NEW k \in pruned, pageIndex_[k] = LIR PROVE k \in demoted
    BY <1>3, <2>3, <2>7
  <2>8. \/ Last(stack) = key
        \/ /\ Last(stack) # key /\ Last(stack) \notin demoted
           /\ Last(stack) \in Key /\ pageIndex_[Last(stack)] = LIR
    <3>1. Last(stack) = IF t = <<>> THEN key ELSE Last(t)
      BY <2>2, <2>3, LastOfCons
    <3>2. ASSUME t # <<>>
          PROVE  /\ Last(t) # key /\ Last(t) \notin demoted
                 /\ Last(t) \in Key /\ pageIndex_[Last(t)] = LIR
      <4>1. n > 0
        BY <1>3, <2>3, <3>2, EmptySeq
      <4>2. Last(t) \in ToSet(t) /\ Last(t) \in Key
        BY <2>3, <3>2, FrontFacts
      <4>. QED
        BY <1>3, <2>3, <4>1, <4>2
    <3>. QED
      BY <3>1, <3>2
  <2>. QED
    BY <1>3, <1>5, <2>3, <2>4, <2>5, <2>6, <2>7, <2>8
<1>6. CASE ~ Prunes(key)
  <2>1. key \notin ToSet(stackS_) /\ stackS_ # <<>> /\ pageIndex_[key] # LIR
    BY <1>6, UnprunedFacts
  <2>2. below = stackS_
    BY <1>4, <2>1, WithoutKey
  <2>3. stack = Cons(key, stackS_) /\ pruned = {}
    BY <1>1, <1>6, <2>2 DEF StackAfter, StackToPrune
  <2>4. demoted = {}
    BY <1>6, DemotedFacts DEF Prunes
  <2>5. stack \in Seq(Key) /\ IsInjective(stack) /\ ToSet(stack) = ToSet(stackS_) \cup {key}
    <3>1. /\ Cons(key, stackS_) \in Seq(Key)
          /\ ToSet(Cons(key, stackS_)) = ToSet(stackS_) \cup {key}
          /\ IsInjective(Cons(key, stackS_))
      BY <1>4, <2>1, ConsFacts
    <3>. QED
      BY <2>3, <3>1
  <2>6. Last(stack) = Last(stackS_)
    BY <1>4, <2>1, <2>3, LastOfCons
  <2>7. Last(stackS_) \in Key /\ pageIndex_[Last(stackS_)] = LIR
    BY <1>4, <2>1, FrontFacts
  <2>. QED
    BY <1>6, <2>1, <2>3, <2>4, <2>5, <2>6, <2>7
<1>. QED
  BY <1>5, <1>6

-----------------------------------------------------------------------------
(***************************************************************************)
(* An access, of a resident page or of one that is just stored.            *)
(***************************************************************************)

\* Room is made for the accessed page, and queue is Q by then: victims are
\* waiting HIR pages, kept are the pages that remain.
Room(key, victims, kept, queue) ==
  /\ victims \subseteq Waiting(pageIndex_, residentPages_)
  /\ key \notin victims
  /\ kept = residentPages_ \ victims
  /\ Holds(queue, Waiting(pageIndex_, residentPages_) \ victims)
  /\ Cardinality(kept \cup {key}) <= Capacity

\* The statuses after the access, as a function of those before.
Filed(index, key, victims, kept) ==
  /\ index \in [Key -> {LIR, HIR, NoEntry}]
  /\ \A k \in Key :
       index[k] = IF k = key THEN (IF Prunes(key) THEN LIR ELSE HIR)
                  ELSE IF k \in LirToDemote(key) THEN HIR
                  ELSE IF k \in StackToPrune(key) /\ k \notin kept THEN NoEntry
                  ELSE IF k \in victims /\ k \notin ToSet(stackS_) THEN NoEntry
                  ELSE pageIndex_[k]

\* The code's case distinctions do not overlap: a page that is demoted is
\* resident, and is not the accessed one.
LEMMA IndexStep ==
  ASSUME Inv, NEW key \in Key, NEW kept,
         \A k \in Key : pageIndex_[k] = LIR => k \in kept,
         NEW index, index = IndexAfter(key, kept)
  PROVE  Filed(index, key, {}, kept)
<1>1. PICK demoted : demoted = LirToDemote(key)
  OBVIOUS
<1>2. PICK pruned : pruned = StackToPrune(key)
  OBVIOUS
<1>3. /\ \A k \in demoted : k \in Key /\ pageIndex_[k] = LIR /\ k # key
      /\ key \notin pruned
  <2>1. \A k \in demoted : k \in Key /\ pageIndex_[k] = LIR /\ k # key
    BY <1>1, DemotedFacts
  <2>2. key \notin pruned
    BY <1>1, <1>2, StackStep
  <2>. QED
    BY <2>1, <2>2
<1>4. index = [k \in Key |->
                CASE k = key -> IF Prunes(key) THEN LIR ELSE HIR
                  [] k \in demoted -> HIR
                  [] k \in pruned \ kept -> NoEntry
                  [] OTHER -> pageIndex_[k]]
  BY <1>1, <1>2 DEF IndexAfter
<1>5. ASSUME NEW k \in Key
      PROVE  index[k] = IF k = key THEN (IF Prunes(key) THEN LIR ELSE HIR)
                        ELSE IF k \in demoted THEN HIR
                        ELSE IF k \in pruned /\ k \notin kept THEN NoEntry
                        ELSE pageIndex_[k]
  <2>1. CASE k = key
    <3>1. k \notin demoted /\ k \notin pruned
      BY <1>3, <2>1
    <3>. QED
      BY <1>4, <2>1, <3>1
  <2>2. CASE k # key /\ k \in demoted
    <3>1. k \in kept
      BY <1>3, <2>2
    <3>. QED
      BY <1>4, <2>2, <3>1
  <2>3. CASE k # key /\ k \notin demoted
    BY <1>4, <2>3
  <2>. QED
    BY <2>1, <2>2, <2>3
<1>6. \A k \in Key : pageIndex_[k] \in {LIR, HIR, NoEntry}
  BY DEF Inv, Fit
<1>7. index \in [Key -> {LIR, HIR, NoEntry}]
  <2>1. \A k \in Key : index[k] \in {LIR, HIR, NoEntry}
    BY <1>5, <1>6
  <2>. QED
    BY <1>4, <2>1
<1>. QED
  BY <1>1, <1>2, <1>5, <1>7 DEF Filed

\* The queue after an access.
LEMMA QueueStep ==
  ASSUME Inv, NEW key \in Key, NEW victims, NEW kept, NEW before,
         Room(key, victims, kept, before),
         NEW demoted, demoted = LirToDemote(key),
         NEW waiting, waiting = Waiting(pageIndex_, residentPages_) \ victims,
         NEW queue, queue = QueueAfter(key, before)
  PROVE  /\ Promotes(key) \/ IsLIR(key) => Holds(queue, (waiting \ {key}) \cup demoted)
         /\ ~ Promotes(key) /\ ~ IsLIR(key) => Holds(queue, waiting \cup {key})

<1>1. Promotes(key) => ~ IsLIR(key)
  BY DEF Promotes
<1>2. Holds(before, waiting)
  BY DEF Room
<1>3. before \in Seq(waiting) /\ IsInjective(before) /\ ToSet(before) = waiting
  BY <1>2 DEF Holds
<1>4. CASE Promotes(key)
  <2>1. PICK rest \in Seq(waiting) : rest = RemoveFirst(before, key)
    BY <1>3, WithoutKey
  <2>2. IsInjective(rest) /\ ToSet(rest) = waiting \ {key}
    <3>1. /\ IsInjective(RemoveFirst(before, key))
          /\ ToSet(RemoveFirst(before, key)) = ToSet(before) \ {key}
      BY <1>3, WithoutKey
    <3>. QED
      BY <1>3, <2>1, <3>1
  <2>3. Holds(rest, waiting \ {key})
    BY <2>1, <2>2, SeqOfElements DEF Holds
  <2>4. CASE demoted = {}
    <3>1. queue = rest
      BY <1>1, <1>4, <2>1, <2>4 DEF QueueAfter
    <3>. QED
      BY <1>4, <2>3, <2>4, <3>1
  <2>5. CASE demoted # {}
    <3>1. PICK d : d = Last(stackS_)
      OBVIOUS
    <3>2. demoted = {d} /\ pageIndex_[d] = LIR
      BY <2>5, <3>1, DemotedFacts
    <3>3. queue = SpliceToFront(rest, d)
      BY <1>1, <1>4, <2>1, <2>5, <3>1 DEF QueueAfter
    <3>4. d \notin waiting
      BY <3>2, StatusNames DEF Waiting
    <3>5. /\ Holds(Cons(d, rest), (waiting \ {key}) \cup {d})
      BY <2>3, <3>4, HoldsCons
    <3>6. SpliceToFront(rest, d) = Cons(d, rest)
      <4>1. RemoveFirst(rest, d) = rest
        BY <2>1, <2>2, <3>4, WithoutKey
      <4>. QED
        BY <4>1 DEF SpliceToFront
    <3>. QED
      BY <1>4, <2>5, <3>2, <3>3, <3>5, <3>6
  <2>. QED
    BY <2>4, <2>5
<1>5. CASE ~ Promotes(key) /\ IsLIR(key)
  <2>1. queue = before
    BY <1>5 DEF QueueAfter
  <2>2. demoted = {}
    BY <1>5, DemotedFacts
  <2>3. key \notin waiting
    BY <1>5, StatusNames DEF Waiting, IsLIR
  <2>4. (waiting \ {key}) \cup demoted = waiting
    BY <2>2, <2>3
  <2>. QED
    BY <1>2, <1>5, <2>1, <2>4
<1>6. CASE ~ Promotes(key) /\ ~ IsLIR(key)
  <2>1. queue = SpliceToFront(before, key)
    BY <1>6 DEF QueueAfter
  <2>2. CASE key \in waiting
    <3>1. Holds(SpliceToFront(before, key), waiting) /\ waiting \cup {key} = waiting
      BY <1>2, <2>2, HoldsSplice
    <3>. QED
      BY <1>6, <2>1, <3>1
  <2>3. CASE key \notin waiting
    <3>1. RemoveFirst(before, key) = before
      BY <1>3, <2>3, WithoutKey
    <3>2. Holds(Cons(key, before), waiting \cup {key})
      BY <1>2, <2>3, HoldsCons
    <3>. QED
      BY <1>6, <2>1, <3>1, <3>2 DEF SpliceToFront
  <2>. QED
    BY <2>2, <2>3
<1>. QED
  BY <1>4, <1>5, <1>6

\* After an access stack, queue, statuses and pages fit together again.
LEMMA FitStep ==
  ASSUME Inv, NEW key \in Key, NEW victims, NEW kept, NEW before,
         Room(key, victims, kept, before),
         NEW index, Filed(index, key, victims, kept),
         NEW stack, stack = StackAfter(key),
         NEW queue, queue = QueueAfter(key, before),
         NEW pages, pages = kept \cup {key}
  PROVE  Fit(stack, queue, index, pages)
<1>1. PICK demoted : demoted = LirToDemote(key)
  OBVIOUS
<1>2. PICK pruned : pruned = StackToPrune(key)
  OBVIOUS
<1>3. PICK old : old = ToSet(stackS_)
  OBVIOUS
<1>4. PICK waiting : waiting = Waiting(pageIndex_, residentPages_) \ victims
  OBVIOUS
<1>5. /\ \A k \in demoted : k \in Key /\ pageIndex_[k] = LIR /\ k # key
      /\ ~ Prunes(key) => demoted = {}
  <2>1. \A k \in demoted : k \in Key /\ pageIndex_[k] = LIR /\ k # key
    BY <1>1, DemotedFacts
  <2>2. ~ Prunes(key) => demoted = {}
    BY <1>1, DemotedFacts DEF Prunes
  <2>. QED
    BY <2>1, <2>2
<1>6. /\ stack \in Seq(Key) /\ IsInjective(stack)
      /\ ToSet(stack) = (old \ pruned) \cup {key}
      /\ key \notin pruned /\ pruned \subseteq old /\ demoted \subseteq pruned
      /\ \A k \in pruned : pageIndex_[k] = LIR => k \in demoted
      /\ \/ Last(stack) = key /\ Prunes(key)
         \/ /\ Last(stack) # key /\ Last(stack) \notin demoted
            /\ Last(stack) \in Key /\ pageIndex_[Last(stack)] = LIR
  BY <1>1, <1>2, <1>3, StackStep
<1>7. \A k \in Key :
        /\ pageIndex_[k] \in {LIR, HIR, NoEntry}
        /\ pageIndex_[k] = LIR => k \in old /\ k \in residentPages_
        /\ pageIndex_[k] = HIR => k \in old \/ k \in residentPages_
        /\ pageIndex_[k] = NoEntry => k \notin old /\ k \notin residentPages_
  BY <1>3 DEF Inv, Fit
<1>8. /\ kept = residentPages_ \ victims /\ key \notin victims
      /\ residentPages_ \subseteq Key /\ kept \subseteq Key
      /\ \A k \in victims : k \in Key /\ pageIndex_[k] = HIR
  BY DEF Room, Waiting, Inv, Fit
<1>9. /\ index \in [Key -> {LIR, HIR, NoEntry}]
      /\ \A k \in Key :
           index[k] = IF k = key THEN (IF Prunes(key) THEN LIR ELSE HIR)
                      ELSE IF k \in demoted THEN HIR
                      ELSE IF k \in pruned /\ k \notin kept THEN NoEntry
                      ELSE IF k \in victims /\ k \notin old THEN NoEntry
                      ELSE pageIndex_[k]
  BY <1>1, <1>2, <1>3 DEF Filed
<1>10. \A k \in demoted : k \in kept
  BY <1>5, <1>7, <1>8, StatusNames
<1>11. ASSUME NEW k \in Key
       PROVE  /\ index[k] = LIR => k \in ToSet(stack) /\ k \in pages
              /\ index[k] = HIR => k \in ToSet(stack) \/ k \in pages
              /\ index[k] = NoEntry => k \notin ToSet(stack) /\ k \notin pages
  <2>1. CASE k = key
    BY <1>6, <1>9, <2>1, StatusNames
  <2>2. CASE k # key /\ k \in demoted
    BY <1>9, <1>10, <2>2, StatusNames
  <2>3. CASE k # key /\ k \notin demoted /\ k \in pruned /\ k \notin kept
    BY <1>6, <1>9, <2>3, StatusNames
  <2>4. CASE k # key /\ k \notin demoted /\ ~ (k \in pruned /\ k \notin kept)
    <3>1. CASE k \in victims /\ k \notin old
      BY <1>6, <1>8, <1>9, <2>4, <3>1, StatusNames
    <3>2. CASE ~ (k \in victims /\ k \notin old)
      <4>1. index[k] = pageIndex_[k]
        BY <1>9, <2>4, <3>2
      <4>2. CASE pageIndex_[k] = LIR
        BY <1>6, <1>7, <1>8, <2>4, <4>1, <4>2, StatusNames
      <4>3. CASE pageIndex_[k] = HIR
        BY <1>6, <1>7, <1>8, <2>4, <3>2, <4>1, <4>3, StatusNames
      <4>4. CASE pageIndex_[k] = NoEntry
        BY <1>6, <1>7, <1>8, <2>4, <4>1, <4>4, StatusNames
      <4>. QED
        BY <1>7, <4>2, <4>3, <4>4
    <3>. QED
      BY <3>1, <3>2
  <2>. QED
    BY <2>1, <2>2, <2>3, <2>4
<1>12. index[Last(stack)] = LIR
  <2>1. CASE Last(stack) = key /\ Prunes(key)
    BY <1>9, <2>1
  <2>2. CASE /\ Last(stack) # key /\ Last(stack) \notin demoted
             /\ Last(stack) \in Key /\ pageIndex_[Last(stack)] = LIR
    <3>1. Last(stack) \notin pruned /\ Last(stack) \notin victims
      BY <1>6, <1>8, <2>2, StatusNames
    <3>. QED
      BY <1>9, <2>2, <3>1
  <2>. QED
    BY <1>6, <2>1, <2>2
<1>13. Holds(queue, Waiting(index, pages))
  <2>1. ASSUME NEW k \in Key, k # key
        PROVE  index[k] = HIR /\ k \in pages <=> k \in waiting \/ k \in demoted
    <3>1. CASE k \in demoted
      BY <1>9, <1>10, <2>1, <3>1
    <3>2. CASE k \notin demoted /\ k \in kept
      <4>1. k \notin victims /\ k \in residentPages_
        BY <1>8, <3>2
      <4>2. index[k] = pageIndex_[k]
        BY <1>9, <2>1, <3>2, <4>1
      <4>. QED
        BY <1>4, <3>2, <4>1, <4>2 DEF Waiting
    <3>3. CASE k \notin demoted /\ k \notin kept
      BY <1>4, <1>8, <2>1, <3>3 DEF Waiting
    <3>. QED
      BY <3>1, <3>2, <3>3
  <2>2. index[key] = IF Prunes(key) THEN LIR ELSE HIR
    BY <1>9
  <2>3. waiting \subseteq Key /\ demoted \subseteq Key /\ key \notin demoted
    BY <1>4, <1>5 DEF Waiting
  <2>4. CASE Prunes(key)
    <3>1. Waiting(index, pages) = (waiting \ {key}) \cup demoted
      BY <2>1, <2>2, <2>3, <2>4, StatusNames DEF Waiting
    <3>2. Holds(queue, (waiting \ {key}) \cup demoted)
      BY <1>1, <1>4, <2>4, QueueStep DEF Prunes
    <3>. QED
      BY <3>1, <3>2
  <2>5. CASE ~ Prunes(key)
    <3>1. Waiting(index, pages) = waiting \cup {key}
      BY <1>5, <2>1, <2>2, <2>3, <2>5, StatusNames DEF Waiting
    <3>2. Holds(queue, waiting \cup {key})
      BY <1>1, <1>4, <2>5, QueueStep DEF Prunes
    <3>. QED
      BY <3>1, <3>2
  <2>. QED
    BY <2>4, <2>5
<1>. QED
  BY <1>6, <1>8, <1>9, <1>11, <1>12, <1>13 DEF Fit

\* The pages that stay LIR, and the one that becomes LIR, are counted right.
LEMMA CountStep ==
  ASSUME Inv, NEW key \in Key, NEW victims, NEW kept, NEW before,
         Room(key, victims, kept, before),
         NEW index, Filed(index, key, victims, kept)
  PROVE  /\ LirCountAfter(key) = Cardinality(Lirs(index))
         /\ LirCountAfter(key) \in Nat
         /\ Promotes(key) =>
              LirCountAfter(key) = IF LirToDemote(key) = {} THEN lirCount_ + 1 ELSE lirCount_
         /\ ~ Promotes(key) => LirCountAfter(key) = lirCount_
<1>1. PICK demoted : demoted = LirToDemote(key)
  OBVIOUS
<1>2. PICK lirs : lirs = Lirs(pageIndex_)
  OBVIOUS
<1>3. /\ lirCount_ \in Nat /\ IsFiniteSet(lirs) /\ lirCount_ = Cardinality(lirs)
  BY <1>2, FullFacts, PagesCounted DEF Inv, Shared
<1>4. /\ \A k \in demoted : k \in Key /\ pageIndex_[k] = LIR /\ k # key
      /\ demoted = {} \/ \E d : demoted = {d}
      /\ ~ Promotes(key) => demoted = {}
  <2>1. \A k \in demoted : k \in Key /\ pageIndex_[k] = LIR /\ k # key
    BY <1>1, DemotedFacts
  <2>2. (demoted = {} \/ \E d : demoted = {d}) /\ (~ Promotes(key) => demoted = {})
    BY <1>1, DemotedFacts
  <2>. QED
    BY <2>1, <2>2
<1>5. demoted \subseteq lirs /\ lirs \subseteq Key
  BY <1>2, <1>4 DEF Lirs
<1>6. Lirs(index) = IF Prunes(key) THEN (lirs \ demoted) \cup {key} ELSE lirs
  <2>1. \A k \in Key : k # key /\ k \in demoted => index[k] = HIR
    BY <1>1 DEF Filed
  <2>2. ASSUME NEW k \in Key, k # key, k \notin demoted
        PROVE  index[k] = LIR <=> pageIndex_[k] = LIR
    <3>1. CASE pageIndex_[k] = LIR
      <4>1. k \notin StackToPrune(key) /\ k \notin victims
        <5>1. k \notin StackToPrune(key)
          BY <1>1, <2>2, <3>1, StackStep
        <5>2. k \notin victims
          BY <3>1, StatusNames DEF Room, Waiting
        <5>. QED
          BY <5>1, <5>2
      <4>. QED
        BY <1>1, <2>2, <3>1, <4>1 DEF Filed
    <3>2. CASE pageIndex_[k] # LIR
      BY <1>1, <2>2, <3>2, StatusNames DEF Filed
    <3>. QED
      BY <3>1, <3>2
  <2>3. index[key] = IF Prunes(key) THEN LIR ELSE HIR
    BY DEF Filed
  <2>4. CASE Prunes(key)
    BY <1>2, <2>1, <2>2, <2>3, <2>4, StatusNames DEF Lirs
  <2>5. CASE ~ Prunes(key)
    <3>1. demoted = {} /\ pageIndex_[key] # LIR
      BY <1>4, <2>5 DEF Prunes, IsLIR
    <3>. QED
      BY <1>2, <2>1, <2>2, <2>3, <2>5, <3>1, StatusNames DEF Lirs
  <2>. QED
    BY <2>4, <2>5
<1>7. LirCountAfter(key) = lirCount_ + (IF Promotes(key) THEN 1 ELSE 0) - Cardinality(demoted)
  BY <1>1 DEF LirCountAfter
<1>8. CASE ~ Promotes(key)
  <2>1. demoted = {} /\ Cardinality(demoted) = 0
    BY <1>4, <1>8, FS_EmptySet
  <2>2. Lirs(index) = lirs
    <3>1. Prunes(key) => key \in lirs
      BY <1>2, <1>8 DEF Prunes, IsLIR, Lirs
    <3>. QED
      BY <1>6, <2>1, <3>1
  <2>3. LirCountAfter(key) = lirCount_
    BY <1>3, <1>7, <1>8, <2>1
  <2>. QED
    BY <1>3, <1>8, <2>2, <2>3
<1>9. CASE Promotes(key) /\ demoted = {}
  <2>1. Cardinality(demoted) = 0
    BY <1>9, FS_EmptySet
  <2>2. Lirs(index) = lirs \cup {key} /\ key \notin lirs
    BY <1>2, <1>6, <1>9 DEF Promotes, Prunes, IsLIR, Lirs
  <2>3. Cardinality(lirs \cup {key}) = Cardinality(lirs) + 1
    BY <1>3, <2>2, FS_AddElement
  <2>4. LirCountAfter(key) = lirCount_ + 1
    BY <1>3, <1>7, <1>9, <2>1
  <2>. QED
    BY <1>1, <1>3, <1>9, <2>2, <2>3, <2>4
<1>10. CASE Promotes(key) /\ demoted # {}
  <2>1. PICK d : demoted = {d}
    BY <1>4, <1>10
  <2>2. Cardinality(demoted) = 1
    BY <2>1, FS_Singleton
  <2>3. PICK rest : rest = lirs \ {d}
    OBVIOUS
  <2>4. d \in lirs /\ key \notin rest /\ Lirs(index) = rest \cup {key}
    BY <1>2, <1>5, <1>6, <1>10, <2>1, <2>3 DEF Promotes, Prunes, IsLIR, Lirs
  <2>5. IsFiniteSet(lirs \ {d}) /\ Cardinality(lirs \ {d}) = Cardinality(lirs) - 1
    BY <1>3, <2>4, FS_RemoveElement
  <2>6. IsFiniteSet(rest) /\ Cardinality(rest) = lirCount_ - 1
    BY <1>3, <2>3, <2>5
  <2>7. Cardinality(rest \cup {key}) = Cardinality(rest) + 1
    BY <2>4, <2>6, FS_AddElement
  <2>8. LirCountAfter(key) = lirCount_
    BY <1>3, <1>7, <1>10, <2>2
  <2>9. Cardinality(Lirs(index)) = lirCount_
    BY <1>3, <2>4, <2>6, <2>7
  <2>. QED
    BY <1>1, <1>3, <1>10, <2>8, <2>9
<1>. QED
  BY <1>8, <1>9, <1>10

\* HIR pages are queued only when the LIR share is full, after an access too.
LEMMA SharedStep ==
  ASSUME Inv, NEW key \in Key, NEW victims, NEW kept, NEW before,
         Room(key, victims, kept, before),
         victims = {} => before = queueQ_,
         victims # {} => queueQ_ # <<>>,
         NEW index, Filed(index, key, victims, kept),
         NEW queue, queue = QueueAfter(key, before),
         Fit(StackAfter(key), queue, index, kept \cup {key})
  PROVE  Shared(queue, index, LirCountAfter(key))
<1>1. PICK count : count = LirCountAfter(key)
  OBVIOUS
<1>2. PICK pages : pages = kept \cup {key}
  OBVIOUS
<1>3. /\ lirCount_ \in Nat /\ lirTargetSize_ \in Nat /\ lirCount_ <= lirTargetSize_
      /\ queueQ_ # <<>> => lirCount_ = lirTargetSize_
  BY FullFacts, TargetFacts DEF Inv, Shared
<1>4. /\ count = Cardinality(Lirs(index)) /\ count \in Nat
      /\ Promotes(key) =>
           count = IF LirToDemote(key) = {} THEN lirCount_ + 1 ELSE lirCount_
      /\ ~ Promotes(key) => count = lirCount_
  BY <1>1, CountStep
<1>5. Promotes(key) => (LirToDemote(key) = {} <=> lirCount_ < lirTargetSize_)
  BY DemotedFacts
<1>6. count <= lirTargetSize_
  BY <1>3, <1>4, <1>5
<1>7. count + Len(queue) <= Capacity
  <2>1. Fit(StackAfter(key), queue, index, pages)
    BY <1>2
  <2>2. Cardinality(pages) = Cardinality(Lirs(index)) + Len(queue)
    BY <2>1, PagesCounted
  <2>3. Cardinality(pages) <= Capacity
    BY <1>2 DEF Room
  <2>. QED
    BY <1>4, <2>2, <2>3
<1>8. ASSUME queue # <<>> PROVE count = lirTargetSize_
  <2>1. CASE Promotes(key)
    <3>1. CASE LirToDemote(key) = {}
      <4>1. queueQ_ = <<>>
        BY <1>3, <1>5, <2>1, <3>1
      <4>2. before = <<>>
        BY <4>1
      <4>3. RemoveFirst(<<>>, key) = <<>>
        BY DEF RemoveFirst
      <4>4. queue = RemoveFirst(before, key)
        BY <2>1, <3>1 DEF QueueAfter, Promotes
      <4>. QED
        BY <1>8, <4>2, <4>3, <4>4
    <3>2. CASE LirToDemote(key) # {}
      BY <1>3, <1>4, <1>5, <2>1, <3>2
    <3>. QED
      BY <3>1, <3>2
  <2>2. CASE ~ Promotes(key) /\ IsLIR(key)
    <3>1. queue = before
      BY <2>2 DEF QueueAfter
    <3>2. queueQ_ # <<>>
      BY <1>8, <3>1
    <3>. QED
      BY <1>3, <1>4, <2>2, <3>2
  <2>3. CASE ~ Promotes(key) /\ ~ IsLIR(key)
    <3>1. lirCount_ = lirTargetSize_
      BY <2>3, UnprunedFacts DEF Prunes
    <3>. QED
      BY <1>4, <2>3, <3>1
  <2>. QED
    BY <2>1, <2>2, <2>3
<1>. QED
  BY <1>1, <1>4, <1>6, <1>7, <1>8 DEF Shared

-----------------------------------------------------------------------------
(***************************************************************************)
(* The calls.                                                              *)
(***************************************************************************)

\* A page is stored: in place of a waiting HIR page exactly if the cache is full.
Stored(key) ==
  /\ key \notin residentPages_
  /\ Full => \E victim \in residentPages_ :
               residentPages_' = (residentPages_ \ {victim}) \cup {key}
  /\ ~ Full => residentPages_' = residentPages_ \cup {key}

\* moveToStackTop and what follows it, for a key that is found.
LEMMA HitStep ==
  ASSUME Inv, NEW key \in Key, Hit(key)
  PROVE  Inv'
<1>1. /\ key \in residentPages_
      /\ stackS_' = StackAfter(key)
      /\ queueQ_' = QueueAfter(key, queueQ_)
      /\ pageIndex_' = IndexAfter(key, residentPages_)
      /\ lirCount_' = LirCountAfter(key)
      /\ residentPages_' = residentPages_ /\ calls' = calls
  BY DEF Hit
<1>2. Room(key, {}, residentPages_, queueQ_)
  <2>1. residentPages_ \cup {key} = residentPages_
    BY <1>1
  <2>2. Cardinality(residentPages_ \cup {key}) <= Capacity
    BY <2>1, FullFacts
  <2>3. Waiting(pageIndex_, residentPages_) \ {} = Waiting(pageIndex_, residentPages_)
    OBVIOUS
  <2>4. Holds(queueQ_, Waiting(pageIndex_, residentPages_) \ {})
    BY <2>3 DEF Inv, Fit
  <2>. QED
    BY <2>2, <2>4 DEF Room
<1>3. Filed(pageIndex_', key, {}, residentPages_)
  <2>1. \A k \in Key : pageIndex_[k] = LIR => k \in residentPages_
    BY DEF Inv, Fit
  <2>. QED
    BY <1>1, <2>1, IndexStep
<1>4. Fit(stackS_', queueQ_', pageIndex_', residentPages_ \cup {key})
  BY <1>1, <1>2, <1>3, FitStep
<1>5. Shared(queueQ_', pageIndex_', lirCount_')
  BY <1>1, <1>2, <1>3, <1>4, SharedStep
<1>6. residentPages_ \cup {key} = residentPages_'
  BY <1>1
<1>. QED
  BY <1>1, <1>4, <1>5, <1>6 DEF Inv, CallsTypeOK

\* insertPage with evictHIR, for a page that was loaded.
LEMMA InsertStep ==
  ASSUME Inv, NEW key \in Key, Insert(key)
  PROVE  Inv' /\ Stored(key)
<1>1. PICK victims : victims = HirToEvict
  OBVIOUS
<1>2. PICK kept : kept = residentPages_ \ victims
  OBVIOUS
<1>3. PICK before : before = IF Full THEN Front(queueQ_) ELSE queueQ_
  OBVIOUS
<1>4. PICK plan : plan = IndexAfter(key, kept)
  OBVIOUS
<1>5. /\ Leave(key) /\ key \notin residentPages_
      /\ residentPages_' = kept \cup {key}
      /\ stackS_' = StackAfter(key)
      /\ queueQ_' = QueueAfter(key, before)
      /\ pageIndex_' = IndexAfterEviction(plan)
      /\ lirCount_' = LirCountAfter(key)
  BY <1>1, <1>2, <1>3, <1>4 DEF Insert
<1>6. /\ Holds(before, Waiting(pageIndex_, residentPages_) \ victims)
      /\ victims \subseteq Waiting(pageIndex_, residentPages_)
      /\ ~ Full => victims = {} /\ before = queueQ_
      /\ Full => queueQ_ # <<>> /\ \E v \in residentPages_ : victims = {v}
  <2>1. Holds(queueQ_, Waiting(pageIndex_, residentPages_))
    BY DEF Inv, Fit
  <2>2. CASE Full
    <3>1. queueQ_ # <<>> /\ victims = {Last(queueQ_)} /\ before = Front(queueQ_)
      BY <1>1, <1>3, <2>2, FullFacts DEF HirToEvict
    <3>2. /\ Holds(Front(queueQ_), Waiting(pageIndex_, residentPages_) \ {Last(queueQ_)})
          /\ Last(queueQ_) \in Waiting(pageIndex_, residentPages_)
      BY <2>1, <3>1, HoldsFront
    <3>3. Last(queueQ_) \in residentPages_
      BY <3>2 DEF Waiting
    <3>. QED
      BY <2>2, <3>1, <3>2, <3>3
  <2>3. CASE ~ Full
    <3>1. victims = {} /\ before = queueQ_
      BY <1>1, <1>3, <2>3 DEF HirToEvict
    <3>2. Waiting(pageIndex_, residentPages_) \ victims = Waiting(pageIndex_, residentPages_)
      BY <3>1
    <3>. QED
      BY <2>1, <2>3, <3>1, <3>2
  <2>. QED
    BY <2>2, <2>3
<1>7. /\ IsFiniteSet(residentPages_) /\ Cardinality(residentPages_) \in Nat
      /\ Cardinality(residentPages_) <= Capacity /\ Capacity \in Nat
      /\ Full <=> Cardinality(residentPages_) = Capacity
  <2>1. IsFiniteSet(residentPages_)
    BY PagesCounted DEF Inv
  <2>. QED
    BY <2>1, FS_CardinalityType, FullFacts, TargetFacts
<1>8. Cardinality(kept \cup {key}) <= Capacity
  <2>1. CASE Full
    <3>1. PICK v \in residentPages_ : victims = {v}
      BY <1>6, <2>1
    <3>2. /\ IsFiniteSet(residentPages_ \ {v})
          /\ Cardinality(residentPages_ \ {v}) = Cardinality(residentPages_) - 1
      BY <1>7, FS_RemoveElement
    <3>3. IsFiniteSet(kept) /\ Cardinality(kept) = Capacity - 1
      BY <1>2, <1>7, <2>1, <3>1, <3>2
    <3>4. key \notin kept
      BY <1>2, <1>5
    <3>5. Cardinality(kept \cup {key}) = Cardinality(kept) + 1
      BY <3>3, <3>4, FS_AddElement
    <3>. QED
      BY <1>7, <3>3, <3>5
  <2>2. CASE ~ Full
    <3>1. kept = residentPages_
      BY <1>2, <1>6, <2>2
    <3>2. Cardinality(residentPages_ \cup {key}) = Cardinality(residentPages_) + 1
      BY <1>5, <1>7, FS_AddElement
    <3>. QED
      BY <1>7, <2>2, <3>1, <3>2
  <2>. QED
    BY <2>1, <2>2
<1>9. Room(key, victims, kept, before)
  <2>1. key \notin victims
    BY <1>5, <1>6 DEF Waiting
  <2>. QED
    BY <1>2, <1>6, <1>8, <2>1 DEF Room
<1>10. Filed(pageIndex_', key, victims, kept)
  <2>1. \A k \in Key : pageIndex_[k] = LIR => k \in kept
    BY <1>2, <1>6, StatusNames DEF Waiting, Inv, Fit
  <2>2. Filed(plan, key, {}, kept)
    BY <1>4, <2>1, IndexStep
  <2>3. stackS_ \in Seq(Key) /\ \A k : Contains(stackS_, k) <=> k \in ToSet(stackS_)
    BY DEF Contains, ToSet, Inv, Fit
  <2>4. pageIndex_' = [k \in Key |-> IF k \in victims /\ k \notin ToSet(stackS_) THEN NoEntry
                                     ELSE plan[k]]
    BY <1>1, <1>5, <2>3 DEF IndexAfterEviction
  <2>5. \A v \in victims : v # key /\ v \notin LirToDemote(key)
    <3>1. \A v \in victims : pageIndex_[v] = HIR /\ v \in residentPages_
      BY <1>6 DEF Waiting
    <3>2. \A d \in LirToDemote(key) : pageIndex_[d] = LIR
      BY DemotedFacts
    <3>. QED
      BY <1>5, <3>1, <3>2, StatusNames
  <2>6. StackToPrune(key) \subseteq ToSet(stackS_)
    BY StackStep
  <2>7. ASSUME NEW k \in Key
        PROVE  pageIndex_'[k] = IF k = key THEN (IF Prunes(key) THEN LIR ELSE HIR)
                                ELSE IF k \in LirToDemote(key) THEN HIR
                                ELSE IF k \in StackToPrune(key) /\ k \notin kept THEN NoEntry
                                ELSE IF k \in victims /\ k \notin ToSet(stackS_) THEN NoEntry
                                ELSE pageIndex_[k]
    <3>1. plan[k] = IF k = key THEN (IF Prunes(key) THEN LIR ELSE HIR)
                    ELSE IF k \in LirToDemote(key) THEN HIR
                    ELSE IF k \in StackToPrune(key) /\ k \notin kept THEN NoEntry
                    ELSE pageIndex_[k]
      BY <2>2 DEF Filed
    <3>2. pageIndex_'[k] = IF k \in victims /\ k \notin ToSet(stackS_) THEN NoEntry ELSE plan[k]
      BY <2>4
    <3>3. CASE k \in victims /\ k \notin ToSet(stackS_)
      BY <2>5, <2>6, <3>2, <3>3
    <3>4. CASE ~ (k \in victims /\ k \notin ToSet(stackS_))
      BY <3>1, <3>2, <3>4
    <3>. QED
      BY <3>3, <3>4
  <2>8. pageIndex_' \in [Key -> {LIR, HIR, NoEntry}]
    <3>1. plan \in [Key -> {LIR, HIR, NoEntry}]
      BY <2>2 DEF Filed
    <3>. QED
      BY <2>4, <3>1
  <2>. QED
    BY <2>7, <2>8 DEF Filed
<1>11. Fit(stackS_', queueQ_', pageIndex_', residentPages_')
  BY <1>5, <1>9, <1>10, FitStep
<1>12. Shared(queueQ_', pageIndex_', lirCount_')
  BY <1>5, <1>6, <1>9, <1>10, <1>11, SharedStep
<1>13. CallsTypeOK'
  BY <1>5, LeaveKeepsCalls DEF Inv
<1>14. Stored(key)
  BY <1>2, <1>5, <1>6 DEF Stored
<1>. QED
  BY <1>11, <1>12, <1>13, <1>14 DEF Inv

\* A call that fails leaves the cache as it was: an index entry that try_emplace
\* made is taken back, and one that was there before is not touched.
LEMMA FailedStep ==
  ASSUME Inv, NEW key \in Key, PlanThrows(key) \/ InsertDuplicate(key) \/ LoadThrows(key)
  PROVE  Leave(key) /\ UNCHANGED store
<1>1. ASSUME Rollback(key) PROVE pageIndex_' = pageIndex_
  <2>1. pageIndex_ \in [Key -> {LIR, HIR, NoEntry}]
    BY DEF Inv, Fit
  <2>2. PICK emplaced : emplaced = [pageIndex_ EXCEPT ![key] =
                                      IF pageIndex_[key] = NoEntry THEN HIR ELSE @]
    OBVIOUS
  <2>3. pageIndex_' = [emplaced EXCEPT ![key] =
                         IF pageIndex_[key] = NoEntry THEN NoEntry ELSE @]
    BY <1>1, <2>2 DEF Rollback
  <2>. QED
    BY <2>1, <2>2, <2>3
<1>. QED
  BY <1>1 DEF PlanThrows, InsertDuplicate, LoadThrows, store

\* The empty cache satisfies the invariant.
LEMMA InitInv == Init => Inv
<1>. SUFFICES ASSUME Init PROVE Inv
  OBVIOUS
<1>1. /\ pageIndex_ = [key \in Key |-> NoEntry] /\ residentPages_ = {}
      /\ stackS_ = <<>> /\ queueQ_ = <<>> /\ lirCount_ = 0 /\ calls = <<>>
  BY DEF Init
<1>2. Waiting(pageIndex_, residentPages_) = {} /\ Lirs(pageIndex_) = {}
  BY <1>1, StatusNames DEF Waiting, Lirs
<1>3. Holds(<<>>, {}) /\ ToSet(<<>>) = {}
  BY DEF Holds, IsInjective, ToSet
<1>4. \A k \in Key : pageIndex_[k] = NoEntry
  BY <1>1
<1>5. Fit(stackS_, queueQ_, pageIndex_, residentPages_)
  <2>1. stackS_ \in Seq(Key) /\ IsInjective(stackS_)
    BY <1>1 DEF IsInjective
  <2>2. Holds(queueQ_, Waiting(pageIndex_, residentPages_))
    BY <1>1, <1>2, <1>3
  <2>3. pageIndex_ \in [Key -> {LIR, HIR, NoEntry}]
    BY <1>1
  <2>. QED
    BY <1>1, <1>3, <1>4, <2>1, <2>2, <2>3, StatusNames DEF Fit
<1>6. Shared(queueQ_, pageIndex_, lirCount_)
  <2>1. Cardinality(Lirs(pageIndex_)) = 0
    BY <1>2, FS_EmptySet
  <2>2. Len(queueQ_) = 0
    BY <1>1
  <2>. QED
    BY <1>1, <2>1, <2>2, TargetFacts DEF Shared
<1>7. CallsTypeOK
  BY <1>1, MaxDepthAssumption DEF CallsTypeOK
<1>. QED
  BY <1>5, <1>6, <1>7 DEF Inv

\* No operation of the cache breaks the invariant.
LEMMA NextInv == Inv /\ [Next]_vars => Inv'
<1>. SUFFICES ASSUME Inv, [Next]_vars PROVE Inv'
  OBVIOUS
<1>1. ASSUME NEW key \in Key, Hit(key) PROVE Inv'
  BY <1>1, HitStep
<1>2. ASSUME NEW key \in Key, Miss(key) PROVE Inv'
  BY <1>2, EnterKeepsCalls DEF Miss, store, Inv
<1>3. ASSUME NEW key \in Key, Insert(key) PROVE Inv'
  BY <1>3, InsertStep
<1>4. ASSUME NEW key \in Key, PlanThrows(key) \/ InsertDuplicate(key) \/ LoadThrows(key)
      PROVE  Inv'
  <2>1. Leave(key) /\ UNCHANGED store
    BY <1>4, FailedStep
  <2>. QED
    BY <2>1, LeaveKeepsCalls DEF store, Inv
<1>5. ASSUME UNCHANGED vars PROVE Inv'
  BY <1>5 DEF vars, Inv, CallsTypeOK
<1>. QED
  BY <1>1, <1>2, <1>3, <1>4, <1>5 DEF Next

\* Stack, queue, statuses and pages agree, and HIR pages come only when the LIR
\* share is full, in every state that calls of the cache can reach.
THEOREM Invariance == Spec => []Inv
BY InitInv, NextInv, PTL DEF Spec

\* The invariant says what the check of the directory says.
LEMMA InvMeaning ==
  ASSUME Inv
  PROVE  DirectoryConsistent
<1>1. /\ pageIndex_ \in [Key -> {LIR, HIR, NoEntry}]
      /\ residentPages_ \subseteq Key
      /\ stackS_ \in Seq(Key) /\ IsInjective(stackS_)
      /\ Holds(queueQ_, Waiting(pageIndex_, residentPages_))
      /\ stackS_ # <<>> => pageIndex_[Last(stackS_)] = LIR
      /\ CallsTypeOK
  BY DEF Inv, Fit
<1>2. queueQ_ \in Seq(Key) /\ IsInjective(queueQ_)
      /\ ToSet(queueQ_) = Waiting(pageIndex_, residentPages_)
  <2>1. Waiting(pageIndex_, residentPages_) \subseteq Key
    BY DEF Waiting
  <2>. QED
    BY <1>1, <2>1, HoldsKeys DEF Holds
<1>3. /\ lirCount_ \in 0..lirTargetSize_
      /\ lirCount_ = Cardinality(Lirs(pageIndex_)) /\ lirCount_ <= lirTargetSize_
      /\ queueQ_ # <<>> => lirCount_ = lirTargetSize_
      /\ Cardinality(residentPages_) <= Capacity
      /\ Full => queueQ_ # <<>>
  <2>1. /\ lirCount_ = Cardinality(Lirs(pageIndex_)) /\ lirCount_ <= lirTargetSize_
        /\ queueQ_ # <<>> => lirCount_ = lirTargetSize_
    BY DEF Inv, Shared
  <2>2. /\ lirCount_ \in Nat /\ lirTargetSize_ \in Nat
        /\ Cardinality(residentPages_) <= Capacity
        /\ Full => queueQ_ # <<>>
    BY FullFacts, TargetFacts
  <2>. QED
    BY <2>1, <2>2
<1>4. TypeOK
  BY <1>1, <1>2, <1>3 DEF TypeOK
<1>5. /\ \A k : Contains(stackS_, k) <=> k \in ToSet(stackS_)
      /\ \A k : Contains(queueQ_, k) <=> k \in Waiting(pageIndex_, residentPages_)
  <2>1. \A k : Contains(stackS_, k) <=> k \in ToSet(stackS_)
    BY <1>1 DEF Contains, ToSet
  <2>2. \A k : Contains(queueQ_, k) <=> k \in ToSet(queueQ_)
    BY <1>2 DEF Contains, ToSet
  <2>. QED
    BY <1>2, <2>1, <2>2
<1>6. ASSUME NEW key \in Key
      PROVE  CASE pageIndex_[key] = LIR ->
                    /\ key \in residentPages_
                    /\ Contains(stackS_, key)
                    /\ ~ Contains(queueQ_, key)
               [] pageIndex_[key] = HIR ->
                    /\ Contains(queueQ_, key) <=> key \in residentPages_
                    /\ Contains(stackS_, key) \/ key \in residentPages_
               [] pageIndex_[key] = NoEntry ->
                    ~ Contains(stackS_, key) /\ ~ Contains(queueQ_, key)
  <2>1. /\ pageIndex_[key] = LIR => key \in ToSet(stackS_) /\ key \in residentPages_
        /\ pageIndex_[key] = HIR => key \in ToSet(stackS_) \/ key \in residentPages_
        /\ pageIndex_[key] = NoEntry => key \notin ToSet(stackS_) /\ key \notin residentPages_
    BY DEF Inv, Fit
  <2>2. key \in Waiting(pageIndex_, residentPages_)
          <=> pageIndex_[key] = HIR /\ key \in residentPages_
    BY DEF Waiting
  <2>3. CASE pageIndex_[key] = LIR
    BY <1>5, <2>1, <2>2, <2>3, StatusNames
  <2>4. CASE pageIndex_[key] = HIR
    BY <1>5, <2>1, <2>2, <2>4, StatusNames
  <2>5. CASE pageIndex_[key] = NoEntry
    BY <1>5, <2>1, <2>2, <2>5, StatusNames
  <2>. QED
    BY <1>1, <2>3, <2>4, <2>5
<1>7. residentPages_ \subseteq {key \in Key : pageIndex_[key] # NoEntry}
  BY DEF Inv, Fit
<1>8. PositionsConsistent
  BY <1>1, <1>2, <1>4, <1>6, <1>7 DEF PositionsConsistent
<1>9. StackBottomIsLIR
  BY <1>1 DEF StackBottomIsLIR, IsLIR
<1>10. SharesKept
  BY <1>3 DEF SharesKept, Lirs, IsLIR
<1>. QED
  BY <1>8, <1>9, <1>10 DEF DirectoryConsistent

\* Stack, queue, statuses and counts fit together: the page to demote is at the
\* bottom of S and the page to evict in Q whenever the code goes for them.
THEOREM DirectoryCorrect == Spec => []DirectoryConsistent
BY Invariance, InvMeaning, PTL

\* Every indexed page that is cached is one that is cached.
LEMMA ResidentMeaning ==
  ASSUME Inv
  PROVE  Resident = residentPages_
BY DEF Resident, Inv, Fit

\* A call that ends without its page leaves stack, queue, statuses and pages alone.
THEOREM FailuresLeaveNoTrace == Spec => FailureAtomicity
<1>. DEFINE Atomic == CallEnds => \/ UNCHANGED store
                                  \/ Last(calls) \in Resident' \ Resident
<1>1. Inv /\ Inv' /\ [Next]_vars => [Atomic]_vars
  <2>. SUFFICES ASSUME Inv, Inv', Next, CallEnds PROVE Atomic
    OBVIOUS
  <2>1. calls \in Seq(Key) /\ calls' # calls
    BY DEF CallEnds, Inv, CallsTypeOK
  <2>2. ASSUME NEW key \in Key, Miss(key) PROVE FALSE
    <3>1. Len(calls') = Len(calls) + 1 /\ Len(calls) \in Nat
      BY <2>1, <2>2 DEF Miss, Enter
    <3>. QED
      BY <3>1 DEF CallEnds
  <2>3. ASSUME NEW key \in Key, Insert(key) PROVE Atomic
    <3>1. key = Last(calls)
      BY <2>3 DEF Insert, Leave
    <3>2. key \notin residentPages_ /\ key \in residentPages_'
      BY <2>3 DEF Insert
    <3>3. Resident = residentPages_
      BY ResidentMeaning
    <3>4. key \in Resident'
      BY <3>2 DEF Resident, Inv, Fit
    <3>. QED
      BY <3>1, <3>2, <3>3, <3>4
  <2>4. ASSUME NEW key \in Key, PlanThrows(key) \/ InsertDuplicate(key) \/ LoadThrows(key)
        PROVE  Atomic
    BY <2>4, FailedStep
  <2>5. ASSUME NEW key \in Key, Hit(key) PROVE FALSE
    BY <2>1, <2>5 DEF Hit
  <2>. QED
    BY <2>2, <2>3, <2>4, <2>5 DEF Next
<1>. QED
  BY <1>1, Invariance, PTL DEF Spec, FailureAtomicity

-----------------------------------------------------------------------------
(***************************************************************************)
(* The contract of a cache.                                                *)
(***************************************************************************)

\* The contract's stack of calls and its count of a set are CacheLIRS's own.
LEMMA SameProtocol ==
  /\ \A key : Contract!Leave(key) <=> Leave(key)
  /\ \A key : Contract!Enter(key) <=> Enter(key)
  /\ \A S : Contract!Cardinality(S) = Cardinality(S)
<1>1. \A key : Contract!Leave(key) <=> Leave(key)
  BY DEF Contract!Leave, Contract!Last, Contract!Front, Leave, Last, Front
<1>2. \A key : Contract!Enter(key) <=> Enter(key)
  BY DEF Contract!Enter, Enter
<1>3. \A S : Contract!Cardinality(S) = Cardinality(S)
  BY DEF Contract!Cardinality, Cardinality
<1>. QED
  BY <1>1, <1>2, <1>3

\* Every step of the LIRS cache is one that a client of Cache may see.
LEMMA StepRefines ==
  ASSUME Inv, Inv', [Next]_vars
  PROVE  [Contract!Next]_(Contract!vars)
<1>1. Resident = residentPages_
  BY ResidentMeaning
<1>2. Resident' = residentPages_'
  BY DEF Resident, Inv, Fit
<1>3. ASSUME NEW key \in Key, Hit(key) PROVE UNCHANGED Contract!vars
  BY <1>1, <1>2, <1>3 DEF Hit, Contract!vars
<1>4. ASSUME NEW key \in Key, Miss(key) PROVE Contract!Miss(key)
  BY <1>1, <1>2, <1>4, SameProtocol DEF Miss, store, Contract!Miss
<1>5. ASSUME NEW key \in Key, Insert(key) PROVE Contract!Insert(key)
  <2>1. Contract!Leave(key)
    BY <1>5, SameProtocol DEF Insert
  <2>2. Stored(key)
    BY <1>5, InsertStep
  <2>3. Contract!Cardinality(residentPages_) < Capacity <=> ~ Full
    <3>1. IsFiniteSet(residentPages_)
      BY PagesCounted DEF Inv
    <3>2. Cardinality(residentPages_) \in Nat
      BY <3>1, FS_CardinalityType
    <3>. QED
      BY <3>2, SameProtocol, TargetFacts DEF Full
  <2>. QED
    BY <1>1, <1>2, <2>1, <2>2, <2>3 DEF Stored, Contract!Insert
<1>6. ASSUME NEW key \in Key, PlanThrows(key) \/ InsertDuplicate(key) \/ LoadThrows(key)
      PROVE  Contract!Fail(key)
  <2>1. Leave(key) /\ UNCHANGED store
    BY <1>6, FailedStep
  <2>. QED
    BY <1>1, <1>2, <2>1, SameProtocol DEF store, Contract!Fail
<1>7. ASSUME UNCHANGED vars PROVE UNCHANGED Contract!vars
  BY <1>7 DEF vars, Resident, Contract!vars
<1>8. CASE Next
  BY <1>3, <1>4, <1>5, <1>6, <1>8 DEF Next, Contract!Next
<1>. QED
  BY <1>7, <1>8

\* CacheLIRS implements the contract of Cache::lookupUpdate: a key that only the
\* stack remembers is not found, and a page goes only for want of room.
THEOREM Refinement == Spec => ImplementsCache
<1>1. Init => Contract!Init
  BY DEF Init, Resident, Contract!Init
<1>. QED
  BY <1>1, StepRefines, Invariance, PTL DEF Spec, ImplementsCache, Contract!Spec
=============================================================================
