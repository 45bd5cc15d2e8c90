--------------------------- MODULE CacheLFUProofs ---------------------------
(***************************************************************************)
(* Theorems about CacheLFU, for every set of keys, every capacity, every   *)
(* bound on the use counts and every depth of nested calls.                *)
(***************************************************************************)
EXTENDS CacheLFUHistory, ListProofs

\* Starting a call keeps the stack within its bound.
LEMMA EnterKeepsCalls ==
  ASSUME NEW key \in Key, CallsTypeOK, Enter(key)
  PROVE  CallsTypeOK'
BY MaxDepthAssumption DEF CallsTypeOK, Enter

\* A call that ends takes its key, and nothing else, off the stack.
LEMMA LeaveKeepsCalls ==
  ASSUME NEW key, CallsTypeOK, Leave(key)
  PROVE  CallsTypeOK' /\ key \in Key
BY FrontFacts, MaxDepthAssumption DEF CallsTypeOK, Leave

-----------------------------------------------------------------------------
(***************************************************************************)
(* The list and its counts.                                                *)
(***************************************************************************)

\* A record added at the end of a list without one for its key.
LEMMA AppendFacts ==
  ASSUME NEW S, NEW s \in Seq(S), IsInjective(s), NEW e \in S, e \notin ToSet(s)
  PROVE  /\ Append(s, e) \in Seq(S)
         /\ Len(Append(s, e)) = Len(s) + 1
         /\ IsInjective(Append(s, e))
         /\ ToSet(Append(s, e)) = ToSet(s) \cup {e}
BY AppendItems

\* Moving a record of the list to its end keeps the records.
LEMMA SpliceToBackFacts ==
  ASSUME NEW S, NEW s \in Seq(S), IsInjective(s), NEW e \in ToSet(s)
  PROVE  /\ SpliceToBack(s, e) \in Seq(S)
         /\ Len(SpliceToBack(s, e)) = Len(s)
         /\ IsInjective(SpliceToBack(s, e))
         /\ ToSet(SpliceToBack(s, e)) = ToSet(s)
<1>1. PICK rest : rest = RemoveFirst(s, e)
  OBVIOUS
<1>2. e \in S /\ Len(s) \in Nat
  BY DEF ToSet
<1>3. /\ rest \in Seq(S) /\ Len(rest) = Len(s) - 1 /\ IsInjective(rest)
      /\ ToSet(rest) = ToSet(s) \ {e}
  BY <1>1, RemoveFirstFacts
<1>4. /\ Append(rest, e) \in Seq(S) /\ Len(Append(rest, e)) = Len(rest) + 1
      /\ IsInjective(Append(rest, e))
      /\ ToSet(Append(rest, e)) = ToSet(rest) \cup {e}
  BY <1>2, <1>3, AppendFacts
<1>. QED
  BY <1>1, <1>2, <1>3, <1>4 DEF SpliceToBack

\* The inductive invariant is IndexConsistent: its parts hold one another up.
\* The evicted record's count falls to 0 and its entry is erased only because
\* no second record of its key stays in the list.
Inv == IndexConsistent

\* The facts about the list that every action's proof starts from.
LEMMA InvFacts ==
  ASSUME Inv
  PROVE  /\ cache_ \in Seq(Key)
         /\ Len(cache_) \in Nat
         /\ Len(cache_) <= Capacity
         /\ Capacity \in Nat /\ Capacity >= 1
         /\ MaxFrequency \in Nat /\ MaxFrequency >= 1
         /\ IsInjective(cache_)
         /\ frequency \in [Key -> 0..MaxFrequency]
         /\ \A key \in Key : key \in ToSet(cache_) <=> frequency[key] > 0
         /\ ToSet(cache_) \subseteq Key
         /\ pageIndex_ = ToSet(cache_)
         /\ CallsTypeOK
BY CapacityAssumption, MaxFrequencyAssumption
   DEF Inv, TypeOK, IndexConsistent, Resident

\* The record that min_element finds: of those with the smallest count, the
\* first.
LEMMA ResidentToEvictFacts ==
  ASSUME Inv, cache_ # <<>>
  PROVE  \E p \in 1..Len(cache_) :
           /\ ResidentToEvict = cache_[p]
           /\ \A i \in 1..Len(cache_) :
                /\ frequency[cache_[p]] <= frequency[cache_[i]]
                /\ frequency[cache_[p]] = frequency[cache_[i]] => p <= i
<1>. DEFINE Least(key) == \A other \in ToSet(cache_) : frequency[key] <= frequency[other]
            least == {i \in 1..Len(cache_) : Least(cache_[i])}
            counts == {frequency[key] : key \in ToSet(cache_)}
<1>1. /\ cache_ \in Seq(Key) /\ Len(cache_) \in Nat /\ Len(cache_) > 0
      /\ frequency \in [Key -> 0..MaxFrequency] /\ MaxFrequency \in Nat
      /\ ToSet(cache_) = {cache_[i] : i \in 1..Len(cache_)}
      /\ ToSet(cache_) \subseteq Key
      /\ \A key \in ToSet(cache_) : frequency[key] \in Nat
  <2>1. Len(cache_) > 0
    BY InvFacts
  <2>. QED
    BY <2>1, InvFacts DEF ToSet
<1>2. least # {}
  <2>1. counts \in SUBSET Nat /\ counts # {}
    BY <1>1
  <2>2. Min(counts) \in counts /\ \A n \in counts : Min(counts) <= n
    BY <2>1, Smallest
  <2>3. PICK i \in 1..Len(cache_) : Min(counts) = frequency[cache_[i]]
    BY <1>1, <2>2
  <2>4. Least(cache_[i])
    BY <2>2, <2>3
  <2>. QED
    BY <2>4
<1>3. least \in SUBSET Nat
  BY <1>1
<1>4. PICK p : p = Min(least)
  OBVIOUS
<1>5. p \in least /\ \A n \in least : p <= n
  BY <1>2, <1>3, <1>4, Smallest
<1>6. ResidentToEvict = cache_[p]
  BY <1>2, <1>4 DEF ResidentToEvict, SelectInSeq
<1>7. ASSUME NEW i \in 1..Len(cache_)
      PROVE  /\ frequency[cache_[p]] <= frequency[cache_[i]]
             /\ frequency[cache_[p]] = frequency[cache_[i]] => p <= i
  <2>1. cache_[i] \in ToSet(cache_) /\ p \in 1..Len(cache_)
    BY <1>1, <1>5
  <2>2. frequency[cache_[p]] <= frequency[cache_[i]]
    BY <1>5, <2>1
  <2>3. frequency[cache_[p]] = frequency[cache_[i]] => Least(cache_[i])
    BY <1>5
  <2>. QED
    BY <1>5, <2>2, <2>3
<1>. QED
  BY <1>5, <1>6, <1>7

\* What insert does to a full list: one record goes, key's comes last.
LEMMA InsertFullFacts ==
  ASSUME Inv, NEW key \in Key, Insert(key), IsFull
  PROVE  \E victim \in ToSet(cache_) :
           /\ victim = ResidentToEvict
           /\ cache_' = Append(RemoveFirst(cache_, victim), key)
           /\ cache_' \in Seq(Key)
           /\ Len(cache_') = Len(cache_)
           /\ IsInjective(cache_')
           /\ ToSet(cache_') = (ToSet(cache_) \ {victim}) \cup {key}
           /\ pageIndex_' = (ToSet(cache_) \ {victim}) \cup {key}
           /\ frequency' = [k \in Key |-> IF k = key THEN 1
                                          ELSE IF k = victim THEN 0 ELSE frequency[k]]
<1>1. /\ cache_ \in Seq(Key) /\ Len(cache_) \in Nat /\ Len(cache_) >= 1 /\ cache_ # <<>>
      /\ IsInjective(cache_) /\ pageIndex_ = ToSet(cache_)
      /\ key \notin ToSet(cache_)
  BY InvFacts DEF IsFull, Insert
<1>2. PICK victim : victim = ResidentToEvict
  OBVIOUS
<1>3. victim \in ToSet(cache_)
  BY <1>1, <1>2, ResidentToEvictFacts DEF ToSet
<1>4. PICK kept : kept = RemoveFirst(cache_, victim)
  OBVIOUS
<1>5. /\ kept \in Seq(Key) /\ Len(kept) = Len(cache_) - 1 /\ IsInjective(kept)
      /\ ToSet(kept) = ToSet(cache_) \ {victim}
  BY <1>1, <1>3, <1>4, RemoveFirstFacts
<1>6. /\ Append(kept, key) \in Seq(Key) /\ Len(Append(kept, key)) = Len(kept) + 1
      /\ IsInjective(Append(kept, key))
      /\ ToSet(Append(kept, key)) = ToSet(kept) \cup {key}
  BY <1>1, <1>5, AppendFacts
<1>7. /\ cache_' = Append(kept, key)
      /\ frequency' = [k \in Key |-> IF k = key THEN 1
                                     ELSE IF k \in {victim} THEN 0 ELSE frequency[k]]
      /\ pageIndex_' = (pageIndex_ \cup {key}) \ {victim}
  BY <1>2, <1>4 DEF Insert
<1>8. pageIndex_' = (ToSet(cache_) \ {victim}) \cup {key}
  BY <1>1, <1>3, <1>7
<1>9. frequency' = [k \in Key |-> IF k = key THEN 1
                                  ELSE IF k = victim THEN 0 ELSE frequency[k]]
  BY <1>7
<1>. QED
  BY <1>1, <1>2, <1>3, <1>4, <1>5, <1>6, <1>7, <1>8, <1>9

\* What insert does to a list that is not full: key's record comes last.
LEMMA InsertRoomFacts ==
  ASSUME Inv, NEW key \in Key, Insert(key), ~IsFull
  PROVE  /\ cache_' = Append(cache_, key)
         /\ cache_' \in Seq(Key)
         /\ Len(cache_') = Len(cache_) + 1
         /\ Len(cache_') <= Capacity
         /\ IsInjective(cache_')
         /\ ToSet(cache_') = ToSet(cache_) \cup {key}
         /\ pageIndex_' = ToSet(cache_) \cup {key}
         /\ frequency' = [k \in Key |-> IF k = key THEN 1 ELSE frequency[k]]
<1>1. /\ cache_ \in Seq(Key) /\ Len(cache_) \in Nat /\ Capacity \in Nat
      /\ IsInjective(cache_) /\ pageIndex_ = ToSet(cache_)
      /\ key \notin ToSet(cache_)
  BY InvFacts DEF Insert
<1>2. Len(cache_) + 1 <= Capacity
  BY <1>1 DEF IsFull
<1>3. /\ Append(cache_, key) \in Seq(Key) /\ Len(Append(cache_, key)) = Len(cache_) + 1
      /\ IsInjective(Append(cache_, key))
      /\ ToSet(Append(cache_, key)) = ToSet(cache_) \cup {key}
  BY <1>1, AppendFacts
<1>4. /\ cache_' = Append(cache_, key)
      /\ frequency' = [k \in Key |-> IF k = key THEN 1
                                     ELSE IF k \in {} THEN 0 ELSE frequency[k]]
      /\ pageIndex_' = (pageIndex_ \cup {key}) \ {}
  BY DEF Insert
<1>5. frequency' = [k \in Key |-> IF k = key THEN 1 ELSE frequency[k]]
  BY <1>4
<1>. QED
  BY <1>1, <1>2, <1>3, <1>4, <1>5

\* Nothing is cached at first.
LEMMA InitInv == Init => Inv
<1>. SUFFICES ASSUME Init PROVE Inv
  OBVIOUS
<1>1. <<>> \in Seq(Key) /\ Len(<<>>) = 0 /\ DOMAIN <<>> = {}
  BY EmptySeq
<1>2. ToSet(cache_) = {} /\ IsInjective(cache_)
  BY <1>1 DEF Init, ToSet, IsInjective
<1>. QED
  BY <1>1, <1>2, CapacityAssumption, MaxDepthAssumption, MaxFrequencyAssumption
     DEF Init, Inv, TypeOK, IndexConsistent, Resident, CallsTypeOK

\* Every action preserves the invariant.
LEMMA NextInv == Inv /\ [Next]_vars => Inv'
<1>. SUFFICES ASSUME Inv, [Next]_vars PROVE Inv'
  OBVIOUS
<1>. USE DEF Resident
<1>1. ASSUME NEW key \in Key, Hit(key) PROVE Inv'
  <2>1. cache_' = SpliceToBack(cache_, key) /\ key \in ToSet(cache_)
    BY <1>1, InvFacts DEF Hit, RecordHit
  <2>2. /\ cache_' \in Seq(Key)
        /\ Len(cache_') = Len(cache_)
        /\ IsInjective(cache_')
        /\ ToSet(cache_') = ToSet(cache_)
    BY <2>1, InvFacts, SpliceToBackFacts
  <2>3. /\ frequency' = [frequency EXCEPT ![key] = @ + 1]
        /\ frequency[key] \in Nat /\ frequency[key] + 1 <= MaxFrequency
        /\ frequency[key] + 1 > 0 /\ frequency[key] > 0
    BY <1>1, <2>1, InvFacts DEF Hit, RecordHit
  <2>4. frequency' \in [Key -> 0..MaxFrequency]
    BY <2>3, InvFacts
  <2>5. \A k \in Key : k \in ToSet(cache_) <=> frequency'[k] > 0
    BY <2>1, <2>3, InvFacts
  <2>6. CallsTypeOK' /\ pageIndex_' = ToSet(cache_) /\ Len(cache_') <= Capacity
    BY <1>1, <2>2, InvFacts DEF Hit, CallsTypeOK
  <2>. QED
    BY <2>2, <2>4, <2>5, <2>6, InvFacts DEF Inv, TypeOK, IndexConsistent
<1>2. ASSUME NEW key \in Key, Miss(key) PROVE Inv'
  <2>1. CallsTypeOK'
    BY <1>2, InvFacts, EnterKeepsCalls DEF Miss
  <2>. QED
    BY <1>2, <2>1 DEF Miss, store, Inv, TypeOK, IndexConsistent
<1>3. ASSUME NEW key \in Key, Insert(key) PROVE Inv'
  <2>1. CallsTypeOK'
    BY <1>3, InvFacts, LeaveKeepsCalls DEF Insert
  <2>2. CASE IsFull
    <3>1. PICK victim \in ToSet(cache_) :
            /\ cache_' \in Seq(Key)
            /\ Len(cache_') = Len(cache_)
            /\ IsInjective(cache_')
            /\ ToSet(cache_') = (ToSet(cache_) \ {victim}) \cup {key}
            /\ pageIndex_' = (ToSet(cache_) \ {victim}) \cup {key}
            /\ frequency' = [k \in Key |-> IF k = key THEN 1
                                           ELSE IF k = victim THEN 0 ELSE frequency[k]]
      BY <1>3, <2>2, InsertFullFacts
    <3>2. frequency' \in [Key -> 0..MaxFrequency]
      BY <3>1, InvFacts
    <3>3. \A k \in Key : k \in ToSet(cache_') <=> frequency'[k] > 0
      BY <3>1, InvFacts
    <3>4. ToSet(cache_') \subseteq Key
      BY <3>1, InvFacts
    <3>. QED
      BY <2>1, <3>1, <3>2, <3>3, <3>4, InvFacts DEF Inv, TypeOK, IndexConsistent
  <2>3. CASE ~IsFull
    <3>1. /\ cache_' \in Seq(Key)
          /\ Len(cache_') <= Capacity
          /\ IsInjective(cache_')
          /\ ToSet(cache_') = ToSet(cache_) \cup {key}
          /\ pageIndex_' = ToSet(cache_) \cup {key}
          /\ frequency' = [k \in Key |-> IF k = key THEN 1 ELSE frequency[k]]
      BY <1>3, <2>3, InsertRoomFacts
    <3>2. frequency' \in [Key -> 0..MaxFrequency]
      BY <3>1, InvFacts
    <3>3. \A k \in Key : k \in ToSet(cache_') <=> frequency'[k] > 0
      BY <3>1, InvFacts
    <3>4. ToSet(cache_') \subseteq Key
      BY <3>1, InvFacts
    <3>. QED
      BY <2>1, <3>1, <3>2, <3>3, <3>4, InvFacts DEF Inv, TypeOK, IndexConsistent
  <2>. QED
    BY <2>2, <2>3
<1>4. ASSUME NEW key \in Key, InsertThrows(key) PROVE Inv'
  <2>1. CallsTypeOK'
    BY <1>4, InvFacts, LeaveKeepsCalls DEF InsertThrows
  <2>2. pageIndex_' = pageIndex_
    BY <1>4 DEF InsertThrows
  <2>. QED
    BY <1>4, <2>1, <2>2 DEF InsertThrows, Inv, TypeOK, IndexConsistent
<1>5. ASSUME NEW key \in Key, InsertDuplicate(key) \/ LoadThrows(key) PROVE Inv'
  <2>1. CallsTypeOK'
    BY <1>5, InvFacts, LeaveKeepsCalls DEF InsertDuplicate, LoadThrows
  <2>. QED
    BY <1>5, <2>1 DEF InsertDuplicate, LoadThrows, store, Inv, TypeOK, IndexConsistent
<1>6. ASSUME UNCHANGED vars PROVE Inv'
  BY <1>6 DEF vars, Inv, TypeOK, IndexConsistent, CallsTypeOK
<1>. QED
  BY <1>1, <1>2, <1>3, <1>4, <1>5, <1>6 DEF Next

\* The list stays within the capacity and every key has one record at most;
\* list, counts and index agree.
THEOREM IndexCorrect == Spec => []IndexConsistent
<1>1. Inv <=> IndexConsistent
  BY DEF Inv
<1>. QED
  BY InitInv, NextInv, <1>1, PTL DEF Spec

-----------------------------------------------------------------------------
(***************************************************************************)
(* Refinement.                                                             *)
(***************************************************************************)

\* The contract's stack of calls and its count of a set are CacheLFU's own.
LEMMA SameProtocol ==
  /\ \A key : Contract!Leave(key) <=> Leave(key)
  /\ \A key : Contract!Enter(key) <=> Enter(key)
  /\ \A S : Contract!Cardinality(S) = Cardinality(S)
<1>1. \A key : Contract!Leave(key) <=> Leave(key)
  BY DEF Contract!Leave, Contract!Last, Contract!Front, Leave, Last, Front
<1>2. \A key : Contract!Enter(key) <=> Enter(key)
  BY DEF Contract!Enter, Enter
<1>3. \A S : Contract!Cardinality(S) = Cardinality(S)
  BY DEF Contract!Cardinality, Cardinality
<1>. QED
  BY <1>1, <1>2, <1>3

\* Every step of the LFU cache is a step that a client of Cache may see.
LEMMA StepRefines ==
  ASSUME Inv, [Next]_vars
  PROVE  [Contract!Next]_(Contract!vars)
<1>1. /\ IsFiniteSet(ToSet(cache_))
      /\ Cardinality(ToSet(cache_)) = Len(cache_)
      /\ pageIndex_ = ToSet(cache_)
  BY InvFacts, InjectiveCardinality
<1>2. ASSUME NEW key \in Key, Hit(key) PROVE UNCHANGED Contract!vars
  BY <1>2 DEF Hit, Contract!vars
<1>3. ASSUME NEW key \in Key, Miss(key) PROVE Contract!Miss(key)
  BY <1>3, SameProtocol DEF Miss, store, Contract!Miss
<1>4. ASSUME NEW key \in Key, Insert(key) PROVE Contract!Insert(key)
  <2>1. key \notin pageIndex_ /\ Contract!Leave(key)
    BY <1>4, SameProtocol DEF Insert
  <2>2. CASE IsFull
    <3>1. PICK victim \in ToSet(cache_) :
            pageIndex_' = (ToSet(cache_) \ {victim}) \cup {key}
      BY <1>4, <2>2, InsertFullFacts
    <3>2. Len(cache_) >= Capacity /\ Len(cache_) \in Nat /\ Capacity \in Nat
      BY <2>2, InvFacts DEF IsFull
    <3>3. ~(Contract!Cardinality(pageIndex_) < Capacity)
      BY <1>1, <3>2, SameProtocol
    <3>. QED
      BY <1>1, <2>1, <3>1, <3>3 DEF Contract!Insert
  <2>3. CASE ~IsFull
    <3>1. pageIndex_' = ToSet(cache_) \cup {key}
      BY <1>4, <2>3, InsertRoomFacts
    <3>2. Contract!Cardinality(pageIndex_) < Capacity
      BY <1>1, <2>3, InvFacts, SameProtocol DEF IsFull
    <3>. QED
      BY <1>1, <2>1, <3>1, <3>2 DEF Contract!Insert
  <2>. QED
    BY <2>2, <2>3
<1>5. ASSUME NEW key \in Key,
             InsertThrows(key) \/ InsertDuplicate(key) \/ LoadThrows(key)
      PROVE  Contract!Fail(key)
  BY <1>5, SameProtocol
     DEF InsertThrows, InsertDuplicate, LoadThrows, store, Contract!Fail
<1>6. ASSUME UNCHANGED vars PROVE UNCHANGED Contract!vars
  BY <1>6 DEF vars, Contract!vars
<1>7. CASE Next
  BY <1>2, <1>3, <1>4, <1>5, <1>7 DEF Next, Contract!Next
<1>. QED
  BY <1>6, <1>7

\* CacheLFU implements the contract of Cache::lookupUpdate: the keys of its
\* index change only as the contract allows, and they are those of its list.
THEOREM Refinement == Spec => ImplementsCache
<1>1. Init => Contract!Init
  BY DEF Init, Contract!Init
<1>2. Inv /\ [Next]_vars => [Contract!Next]_(Contract!vars)
  BY StepRefines
<1>3. Inv /\ [Next]_vars => [IndexConsistent']_vars
  BY NextInv DEF Inv
<1>. QED
  BY <1>1, <1>2, <1>3, InitInv, NextInv, PTL DEF Spec, ImplementsCache, Contract!Spec

-----------------------------------------------------------------------------
(***************************************************************************)
(* Eviction by the number of uses, and by their age.                       *)
(***************************************************************************)

\* The uses of x in a list of uses.
UsesIn(list, x) == Len(Among(list, {x}))

\* The last use of y comes after every use of x.
Later(list, x, y) ==
  \E j \in 1..Len(list) : list[j] = y /\ \A i \in 1..Len(list) : list[i] = x => i < j

\* One more use.
LEMMA UsesAppend ==
  ASSUME NEW S, NEW list \in Seq(S), NEW item \in S
  PROVE  \A x : /\ UsesIn(list, x) \in Nat
                /\ UsesIn(Append(list, item), x)
                     = IF x = item THEN UsesIn(list, x) + 1 ELSE UsesIn(list, x)
<1>. TAKE x
<1>1. /\ Among(list, {x}) \in Seq(S)
      /\ Among(Append(list, item), {x}) =
           IF item \in {x} THEN Append(Among(list, {x}), item) ELSE Among(list, {x})
  BY AmongAppend
<1>2. PICK kept \in Seq(S) : kept = Among(list, {x})
  BY <1>1
<1>3. Len(kept) \in Nat /\ Len(Append(kept, item)) = Len(kept) + 1
  OBVIOUS
<1>. QED
  BY <1>1, <1>2, <1>3 DEF UsesIn

\* Forgetting the uses of other items.
LEMMA UsesAmong ==
  ASSUME NEW S, NEW list \in Seq(S), NEW T, NEW x \in T
  PROVE  UsesIn(Among(list, T), x) = UsesIn(list, x)
<1>1. Among(Among(list, T), {x}) = Among(list, T \cap {x})
  BY AmongAmong
<1>2. T \cap {x} = {x}
  OBVIOUS
<1>. QED
  BY <1>1, <1>2 DEF UsesIn

\* Whether x or y is the later one changes only when one of them is used.
LEMMA LaterAppend ==
  ASSUME NEW S, NEW list \in Seq(S), NEW item \in S, NEW x, NEW y, x # y
  PROVE  Later(Append(list, item), x, y)
           <=> item = y \/ (item # x /\ Later(list, x, y))
<1>1. PICK n \in Nat : n = Len(list)
  OBVIOUS
<1>2. PICK longer \in Seq(S) : longer = Append(list, item)
  <2>. Append(list, item) \in Seq(S)
    OBVIOUS
  <2>. QED
    OBVIOUS
<1>3. /\ Len(longer) = n + 1 /\ longer[n + 1] = item
      /\ \A i \in 1..n : longer[i] = list[i]
  BY <1>1, <1>2
<1>4. ASSUME item = y PROVE Later(longer, x, y)
  <2>1. \A i \in 1..(n + 1) : longer[i] = x => i < n + 1
    BY <1>3, <1>4
  <2>. QED
    BY <1>3, <1>4, <2>1 DEF Later
<1>5. ASSUME item # x, Later(list, x, y) PROVE Later(longer, x, y)
  <2>1. PICK j \in 1..n : list[j] = y /\ \A i \in 1..n : list[i] = x => i < j
    BY <1>1, <1>5 DEF Later
  <2>2. j \in 1..(n + 1) /\ longer[j] = y
    BY <1>3, <2>1
  <2>3. \A i \in 1..(n + 1) : longer[i] = x => i < j
    BY <1>3, <1>5, <2>1
  <2>. QED
    BY <1>3, <2>2, <2>3 DEF Later
<1>6. ASSUME Later(longer, x, y), item # y PROVE item # x /\ Later(list, x, y)
  <2>1. PICK j \in 1..(n + 1) :
          longer[j] = y /\ \A i \in 1..(n + 1) : longer[i] = x => i < j
    BY <1>3, <1>6 DEF Later
  <2>2. j \in 1..n
    BY <1>3, <1>6, <2>1
  <2>3. item # x
    BY <1>3, <2>1, <2>2
  <2>4. list[j] = y /\ \A i \in 1..n : list[i] = x => i < j
    BY <1>3, <2>1, <2>2
  <2>. QED
    BY <1>1, <2>2, <2>3, <2>4 DEF Later
<1>. QED
  BY <1>2, <1>4, <1>5, <1>6

\* Forgetting the uses of other items.
LEMMA LaterAmong ==
  ASSUME NEW S, NEW T, NEW x \in T, NEW y \in T, x # y
  PROVE  \A list \in Seq(S) : Later(Among(list, T), x, y) <=> Later(list, x, y)
<1>. DEFINE P == {list \in Seq(S) : Later(Among(list, T), x, y) <=> Later(list, x, y)}
<1>1. <<>> \in P
  BY AmongEmpty
<1>2. ASSUME NEW list \in Seq(S), NEW item \in S, list \in P
      PROVE  Append(list, item) \in P
  <2>1. /\ Among(list, T) \in Seq(S)
        /\ Among(Append(list, item), T)
             = IF item \in T THEN Append(Among(list, T), item) ELSE Among(list, T)
    BY AmongAppend
  <2>2. PICK kept \in Seq(S) : kept = Among(list, T)
    BY <2>1
  <2>3. Later(Append(list, item), x, y)
           <=> item = y \/ (item # x /\ Later(list, x, y))
    BY LaterAppend
  <2>4. Later(Append(kept, item), x, y)
           <=> item = y \/ (item # x /\ Later(kept, x, y))
    BY LaterAppend
  <2>5. Later(kept, x, y) <=> Later(list, x, y)
    BY <1>2, <2>2
  <2>6. Later(Among(Append(list, item), T), x, y) <=> Later(Append(list, item), x, y)
    <3>1. CASE item \in T
      <4>1. Among(Append(list, item), T) = Append(kept, item)
        BY <2>1, <2>2, <3>1
      <4>. QED
        BY <2>3, <2>4, <2>5, <4>1
    <3>2. CASE item \notin T
      <4>1. Among(Append(list, item), T) = kept /\ item # x /\ item # y
        BY <2>1, <2>2, <3>2
      <4>. QED
        BY <2>3, <2>5, <4>1
    <3>. QED
      BY <3>1, <3>2
  <2>7. Append(list, item) \in Seq(S)
    OBVIOUS
  <2>. QED
    BY <2>6, <2>7
<1>. HIDE DEF P
<1>3. \A list \in Seq(S) : list \in P
  BY <1>1, <1>2, ListInduction
<1>. QED
  BY <1>3 DEF P

\* Every record of the list was used after the ones before it.
InOrder(list, used) ==
  \A i, j \in 1..Len(list) : i < j => Later(used, list[i], list[j])

\* Without one of the records.
LEMMA OrderWithout ==
  ASSUME NEW S, NEW list \in Seq(S), IsInjective(list), NEW e \in ToSet(list),
         NEW used, InOrder(list, used)
  PROVE  InOrder(RemoveFirst(list, e), used)
<1>1. PICK rest : rest = RemoveFirst(list, e)
  OBVIOUS
<1>2. PICK n \in Nat : n = Len(list)
  OBVIOUS
<1>3. PICK p \in 1..n :
        /\ rest \in Seq(S) /\ Len(rest) = n - 1
        /\ \A i \in 1..(n - 1) : rest[i] = IF i < p THEN list[i] ELSE list[i + 1]
  BY <1>1, <1>2, RemoveFirstAt
<1>4. ASSUME NEW i \in 1..(n - 1), NEW j \in 1..(n - 1), i < j
      PROVE  Later(used, rest[i], rest[j])
  <2>1. PICK k \in 1..n : rest[i] = list[k] /\ (IF i < p THEN k = i ELSE k = i + 1)
    BY <1>3
  <2>2. PICK m \in 1..n : rest[j] = list[m] /\ (IF j < p THEN m = j ELSE m = j + 1)
    BY <1>3
  <2>3. k < m
    BY <1>4, <2>1, <2>2
  <2>. QED
    BY <1>2, <2>1, <2>2, <2>3 DEF InOrder
<1>. QED
  BY <1>1, <1>3, <1>4 DEF InOrder

\* A record put at the end when it is used.
LEMMA OrderAppend ==
  ASSUME NEW S, NEW list \in Seq(S), NEW used \in Seq(S), NEW e \in S,
         IsInjective(list), e \notin ToSet(list), InOrder(list, used)
  PROVE  InOrder(Append(list, e), Append(used, e))
<1>1. PICK n \in Nat : n = Len(list)
  OBVIOUS
<1>2. PICK longer \in Seq(S) : longer = Append(list, e)
  <2>. Append(list, e) \in Seq(S)
    OBVIOUS
  <2>. QED
    OBVIOUS
<1>3. /\ Len(longer) = n + 1 /\ longer[n + 1] = e
      /\ \A i \in 1..n : longer[i] = list[i] /\ longer[i] # e
      /\ \A i, j \in 1..n : list[i] = list[j] => i = j
  BY <1>1, <1>2 DEF ToSet, IsInjective
<1>4. ASSUME NEW i \in 1..(n + 1), NEW j \in 1..(n + 1), i < j
      PROVE  Later(Append(used, e), longer[i], longer[j])
  <2>1. i \in 1..n
    BY <1>4
  <2>2. CASE j = n + 1
    BY <1>3, <2>1, <2>2, LaterAppend
  <2>3. CASE j \in 1..n
    <3>1. Later(used, list[i], list[j]) /\ list[i] # list[j]
      BY <1>1, <1>3, <1>4, <2>1, <2>3 DEF InOrder
    <3>. QED
      BY <1>3, <2>1, <2>3, <3>1, LaterAppend
  <2>. QED
    BY <2>2, <2>3
<1>. QED
  BY <1>2, <1>3, <1>4 DEF InOrder

\* The order concerns the uses of the records only.
LEMMA OrderAmong ==
  ASSUME NEW S, NEW list \in Seq(S), IsInjective(list), NEW used \in Seq(S),
         NEW T, ToSet(list) \subseteq T, InOrder(list, used)
  PROVE  InOrder(list, Among(used, T))
<1>1. PICK n \in Nat : n = Len(list)
  OBVIOUS
<1>2. \A i, j \in 1..n : list[i] \in T /\ (list[i] = list[j] => i = j)
  BY <1>1 DEF ToSet, IsInjective
<1>3. ASSUME NEW i \in 1..n, NEW j \in 1..n, i < j
      PROVE  Later(Among(used, T), list[i], list[j])
  <2>1. list[i] \in T /\ list[j] \in T /\ list[i] # list[j]
    BY <1>2, <1>3
  <2>2. Later(used, list[i], list[j])
    BY <1>1, <1>3 DEF InOrder
  <2>. QED
    BY <2>1, <2>2, LaterAmong
<1>. QED
  BY <1>1, <1>3 DEF InOrder

\* The invariant of the history: the list orders the records by their last
\* uses, and a record's count is the number of its uses since it was loaded.
UsesInv ==
  /\ uses \in Seq(Key)
  /\ \A key \in Key : UsesIn(uses, key) = frequency[key]
  /\ InOrder(cache_, uses)

\* An action of the history specification is an action of CacheLFU.
LEMMA HistoryStep == [HistoryNext]_historyVars => [Next]_vars
BY DEF HistoryNext, Use, NoUse, Next, historyVars, vars

\* No key has been used at first.
LEMMA UsesInit == HistoryInit => UsesInv
<1>. SUFFICES ASSUME HistoryInit PROVE UsesInv
  OBVIOUS
<1>1. <<>> \in Seq(Key) /\ Len(<<>>) = 0
  BY EmptySeq
<1>2. \A key : UsesIn(<<>>, key) = 0
  BY <1>1, AmongEmpty DEF UsesIn
<1>3. InOrder(<<>>, <<>>)
  BY <1>1 DEF InOrder
<1>. QED
  BY <1>1, <1>2, <1>3 DEF HistoryInit, Init, UsesInv

\* After a use, for the list without the record that was used.
LEMMA UseKeepsOrder ==
  ASSUME NEW list \in Seq(Key), IsInjective(list), uses \in Seq(Key),
         InOrder(list, uses), NEW key \in Key, key \notin ToSet(list),
         cache_' = Append(list, key), uses' = Among(Append(uses, key), ToSet(cache_'))
  PROVE  uses' \in Seq(Key) /\ InOrder(cache_', uses')
<1>1. PICK longer \in Seq(Key) : longer = Append(uses, key)
  <2>. Append(uses, key) \in Seq(Key)
    OBVIOUS
  <2>. QED
    OBVIOUS
<1>2. PICK new : new = Append(list, key)
  OBVIOUS
<1>3. new \in Seq(Key) /\ IsInjective(new)
  BY <1>2, AppendFacts
<1>4. InOrder(new, longer)
  BY <1>1, <1>2, OrderAppend
<1>5. InOrder(new, Among(longer, ToSet(new)))
  BY <1>1, <1>3, <1>4, OrderAmong
<1>6. Among(longer, ToSet(new)) \in Seq(Key)
  BY <1>1, AmongType
<1>. QED
  BY <1>1, <1>2, <1>5, <1>6

\* After a use: one more of key, and none of what is no longer resident.
LEMMA UseCounts ==
  ASSUME UsesInv, NEW key \in Key, NEW kept, uses' = Among(Append(uses, key), kept)
  PROVE  \A k \in Key :
           UsesIn(uses', k) = IF k \notin kept THEN 0
                              ELSE IF k = key THEN frequency[k] + 1 ELSE frequency[k]
<1>1. PICK longer \in Seq(Key) : longer = Append(uses, key)
  <2>. Append(uses, key) \in Seq(Key)
    BY DEF UsesInv
  <2>. QED
    OBVIOUS
<1>2. ASSUME NEW k \in Key, k \in kept
      PROVE  UsesIn(Among(longer, kept), k) = IF k = key THEN frequency[k] + 1 ELSE frequency[k]
  <2>1. UsesIn(Among(longer, kept), k) = UsesIn(longer, k)
    BY <1>1, <1>2, UsesAmong
  <2>2. UsesIn(longer, k) = IF k = key THEN UsesIn(uses, k) + 1 ELSE UsesIn(uses, k)
    BY <1>1, UsesAppend DEF UsesInv
  <2>. QED
    BY <2>1, <2>2 DEF UsesInv
<1>3. ASSUME NEW k \in Key, k \notin kept
      PROVE  UsesIn(Among(longer, kept), k) = 0
  <2>1. Among(Among(longer, kept), {k}) = Among(longer, kept \cap {k})
    <3>1. \A list \in Seq(Key) : Among(Among(list, kept), {k}) = Among(list, kept \cap {k})
      BY AmongAmong
    <3>. QED
      BY <1>1, <3>1
  <2>2. kept \cap {k} = {}
    BY <1>3
  <2>3. Len(Among(longer, {})) = Cardinality({i \in DOMAIN longer : longer[i] \in {}})
    BY <1>1, AmongLength
  <2>4. {i \in DOMAIN longer : longer[i] \in {}} = {}
    OBVIOUS
  <2>. QED
    BY <2>1, <2>2, <2>3, <2>4, FS_EmptySet DEF UsesIn
<1>. QED
  BY <1>1, <1>2, <1>3

\* Every action preserves the order and the counts.
LEMMA UsesNext == Inv /\ UsesInv /\ [HistoryNext]_historyVars => UsesInv'
<1>. SUFFICES ASSUME Inv, UsesInv, [HistoryNext]_historyVars PROVE UsesInv'
  OBVIOUS
<1>. USE DEF Resident
<1>1. ASSUME NEW key \in Key, Hit(key), uses' = Among(Append(uses, key), Resident')
      PROVE  UsesInv'
  <2>1. cache_' = SpliceToBack(cache_, key) /\ key \in ToSet(cache_)
    BY <1>1, InvFacts DEF Hit, RecordHit
  <2>2. PICK rest : rest = RemoveFirst(cache_, key)
    OBVIOUS
  <2>3. /\ rest \in Seq(Key) /\ IsInjective(rest)
        /\ ToSet(rest) = ToSet(cache_) \ {key}
    BY <2>1, <2>2, InvFacts, RemoveFirstFacts
  <2>4. InOrder(rest, uses)
    BY <2>1, <2>2, InvFacts, OrderWithout DEF UsesInv
  <2>5. cache_' = Append(rest, key)
    BY <2>1, <2>2 DEF SpliceToBack
  <2>6. uses' \in Seq(Key) /\ InOrder(cache_', uses')
    BY <1>1, <2>3, <2>4, <2>5, UseKeepsOrder DEF UsesInv
  <2>7. ToSet(cache_') = ToSet(cache_)
    BY <2>1, InvFacts, SpliceToBackFacts
  <2>8. ASSUME NEW k \in Key PROVE UsesIn(uses', k) = frequency'[k]
    <3>1. UsesIn(uses', k) = IF k \notin ToSet(cache_') THEN 0
                             ELSE IF k = key THEN frequency[k] + 1 ELSE frequency[k]
      BY <1>1, UseCounts
    <3>2. frequency'[k] = IF k = key THEN frequency[k] + 1 ELSE frequency[k]
      BY <1>1, InvFacts DEF Hit, RecordHit
    <3>3. frequency[k] \in Nat /\ (k \in ToSet(cache_) <=> frequency[k] > 0)
      BY InvFacts
    <3>. QED
      BY <2>1, <2>7, <3>1, <3>2, <3>3
  <2>. QED
    BY <2>6, <2>8 DEF UsesInv
<1>2. ASSUME NEW key \in Key, Insert(key), uses' = Among(Append(uses, key), Resident')
      PROVE  UsesInv'
  <2>1. key \notin ToSet(cache_) /\ frequency[key] = 0
    BY <1>2, InvFacts DEF Insert
  <2>2. CASE IsFull
    <3>1. PICK victim \in ToSet(cache_) :
            /\ cache_' = Append(RemoveFirst(cache_, victim), key)
            /\ ToSet(cache_') = (ToSet(cache_) \ {victim}) \cup {key}
            /\ frequency' = [k \in Key |-> IF k = key THEN 1
                                           ELSE IF k = victim THEN 0 ELSE frequency[k]]
      BY <1>2, <2>2, InsertFullFacts
    <3>2. PICK rest : rest = RemoveFirst(cache_, victim)
      OBVIOUS
    <3>3. /\ rest \in Seq(Key) /\ IsInjective(rest)
          /\ ToSet(rest) = ToSet(cache_) \ {victim}
      BY <3>2, InvFacts, RemoveFirstFacts
    <3>4. InOrder(rest, uses)
      BY <3>2, InvFacts, OrderWithout DEF UsesInv
    <3>5. uses' \in Seq(Key) /\ InOrder(cache_', uses')
      BY <1>2, <2>1, <3>1, <3>2, <3>3, <3>4, UseKeepsOrder DEF UsesInv
    <3>6. ASSUME NEW k \in Key PROVE UsesIn(uses', k) = frequency'[k]
      <4>1. UsesIn(uses', k) = IF k \notin ToSet(cache_') THEN 0
                               ELSE IF k = key THEN frequency[k] + 1 ELSE frequency[k]
        BY <1>2, UseCounts
      <4>2. frequency'[k] = IF k = key THEN 1 ELSE IF k = victim THEN 0 ELSE frequency[k]
        BY <3>1
      <4>3. frequency[k] \in Nat /\ (k \in ToSet(cache_) <=> frequency[k] > 0)
        BY InvFacts
      <4>. QED
        BY <2>1, <3>1, <4>1, <4>2, <4>3
    <3>. QED
      BY <3>5, <3>6 DEF UsesInv
  <2>3. CASE ~IsFull
    <3>1. /\ cache_' = Append(cache_, key)
          /\ ToSet(cache_') = ToSet(cache_) \cup {key}
          /\ frequency' = [k \in Key |-> IF k = key THEN 1 ELSE frequency[k]]
      BY <1>2, <2>3, InsertRoomFacts
    <3>2. uses' \in Seq(Key) /\ InOrder(cache_', uses')
      BY <1>2, <2>1, <3>1, InvFacts, UseKeepsOrder DEF UsesInv
    <3>3. ASSUME NEW k \in Key PROVE UsesIn(uses', k) = frequency'[k]
      <4>1. UsesIn(uses', k) = IF k \notin ToSet(cache_') THEN 0
                               ELSE IF k = key THEN frequency[k] + 1 ELSE frequency[k]
        BY <1>2, UseCounts
      <4>2. frequency'[k] = IF k = key THEN 1 ELSE frequency[k]
        BY <3>1
      <4>3. frequency[k] \in Nat /\ (k \in ToSet(cache_) <=> frequency[k] > 0)
        BY InvFacts
      <4>. QED
        BY <2>1, <3>1, <4>1, <4>2, <4>3
    <3>. QED
      BY <3>2, <3>3 DEF UsesInv
  <2>. QED
    BY <2>2, <2>3
<1>3. ASSUME NEW key \in Key, NoUse(key) PROVE UsesInv'
  BY <1>3 DEF NoUse, Miss, InsertThrows, InsertDuplicate, LoadThrows, store, UsesInv
<1>4. ASSUME UNCHANGED historyVars PROVE UsesInv'
  BY <1>4 DEF historyVars, UsesInv
<1>. QED
  BY <1>1, <1>2, <1>3, <1>4 DEF HistoryNext, Use

\* What the history says of two resident keys, in the words of EvictsLeastUsed.
LEMMA HistoryWords ==
  ASSUME UsesInv
  PROVE  /\ \A key \in Key : UsesOf(key) = frequency[key]
         /\ \A x, y \in Key : Later(uses, x, y) /\ frequency[x] > 0
                                => LastUseOf(x) < LastUseOf(y)
<1>1. PICK n \in Nat : n = Len(uses) /\ DOMAIN uses = 1..n
  BY DEF UsesInv
<1>2. ASSUME NEW key \in Key
      PROVE  /\ UsesOf(key) = frequency[key]
             /\ IsFiniteSet({i \in DOMAIN uses : uses[i] = key})
  <2>1. /\ IsFiniteSet({i \in DOMAIN uses : uses[i] \in {key}})
        /\ UsesIn(uses, key) = Cardinality({i \in DOMAIN uses : uses[i] \in {key}})
    BY AmongLength DEF UsesIn, UsesInv
  <2>2. {i \in DOMAIN uses : uses[i] \in {key}} = {i \in DOMAIN uses : uses[i] = key}
    OBVIOUS
  <2>. QED
    BY <2>1, <2>2 DEF UsesOf, UsesInv
<1>3. ASSUME NEW x \in Key, NEW y \in Key, Later(uses, x, y), frequency[x] > 0
      PROVE  LastUseOf(x) < LastUseOf(y)
  <2>1. PICK j \in 1..n : uses[j] = y /\ \A i \in 1..n : uses[i] = x => i < j
    BY <1>1, <1>3 DEF Later
  <2>2. PICK ofX : ofX = {i \in DOMAIN uses : uses[i] = x}
    OBVIOUS
  <2>3. PICK ofY : ofY = {i \in DOMAIN uses : uses[i] = y}
    OBVIOUS
  <2>4. ofX # {}
    <3>1. Cardinality(ofX) = frequency[x]
      BY <1>2, <2>2 DEF UsesOf
    <3>2. CASE ofX = {}
      <4>1. Cardinality(ofX) = 0
        BY <3>2, FS_EmptySet
      <4>. QED
        BY <1>3, <3>1, <4>1
    <3>. QED
      BY <3>2
  <2>5. ofX \in SUBSET (1..n) /\ ofY \in SUBSET (1..n) /\ j \in ofY
    BY <1>1, <2>1, <2>2, <2>3
  <2>6. PICK lastX : lastX = Max(ofX)
    OBVIOUS
  <2>7. PICK lastY : lastY = Max(ofY)
    OBVIOUS
  <2>8. lastX \in ofX
    BY <2>4, <2>5, <2>6, Greatest
  <2>9. lastY \in ofY /\ j <= lastY
    BY <2>5, <2>7, Greatest
  <2>10. lastX \in 1..n /\ lastY \in 1..n /\ lastX < j
    BY <1>1, <2>1, <2>2, <2>5, <2>8, <2>9
  <2>11. lastX < lastY
    BY <2>9, <2>10
  <2>. QED
    BY <2>2, <2>3, <2>6, <2>7, <2>11 DEF LastUseOf
<1>. QED
  BY <1>2, <1>3

\* CacheLFU evicts by the number of uses and, where it is the same, by their
\* age: what min_element finds first in the list, which a hit reorders
\* whatever the counts are, is the page used longest ago of those used least.
THEOREM EvictsByUse == HistorySpec => EvictsLeastUsed
<1>. DEFINE Evicts ==
       \A victim \in Resident \ Resident' : \A kept \in Resident \ {victim} :
         \/ UsesOf(victim) < UsesOf(kept)
         \/ UsesOf(victim) = UsesOf(kept) /\ LastUseOf(victim) < LastUseOf(kept)
<1>1. Inv /\ UsesInv /\ [HistoryNext]_historyVars => [Evicts]_historyVars
  <2>. SUFFICES ASSUME Inv, UsesInv, HistoryNext,
                       NEW victim \in Resident \ Resident', NEW kept \in Resident \ {victim}
                PROVE  \/ UsesOf(victim) < UsesOf(kept)
                       \/ UsesOf(victim) = UsesOf(kept) /\ LastUseOf(victim) < LastUseOf(kept)
    OBVIOUS
  <2>. USE DEF Resident
  <2>1. PICK key \in Key : Insert(key) /\ IsFull
    <3>1. ASSUME NEW key \in Key, Hit(key) PROVE FALSE
      <4>1. cache_' = SpliceToBack(cache_, key) /\ key \in ToSet(cache_)
        BY <3>1, InvFacts DEF Hit, RecordHit
      <4>2. ToSet(cache_') = ToSet(cache_)
        BY <4>1, InvFacts, SpliceToBackFacts
      <4>. QED
        BY <4>2
    <3>2. ASSUME NEW key \in Key, NoUse(key) PROVE FALSE
      BY <3>2 DEF NoUse, Miss, InsertThrows, InsertDuplicate, LoadThrows, store
    <3>3. ASSUME NEW key \in Key, Insert(key), ~IsFull PROVE FALSE
      BY <3>3, InsertRoomFacts
    <3>. QED
      BY <3>1, <3>2, <3>3 DEF HistoryNext, Use
  <2>2. victim = ResidentToEvict
    BY <2>1, InsertFullFacts
  <2>3. PICK n \in Nat : n = Len(cache_)
    BY InvFacts
  <2>4. PICK p \in 1..n :
          /\ victim = cache_[p]
          /\ \A i \in 1..n :
               /\ frequency[cache_[p]] <= frequency[cache_[i]]
               /\ frequency[cache_[p]] = frequency[cache_[i]] => p <= i
    <3>1. cache_ # <<>>
      BY InvFacts DEF ToSet
    <3>. QED
      BY <2>2, <2>3, <3>1, ResidentToEvictFacts
  <2>5. PICK i \in 1..n : kept = cache_[i]
    BY <2>3, InvFacts DEF ToSet
  <2>6. /\ victim \in Key /\ kept \in Key
        /\ UsesOf(victim) = frequency[victim] /\ UsesOf(kept) = frequency[kept]
        /\ frequency[victim] \in Nat /\ frequency[kept] \in Nat /\ frequency[victim] > 0
    BY InvFacts, HistoryWords
  <2>7. CASE frequency[victim] = frequency[kept]
    <3>1. p < i
      BY <2>4, <2>5, <2>7
    <3>2. Later(uses, victim, kept)
      BY <2>3, <2>4, <2>5, <3>1 DEF UsesInv, InOrder
    <3>3. LastUseOf(victim) < LastUseOf(kept)
      BY <2>6, <3>2, HistoryWords
    <3>. QED
      BY <2>6, <2>7, <3>3
  <2>8. CASE frequency[victim] # frequency[kept]
    <3>1. frequency[victim] <= frequency[kept]
      BY <2>4, <2>5
    <3>. QED
      BY <2>6, <2>8, <3>1
  <2>. QED
    BY <2>7, <2>8
<1>2. HistoryInit => Inv /\ UsesInv
  BY InitInv, UsesInit DEF HistoryInit
<1>3. Inv /\ UsesInv /\ [HistoryNext]_historyVars => (Inv /\ UsesInv)'
  BY HistoryStep, NextInv, UsesNext
<1>. QED
  BY <1>1, <1>2, <1>3, PTL DEF HistorySpec, EvictsLeastUsed
=============================================================================
