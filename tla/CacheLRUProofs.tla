--------------------------- MODULE CacheLRUProofs ---------------------------
(***************************************************************************)
(* Theorems about CacheLRU, for every set of keys, every capacity and      *)
(* every depth of nested calls.                                            *)
(***************************************************************************)
EXTENDS CacheLRUHistory, ListProofs

\* Starting a call keeps the stack within its bound.
LEMMA EnterKeepsCalls ==
  ASSUME NEW key \in Key, CallsTypeOK, Enter(key)
  PROVE  CallsTypeOK'
BY MaxDepthAssumption DEF CallsTypeOK, Enter

\* A call that ends takes its key, and nothing else, off the stack.
LEMMA LeaveKeepsCalls ==
  ASSUME NEW key, CallsTypeOK, Leave(key)
  PROVE  /\ CallsTypeOK'
         /\ Len(calls') = Len(calls) - 1
         /\ key \in Key
         /\ key = Last(calls)
BY FrontFacts, MaxDepthAssumption DEF CallsTypeOK, Leave

\* The inductive invariant.  Insert keeps the index right only because the
\* list holds no key twice: then evicting the last record takes away the
\* only record of its key, and the entry erased with it is the right one.
Inv == TypeOK /\ IndexConsistent

\* The facts about the list that every action's proof starts from.
LEMMA InvFacts ==
  ASSUME Inv
  PROVE  /\ cache_ \in Seq(Key)
         /\ Len(cache_) \in Nat
         /\ Capacity \in Nat /\ Capacity >= 1
         /\ IsInjective(cache_)
         /\ pageIndex_ = ToSet(cache_)
         /\ CallsTypeOK
BY CapacityAssumption DEF Inv, TypeOK, IndexConsistent, Resident

\* What insert does to a full list: the last record goes, key's comes first.
LEMMA InsertFullFacts ==
  ASSUME Inv, NEW key \in Key, key \notin pageIndex_, IsFull
  PROVE  /\ cache_ # <<>>
         /\ Cons(key, Front(cache_)) \in Seq(Key)
         /\ Len(Cons(key, Front(cache_))) = Len(cache_)
         /\ IsInjective(Cons(key, Front(cache_)))
         /\ ToSet(Cons(key, Front(cache_)))
              = (ToSet(cache_) \cup {key}) \ {Last(cache_)}
         /\ Last(cache_) \in ToSet(cache_)
<1>1. /\ cache_ \in Seq(Key) /\ Len(cache_) \in Nat /\ IsInjective(cache_)
      /\ Capacity \in Nat /\ Capacity >= 1 /\ key \notin ToSet(cache_)
  BY InvFacts
<1>2. cache_ # <<>>
  BY <1>1 DEF IsFull
<1>3. /\ Len(Front(cache_)) = Len(cache_) - 1
      /\ Last(cache_) \in ToSet(cache_)
  BY <1>1, <1>2, FrontFacts
<1>4. PICK front \in Seq(Key) : front = Front(cache_)
  BY <1>1, <1>2, FrontFacts
<1>5. /\ IsInjective(front)
      /\ ToSet(front) = ToSet(cache_) \ {Last(cache_)}
  BY <1>1, <1>2, <1>4, FrontOfInjective
<1>6. key \notin ToSet(front)
  BY <1>1, <1>5
<1>7. /\ Cons(key, front) \in Seq(Key)
      /\ Len(Cons(key, front)) = Len(front) + 1
      /\ ToSet(Cons(key, front)) = ToSet(front) \cup {key}
      /\ key \notin ToSet(front) /\ IsInjective(front) => IsInjective(Cons(key, front))
  BY ConsFacts
<1>8. Len(front) + 1 = Len(cache_)
  BY <1>1, <1>3, <1>4
<1>9. ToSet(Cons(key, front)) = (ToSet(cache_) \cup {key}) \ {Last(cache_)}
  BY <1>1, <1>3, <1>5, <1>7
<1>. QED
  BY <1>2, <1>3, <1>4, <1>5, <1>6, <1>7, <1>8, <1>9

\* What insert does to a list that is not full: key's record comes first.
LEMMA InsertRoomFacts ==
  ASSUME Inv, NEW key \in Key, key \notin pageIndex_, ~IsFull
  PROVE  /\ Cons(key, cache_) \in Seq(Key)
         /\ Len(Cons(key, cache_)) = Len(cache_) + 1
         /\ Len(cache_) + 1 <= Capacity
         /\ IsInjective(Cons(key, cache_))
         /\ ToSet(Cons(key, cache_)) = ToSet(cache_) \cup {key}
<1>1. /\ cache_ \in Seq(Key) /\ Len(cache_) \in Nat /\ IsInjective(cache_)
      /\ Capacity \in Nat /\ key \notin ToSet(cache_)
  BY InvFacts
<1>2. Len(cache_) + 1 <= Capacity
  BY <1>1 DEF IsFull
<1>. QED
  BY <1>1, <1>2, ConsFacts

\* Nothing is cached at first.
LEMMA InitInv == Init => Inv
<1>. SUFFICES ASSUME Init PROVE Inv
  OBVIOUS
<1>1. <<>> \in Seq(Key) /\ Len(<<>>) = 0 /\ DOMAIN <<>> = {}
  BY EmptySeq
<1>2. ToSet(cache_) = {} /\ IsInjective(cache_)
  BY <1>1 DEF Init, ToSet, IsInjective
<1>. QED
  BY <1>1, <1>2, CapacityAssumption, MaxDepthAssumption
     DEF Init, Inv, TypeOK, IndexConsistent, Resident, CallsTypeOK

\* Every action preserves the invariant.
LEMMA NextInv == Inv /\ [Next]_vars => Inv'
<1>. SUFFICES ASSUME Inv, [Next]_vars PROVE Inv'
  OBVIOUS
<1>. USE DEF Resident
<1>1. ASSUME NEW key \in Key, Hit(key) PROVE Inv'
  <2>1. cache_' = SpliceToFront(cache_, key) /\ key \in ToSet(cache_)
    BY <1>1, InvFacts DEF Hit, RecordHit
  <2>2. /\ cache_' \in Seq(Key)
        /\ Len(cache_') = Len(cache_)
        /\ IsInjective(cache_')
        /\ ToSet(cache_') = ToSet(cache_)
    BY <2>1, InvFacts, SpliceToFrontFacts
  <2>. QED
    BY <1>1, <2>2 DEF Hit, Inv, TypeOK, IndexConsistent, CallsTypeOK
<1>2. ASSUME NEW key \in Key, Miss(key) PROVE Inv'
  <2>1. CallsTypeOK'
    BY <1>2, InvFacts, EnterKeepsCalls DEF Miss
  <2>. QED
    BY <1>2, <2>1 DEF Miss, store, Inv, TypeOK, IndexConsistent
<1>3. ASSUME NEW key \in Key, Insert(key) PROVE Inv'
  <2>1. CallsTypeOK'
    BY <1>3, InvFacts, LeaveKeepsCalls DEF Insert
  <2>2. key \notin pageIndex_
    BY <1>3 DEF Insert
  <2>3. CASE IsFull
    <3>1. /\ cache_' = Cons(key, Front(cache_))
          /\ pageIndex_' = (pageIndex_ \cup {key}) \ {Last(cache_)}
      BY <1>3, <2>3 DEF Insert
    <3>2. /\ cache_' \in Seq(Key)
          /\ Len(cache_') = Len(cache_)
          /\ IsInjective(cache_')
          /\ ToSet(cache_') = (ToSet(cache_) \cup {key}) \ {Last(cache_)}
      BY <2>2, <2>3, <3>1, InsertFullFacts
    <3>. QED
      BY <2>1, <3>1, <3>2 DEF Inv, TypeOK, IndexConsistent
  <2>4. CASE ~IsFull
    <3>1. cache_' = Cons(key, cache_) /\ pageIndex_' = pageIndex_ \cup {key}
      BY <1>3, <2>4 DEF Insert
    <3>2. /\ cache_' \in Seq(Key)
          /\ Len(cache_') <= Capacity
          /\ IsInjective(cache_')
          /\ ToSet(cache_') = ToSet(cache_) \cup {key}
      BY <2>2, <2>4, <3>1, InsertRoomFacts
    <3>. QED
      BY <2>1, <3>1, <3>2 DEF Inv, TypeOK, IndexConsistent
  <2>. QED
    BY <2>3, <2>4
<1>4. ASSUME NEW key \in Key, InsertThrows(key) PROVE Inv'
  <2>1. CallsTypeOK'
    BY <1>4, InvFacts, LeaveKeepsCalls DEF InsertThrows
  <2>2. pageIndex_' = pageIndex_
    BY <1>4 DEF InsertThrows, Rollback
  <2>. QED
    BY <1>4, <2>1, <2>2 DEF InsertThrows, Inv, TypeOK, IndexConsistent
<1>5. ASSUME NEW key \in Key, InsertDuplicate(key) \/ LoadThrows(key) PROVE Inv'
  <2>1. CallsTypeOK'
    BY <1>5, InvFacts, LeaveKeepsCalls DEF InsertDuplicate, LoadThrows
  <2>. QED
    BY <1>5, <2>1 DEF InsertDuplicate, LoadThrows, store, Inv, TypeOK, IndexConsistent
<1>6. ASSUME UNCHANGED vars PROVE Inv'
  BY <1>6 DEF vars, Inv, TypeOK, IndexConsistent, CallsTypeOK
<1>. QED
  BY <1>1, <1>2, <1>3, <1>4, <1>5, <1>6 DEF Next

\* CacheLRU's list and index always agree and never hold more than size_.
THEOREM Invariance == Spec => []Inv
<1>. QED
  BY InitInv, NextInv, PTL DEF Spec

\* The list stays within the capacity (isFull is tested before each splice).
THEOREM TypeCorrect == Spec => []TypeOK
<1>1. Inv => TypeOK
  BY DEF Inv
<1>. QED
  BY Invariance, <1>1, PTL

\* The index has an entry for exactly the keys that have a record, and no key
\* has two: insert, evictPage and the rollback keep list and map in step.
THEOREM IndexCorrect == Spec => []IndexConsistent
<1>1. Inv => IndexConsistent
  BY DEF Inv
<1>. QED
  BY Invariance, <1>1, PTL

-----------------------------------------------------------------------------
(***************************************************************************)
(* Failures.                                                               *)
(***************************************************************************)

\* A call of lookupUpdate that ends has either put its own, missing, key at
\* the front of the list or left the cache untouched.
THEOREM FailuresLeaveNoTrace == Spec => FailureAtomicity
<1>. DEFINE Atomic == CallEnds => \/ UNCHANGED store
                                  \/ /\ Last(calls) \notin Resident
                                     /\ cache_'[1] = Last(calls)
<1>1. Inv /\ [Next]_vars => [Atomic]_vars
  <2>. SUFFICES ASSUME Inv, Next, CallEnds
                PROVE  \/ UNCHANGED store
                       \/ /\ Last(calls) \notin Resident
                          /\ cache_'[1] = Last(calls)
    OBVIOUS
  <2>1. ASSUME calls' = calls PROVE FALSE
    BY <2>1, InvFacts DEF CallEnds, CallsTypeOK
  <2>2. ASSUME NEW key \in Key, Hit(key) PROVE FALSE
    BY <2>1, <2>2 DEF Hit
  <2>3. ASSUME NEW key \in Key, Miss(key) PROVE UNCHANGED store
    BY <2>3 DEF Miss
  <2>4. ASSUME NEW key \in Key, Insert(key)
        PROVE  Last(calls) \notin Resident /\ cache_'[1] = Last(calls)
    <3>1. key = Last(calls) /\ key \notin pageIndex_
      BY <2>4 DEF Insert, Leave
    <3>2. CASE IsFull
      <4>1. cache_' = Cons(key, Front(cache_)) /\ cache_ # <<>>
        BY <2>4, <3>1, <3>2, InsertFullFacts DEF Insert
      <4>2. Front(cache_) \in Seq(Key)
        BY <4>1, InvFacts, FrontFacts
      <4>3. Cons(key, Front(cache_))[1] = key
        BY <4>2, ConsFacts
      <4>. QED
        BY <3>1, <4>1, <4>3, InvFacts DEF Resident
    <3>3. CASE ~IsFull
      <4>1. Cons(key, cache_)[1] = key
        BY InvFacts, ConsFacts
      <4>. QED
        BY <2>4, <3>1, <3>3, <4>1, InvFacts DEF Insert, Resident
    <3>. QED
      BY <3>2, <3>3
  <2>5. ASSUME NEW key \in Key,
               InsertThrows(key) \/ InsertDuplicate(key) \/ LoadThrows(key)
        PROVE  UNCHANGED store
    <3>1. CASE InsertThrows(key)
      BY <3>1 DEF InsertThrows, Rollback, store
    <3>2. CASE InsertDuplicate(key) \/ LoadThrows(key)
      BY <3>2 DEF InsertDuplicate, LoadThrows
    <3>. QED
      BY <2>5, <3>1, <3>2
  <2>. QED
    BY <2>2, <2>3, <2>4, <2>5 DEF Next
<1>. QED
  BY <1>1, Invariance, PTL DEF Spec, FailureAtomicity

-----------------------------------------------------------------------------
(***************************************************************************)
(* Refinement.                                                             *)
(***************************************************************************)

\* The contract's stack of calls and its count of a set are CacheLRU's own.
LEMMA SameProtocol ==
  /\ \A key : Contract!Leave(key) <=> Leave(key)
  /\ \A key : Contract!Enter(key) <=> Enter(key)
  /\ \A S : Contract!Cardinality(S) = Cardinality(S)
<1>1. \A key : Contract!Leave(key) <=> Leave(key)
  BY DEF Contract!Leave, Contract!Last, Contract!Front, Leave, Last, Front
<1>2. \A key : Contract!Enter(key) <=> Enter(key)
  BY DEF Contract!Enter, Enter
<1>3. \A S : Contract!Cardinality(S) = Cardinality(S)
  BY DEF Contract!Cardinality, Cardinality
<1>. QED
  BY <1>1, <1>2, <1>3

\* Every step of the LRU cache is a step that a client of Cache may see.
LEMMA StepRefines ==
  ASSUME Inv, [Next]_vars
  PROVE  [Contract!Next]_(Contract!vars)
<1>. USE DEF Resident
<1>1. /\ IsFiniteSet(ToSet(cache_))
      /\ Cardinality(ToSet(cache_)) = Len(cache_)
  BY InvFacts, InjectiveCardinality
<1>2. ASSUME NEW key \in Key, Hit(key) PROVE UNCHANGED Contract!vars
  <2>1. cache_' = SpliceToFront(cache_, key) /\ key \in ToSet(cache_)
    BY <1>2, InvFacts DEF Hit, RecordHit
  <2>2. ToSet(cache_') = ToSet(cache_)
    BY <2>1, InvFacts, SpliceToFrontFacts
  <2>. QED
    BY <1>2, <2>2 DEF Hit, Contract!vars
<1>3. ASSUME NEW key \in Key, Miss(key) PROVE Contract!Miss(key)
  BY <1>3, InvFacts, SameProtocol DEF Miss, store, Contract!Miss
<1>4. ASSUME NEW key \in Key, Insert(key) PROVE Contract!Insert(key)
  <2>1. key \notin pageIndex_ /\ Contract!Leave(key)
    BY <1>4, SameProtocol DEF Insert
  <2>2. CASE IsFull
    <3>1. cache_' = Cons(key, Front(cache_))
      BY <1>4, <2>2 DEF Insert
    <3>2. ToSet(cache_') = (ToSet(cache_) \cup {key}) \ {Last(cache_)}
      BY <2>1, <2>2, <3>1, InsertFullFacts
    <3>3. Last(cache_) \in ToSet(cache_) /\ key \notin ToSet(cache_)
      BY <2>1, <2>2, InsertFullFacts, InvFacts
    <3>4. ToSet(cache_') = (ToSet(cache_) \ {Last(cache_)}) \cup {key}
      BY <3>2, <3>3
    <3>5. ~(Cardinality(ToSet(cache_)) < Capacity)
      BY <1>1, <2>2, InvFacts DEF IsFull
    <3>. QED
      BY <2>1, <3>3, <3>4, <3>5, SameProtocol DEF Contract!Insert
  <2>3. CASE ~IsFull
    <3>1. cache_' = Cons(key, cache_)
      BY <1>4, <2>3 DEF Insert
    <3>2. ToSet(cache_') = ToSet(cache_) \cup {key}
      BY <2>1, <2>3, <3>1, InsertRoomFacts
    <3>3. key \notin ToSet(cache_) /\ Cardinality(ToSet(cache_)) < Capacity
      BY <1>1, <2>1, <2>3, InvFacts DEF IsFull
    <3>. QED
      BY <2>1, <3>2, <3>3, SameProtocol DEF Contract!Insert
  <2>. QED
    BY <2>2, <2>3
<1>5. ASSUME NEW key \in Key,
             InsertThrows(key) \/ InsertDuplicate(key) \/ LoadThrows(key)
      PROVE  Contract!Fail(key)
  BY <1>5, SameProtocol
     DEF InsertThrows, InsertDuplicate, LoadThrows, store, Contract!Fail
<1>6. ASSUME UNCHANGED vars PROVE UNCHANGED Contract!vars
  BY <1>6 DEF vars, Contract!vars
<1>7. CASE Next
  BY <1>2, <1>3, <1>4, <1>5, <1>7 DEF Next, Contract!Next
<1>. QED
  BY <1>6, <1>7

\* CacheLRU implements the contract of Cache::lookupUpdate: its list of
\* records, seen as a set, changes only as the contract allows.
THEOREM Refinement == Spec => ImplementsCache
<1>1. Init => Contract!Init
  <2>1. DOMAIN <<>> = {}
    BY EmptySeq
  <2>. QED
    BY <2>1 DEF Init, Contract!Init, Resident, ToSet
<1>2. Inv /\ [Next]_vars => [Contract!Next]_(Contract!vars)
  BY StepRefines
<1>. QED
  BY <1>1, <1>2, Invariance, PTL DEF Spec, ImplementsCache, Contract!Spec

-----------------------------------------------------------------------------
(***************************************************************************)
(* Eviction by recency.                                                    *)
(***************************************************************************)

\* The history is a list of different keys: moving a key to its front keeps
\* the cache's list a prefix of it only if no key has two positions.
RecencyInv ==
  /\ recency \in Seq(Key)
  /\ IsInjective(recency)
  /\ KeepsMostRecent

\* An action of the history specification is an action of CacheLRU.
LEMMA HistoryStep == [HistoryNext]_historyVars => [Next]_vars
BY DEF HistoryNext, Use, NoUse, Next, historyVars, vars

\* No key has been used at first.
LEMMA RecencyInit == HistoryInit => RecencyInv
<1>. SUFFICES ASSUME HistoryInit PROVE RecencyInv
  OBVIOUS
<1>1. <<>> \in Seq(Key) /\ Len(<<>>) = 0 /\ DOMAIN <<>> = {}
  BY EmptySeq
<1>2. IsPrefix(<<>>, <<>>)
  BY <1>1 DEF IsPrefix
<1>3. IsInjective(<<>>)
  BY <1>1 DEF IsInjective
<1>. QED
  BY <1>1, <1>2, <1>3 DEF HistoryInit, Init, RecencyInv, KeepsMostRecent

\* After insert, the list is still the newest part of the history.
LEMMA InsertKeepsMostRecent ==
  ASSUME Inv, RecencyInv, NEW key \in Key, Insert(key),
         recency' = SpliceToFront(recency, key)
  PROVE  KeepsMostRecent'
<1>1. /\ cache_ \in Seq(Key) /\ Len(cache_) \in Nat /\ Capacity \in Nat
      /\ recency \in Seq(Key) /\ IsInjective(recency) /\ IsPrefix(cache_, recency)
      /\ Len(cache_) < Capacity => cache_ = recency
  BY InvFacts DEF RecencyInv, KeepsMostRecent
<1>2. key \notin pageIndex_ /\ key \notin ToSet(cache_)
  BY InvFacts DEF Insert
<1>3. CASE IsFull
  <2>1. /\ cache_ # <<>>
        /\ Len(Cons(key, Front(cache_))) = Len(cache_)
    BY <1>2, <1>3, InsertFullFacts
  <2>2. cache_' = Cons(key, Front(cache_))
    BY <1>3 DEF Insert
  <2>3. PICK front \in Seq(Key) :
          /\ front = Front(cache_)
          /\ Len(front) = Len(cache_) - 1
          /\ \A i \in 1..(Len(cache_) - 1) : front[i] = cache_[i]
    <3>1. /\ Front(cache_) \in Seq(Key)
          /\ Len(Front(cache_)) = Len(cache_) - 1
          /\ \A i \in 1..(Len(cache_) - 1) : Front(cache_)[i] = cache_[i]
      BY <1>1, <2>1, FrontFacts
    <3>. QED
      BY <3>1
  <2>4. IsPrefix(front, cache_)
    BY <1>1, <2>3, PrefixByIndex
  <2>5. IsPrefix(Cons(key, front), SpliceToFront(recency, key))
    BY <1>1, <1>2, <2>4, StoreKeepsPrefix
  <2>6. ~(Len(cache_') < Capacity)
    BY <1>1, <1>3, <2>1, <2>2 DEF IsFull
  <2>. QED
    BY <2>2, <2>3, <2>5, <2>6 DEF KeepsMostRecent
<1>4. CASE ~IsFull
  <2>1. cache_' = Cons(key, cache_) /\ cache_ = recency
    BY <1>1, <1>4 DEF Insert, IsFull
  <2>2. SpliceToFront(recency, key) = Cons(key, cache_)
    BY <1>1, <1>2, <2>1, SpliceOfAbsent
  <2>3. Cons(key, cache_) \in Seq(Key)
    BY <1>1, ConsFacts
  <2>4. IsPrefix(Cons(key, cache_), Cons(key, cache_))
    BY <2>3, PrefixByIndex
  <2>. QED
    BY <2>1, <2>2, <2>4 DEF KeepsMostRecent
<1>. QED
  BY <1>3, <1>4

\* Every action preserves the order of use.
LEMMA RecencyNext == Inv /\ RecencyInv /\ [HistoryNext]_historyVars => RecencyInv'
<1>. SUFFICES ASSUME Inv, RecencyInv, [HistoryNext]_historyVars PROVE RecencyInv'
  OBVIOUS
<1>1. ASSUME NEW key \in Key, recency' = SpliceToFront(recency, key)
      PROVE  recency' \in Seq(Key) /\ IsInjective(recency')
  BY <1>1, SpliceKeepsInjective DEF RecencyInv
<1>2. ASSUME NEW key \in Key, Hit(key), recency' = SpliceToFront(recency, key)
      PROVE  RecencyInv'
  <2>1. cache_' = SpliceToFront(cache_, key) /\ key \in ToSet(cache_)
    BY <1>2, InvFacts DEF Hit, RecordHit
  <2>2. /\ cache_ \in Seq(Key) /\ IsInjective(cache_)
        /\ recency \in Seq(Key) /\ IsInjective(recency)
        /\ IsPrefix(cache_, recency)
    BY InvFacts DEF RecencyInv, KeepsMostRecent
  <2>3. IsPrefix(cache_', recency')
    BY <1>2, <2>1, <2>2, SpliceKeepsPrefix
  <2>4. Len(cache_') = Len(cache_)
    BY <2>1, <2>2, SpliceToFrontFacts
  <2>5. Len(cache_') < Capacity => cache_' = recency'
    BY <1>2, <2>1, <2>4 DEF RecencyInv, KeepsMostRecent
  <2>. QED
    BY <1>1, <1>2, <2>3, <2>5 DEF RecencyInv, KeepsMostRecent
<1>3. ASSUME NEW key \in Key, Insert(key), recency' = SpliceToFront(recency, key)
      PROVE  RecencyInv'
  BY <1>1, <1>3, InsertKeepsMostRecent DEF RecencyInv
<1>4. ASSUME NEW key \in Key, NoUse(key) PROVE RecencyInv'
  BY <1>4 DEF NoUse, Miss, InsertThrows, InsertDuplicate, LoadThrows, store,
              RecencyInv, KeepsMostRecent
<1>5. ASSUME UNCHANGED historyVars PROVE RecencyInv'
  BY <1>5 DEF historyVars, RecencyInv, KeepsMostRecent
<1>. QED
  BY <1>2, <1>3, <1>4, <1>5 DEF HistoryNext, Use

\* CacheLRU evicts by least recent use: at all times its list is the
\* beginning of the history of all uses, as long as the capacity allows.
THEOREM EvictsLeastRecent == HistorySpec => []KeepsMostRecent
<1>1. HistoryInit => Inv /\ RecencyInv
  BY InitInv, RecencyInit DEF HistoryInit
<1>2. Inv /\ RecencyInv /\ [HistoryNext]_historyVars => (Inv /\ RecencyInv)'
  BY HistoryStep, NextInv, RecencyNext
<1>3. RecencyInv => KeepsMostRecent
  BY DEF RecencyInv
<1>. QED
  BY <1>1, <1>2, <1>3, PTL DEF HistorySpec
=============================================================================
