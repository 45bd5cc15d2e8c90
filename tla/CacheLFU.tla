------------------------------ MODULE CacheLFU ------------------------------
(***************************************************************************)
(* The LFU policy (cache/cacheLFU.h): a list of records with use counts.   *)
(* A hit or a new record goes to the end of the list, so that among equal  *)
(* counts the first record is the least recently used one.                 *)
(***************************************************************************)
EXTENDS CacheCall

CONSTANT MaxFrequency  \* bound: the use count up to which hits are explored

ASSUME MaxFrequencyAssumption == MaxFrequency \in Nat \ {0}

VARIABLES
  cache_,      \* the records, by key, least recently used first
  frequency,   \* PageRecord::frequency; 0 for a key without a record
  pageIndex_   \* the keys that have an index entry

store == <<cache_, frequency, pageIndex_>>

vars == <<cache_, frequency, pageIndex_, calls>>

Init ==
  /\ cache_ = <<>>
  /\ frequency = [key \in Key |-> 0]
  /\ pageIndex_ = {}
  /\ calls = <<>>

-----------------------------------------------------------------------------

IsFull == Len(cache_) >= Capacity

\* Mutant of recordHit: the count grows, the record stays where it is.
RecordHitInPlace(key) ==
  /\ frequency' = [frequency EXCEPT ![key] = @ + 1]
  /\ UNCHANGED cache_

RecordHit(key) ==
  /\ frequency' = [frequency EXCEPT ![key] = @ + 1]
  /\ cache_' = SpliceToBack(cache_, key)

Hit(key) ==
  /\ key \in pageIndex_
  /\ frequency[key] < MaxFrequency
  /\ RecordHit(key)
  /\ UNCHANGED <<pageIndex_, calls>>

Miss(key) ==
  /\ key \notin pageIndex_
  /\ Enter(key)
  /\ UNCHANGED store

\* std::min_element: the first of the records with the smallest count.
ResidentToEvict ==
  cache_[SelectInSeq(cache_, LAMBDA key :
           \A other \in ToSet(cache_) : frequency[key] <= frequency[other])]

\* Mutant of insert: the evicted record's key keeps its index entry.
InsertForgettingIndex(key) ==
  /\ Leave(key)
  /\ key \notin pageIndex_
  /\ cache_' = Append(IF IsFull THEN RemoveFirst(cache_, ResidentToEvict) ELSE cache_, key)
  /\ frequency' = [k \in Key |-> IF k = key THEN 1
                                 ELSE IF IsFull /\ k = ResidentToEvict THEN 0
                                 ELSE frequency[k]]
  /\ pageIndex_' = pageIndex_ \cup {key}

Insert(key) ==
  /\ Leave(key)
  /\ key \notin pageIndex_
  /\ LET evicted == IF IsFull THEN {ResidentToEvict} ELSE {}
         kept == IF IsFull THEN RemoveFirst(cache_, ResidentToEvict) ELSE cache_
     IN /\ cache_' = Append(kept, key)
        /\ frequency' = [k \in Key |-> IF k = key THEN 1
                                       ELSE IF k \in evicted THEN 0 ELSE frequency[k]]
        /\ pageIndex_' = (pageIndex_ \cup {key}) \ evicted

\* Erasing the victim's entry throws (a hash of its key): the catch block
\* erases the entry of the staged record.
InsertThrows(key) ==
  /\ Leave(key)
  /\ key \notin pageIndex_
  /\ IsFull
  /\ pageIndex_' = (pageIndex_ \cup {key}) \ {key}
  /\ UNCHANGED <<cache_, frequency>>

\* The loader has itself cached key: the emplace fails, insert throws.
InsertDuplicate(key) ==
  /\ Leave(key)
  /\ key \in pageIndex_
  /\ UNCHANGED store

\* The loader throws, or copying its page does.
LoadThrows(key) ==
  /\ Leave(key)
  /\ UNCHANGED store

Next ==
  \E key \in Key :
    \/ Hit(key)
    \/ Miss(key)
    \/ Insert(key)
    \/ InsertThrows(key)
    \/ InsertDuplicate(key)
    \/ LoadThrows(key)

Spec == Init /\ [][Next]_vars

-----------------------------------------------------------------------------
(***************************************************************************)
(* Properties.                                                             *)
(***************************************************************************)

Resident == ToSet(cache_)

\* The list never outgrows the capacity.
TypeOK ==
  /\ cache_ \in Seq(Key)
  /\ Len(cache_) <= Capacity
  /\ frequency \in [Key -> 0..MaxFrequency]
  /\ pageIndex_ \subseteq Key
  /\ CallsTypeOK

\* No key has two records, and the index has an entry for exactly the keys
\* that have a record, which are those with a use count.
IndexConsistent ==
  /\ TypeOK
  /\ IsInjective(cache_)
  /\ pageIndex_ = Resident
  /\ Resident = {key \in Key : frequency[key] > 0}

Contract == INSTANCE Cache WITH resident <- pageIndex_

\* The LFU cache is a cache: a page is given up only when the cache is full,
\* one for each page stored, and by no failed call; and the pages it holds by
\* its index are those it can evict by its list.
ImplementsCache == Contract!Spec /\ [][IndexConsistent']_vars
=============================================================================
