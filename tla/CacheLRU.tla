------------------------------ MODULE CacheLRU ------------------------------
(***************************************************************************)
(* The LRU policy (cache/cacheLRU.h): a list of records, most recently     *)
(* used first, and a hash index from keys to records.                      *)
(***************************************************************************)
EXTENDS CacheCall

VARIABLES
  cache_,     \* the records, by key
  pageIndex_  \* the keys that have an index entry (the entry is key's record)

store == <<cache_, pageIndex_>>

vars == <<cache_, pageIndex_, calls>>

Init ==
  /\ cache_ = <<>>
  /\ pageIndex_ = {}
  /\ calls = <<>>

-----------------------------------------------------------------------------

\* Mutants of isFull.
IsFullLate == Len(cache_) > Capacity
IsFullEarly == Len(cache_) + 1 >= Capacity

IsFull == Len(cache_) >= Capacity

\* Mutant of recordHit: the record stays where it is.
RecordHitInPlace(key) == UNCHANGED cache_

RecordHit(key) == cache_' = SpliceToFront(cache_, key)

\* getPage finds the record and returns its page without calling the loader.
Hit(key) ==
  /\ key \in pageIndex_
  /\ RecordHit(key)
  /\ UNCHANGED <<pageIndex_, calls>>

Miss(key) ==
  /\ key \notin pageIndex_
  /\ Enter(key)
  /\ UNCHANGED store

\* The record and its index entry exist before room is made for them.
Insert(key) ==
  /\ Leave(key)
  /\ key \notin pageIndex_
  /\ IF IsFull
       THEN /\ cache_' = Cons(key, Front(cache_))
            /\ pageIndex_' = (pageIndex_ \cup {key}) \ {Last(cache_)}
       ELSE /\ cache_' = Cons(key, cache_)
            /\ pageIndex_' = pageIndex_ \cup {key}

\* Mutant of the catch block: the entry stays and refers to no record.
RollbackForgotten(key) == pageIndex_' = pageIndex_ \cup {key}

\* The catch block of insert: the entry of the staged record is erased again.
Rollback(key) == pageIndex_' = (pageIndex_ \cup {key}) \ {key}

\* Finding the record to evict throws (a hash or a comparison of keys).
InsertThrows(key) ==
  /\ Leave(key)
  /\ key \notin pageIndex_
  /\ IsFull
  /\ Rollback(key)
  /\ UNCHANGED cache_

\* The loader has itself cached key: the emplace fails, insert throws.
InsertDuplicate(key) ==
  /\ Leave(key)
  /\ key \in pageIndex_
  /\ UNCHANGED store

\* Mutant of an insert that makes room first and copies the page afterwards.
LoadThrowsAfterEviction(key) ==
  /\ Leave(key)
  /\ cache_' = IF IsFull THEN Front(cache_) ELSE cache_
  /\ pageIndex_' = ToSet(cache_')

\* The loader throws, or copying its page into the staged record does.
LoadThrows(key) ==
  /\ Leave(key)
  /\ UNCHANGED store

Next ==
  \E key \in Key :
    \/ Hit(key)
    \/ Miss(key)
    \/ Insert(key)
    \/ InsertThrows(key)
    \/ InsertDuplicate(key)
    \/ LoadThrows(key)

Spec == Init /\ [][Next]_vars

-----------------------------------------------------------------------------
(***************************************************************************)
(* Properties.                                                             *)
(***************************************************************************)

Resident == ToSet(cache_)

\* The list never outgrows the capacity, and the pending calls stay in bounds.
TypeOK ==
  /\ cache_ \in Seq(Key)
  /\ Len(cache_) <= Capacity
  /\ pageIndex_ \subseteq Key
  /\ CallsTypeOK

\* No key has two records, and the index has an entry for exactly the keys
\* that have a record: after a rollback no entry refers to a staged record
\* that is gone, and every record can be found and evicted.
IndexConsistent ==
  /\ TypeOK
  /\ IsInjective(cache_)
  /\ pageIndex_ = Resident

\* A call that ends either caches its own key, which was not cached, or
\* leaves list, order and index exactly as they were: no failure of the
\* loader, of a copy or of a hash loses or reorders a page.
FailureAtomicity ==
  [][CallEnds => \/ UNCHANGED store
                 \/ /\ Last(calls) \notin Resident
                    /\ cache_'[1] = Last(calls)]_vars

Contract == INSTANCE Cache WITH resident <- Resident

\* The LRU cache is a cache: it gives up a page only when it is full, one at
\* a time, and only to store the page of a completed call.
ImplementsCache == Contract!Spec
=============================================================================
