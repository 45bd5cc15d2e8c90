------------------------------ MODULE CacheREF ------------------------------
(***************************************************************************)
(* The REF policy (cache/cacheREF.h): Belady's MIN.  The cache is given    *)
(* the whole request sequence, accepts the calls in that order only, and   *)
(* evicts the page whose next request is farthest away.                    *)
(***************************************************************************)
EXTENDS CacheCall

CONSTANT RequestLists  \* the request sequences explored

\* CacheREF's constructor rejects an empty sequence.
ASSUME RequestsAssumption == RequestLists \subseteq Seq(Key) \ {<<>>}

VARIABLES
  cache_,          \* the records, by key, newest first
  pageIndex_,      \* the keys that have an index entry
  requests_,       \* the sequence given to the constructor
  currentRequest_  \* the position of the next request; past the end: exhausted

store == <<cache_, pageIndex_>>

vars == <<cache_, pageIndex_, requests_, currentRequest_, calls>>

Init ==
  /\ cache_ = <<>>
  /\ pageIndex_ = {}
  /\ requests_ \in RequestLists
  /\ currentRequest_ = 1
  /\ calls = <<>>

-----------------------------------------------------------------------------

IsFull == Len(cache_) >= Capacity

\* Mutant of findResidentToEvict: a page that is never requested again counts
\* as one that is requested next.
DistanceForgettingNever(key) ==
  LET next == {i \in currentRequest_..Len(requests_) : requests_[i] = key}
  IN IF next = {} THEN 0 ELSE Min(next) - currentRequest_

\* How far away the next request of a page is, from the current position.
DistanceToNextRequest(key) ==
  LET next == {i \in currentRequest_..Len(requests_) : requests_[i] = key}
  IN IF next = {} THEN Len(requests_) ELSE Min(next) - currentRequest_

\* findResidentToEvict: the last record at the largest distance.
ResidentToEvict ==
  cache_[SelectLastInSeq(cache_, LAMBDA key :
           \A other \in ToSet(cache_) :
             DistanceToNextRequest(other) <= DistanceToNextRequest(key))]

\* getPage throws, and changes nothing, unless the key is the next request.
\* Otherwise the request is consumed at once, whatever becomes of the call.
Accept(key) ==
  /\ currentRequest_ <= Len(requests_)
  /\ requests_[currentRequest_] = key
  /\ currentRequest_' = currentRequest_ + 1
  /\ UNCHANGED requests_

Hit(key) ==
  /\ Accept(key)
  /\ key \in pageIndex_
  /\ UNCHANGED <<cache_, pageIndex_, calls>>

Miss(key) ==
  /\ Accept(key)
  /\ key \notin pageIndex_
  /\ Enter(key)
  /\ UNCHANGED store

\* Mutant of insert: the evicted record's key keeps its index entry.
InsertForgettingIndex(key) ==
  /\ Leave(key)
  /\ key \notin pageIndex_
  /\ cache_' = Cons(key, IF IsFull THEN RemoveFirst(cache_, ResidentToEvict) ELSE cache_)
  /\ pageIndex_' = pageIndex_ \cup {key}
  /\ UNCHANGED <<requests_, currentRequest_>>

Insert(key) ==
  /\ Leave(key)
  /\ key \notin pageIndex_
  /\ IF IsFull
       THEN /\ cache_' = Cons(key, RemoveFirst(cache_, ResidentToEvict))
            /\ pageIndex_' = (pageIndex_ \cup {key}) \ {ResidentToEvict}
       ELSE /\ cache_' = Cons(key, cache_)
            /\ pageIndex_' = pageIndex_ \cup {key}
  /\ UNCHANGED <<requests_, currentRequest_>>

\* Comparing requests or erasing the victim's entry throws: the catch block
\* erases the entry of the staged record.
InsertThrows(key) ==
  /\ Leave(key)
  /\ key \notin pageIndex_
  /\ IsFull
  /\ pageIndex_' = (pageIndex_ \cup {key}) \ {key}
  /\ UNCHANGED <<cache_, requests_, currentRequest_>>

\* The loader has itself cached key: the emplace fails, insert throws.
InsertDuplicate(key) ==
  /\ Leave(key)
  /\ key \in pageIndex_
  /\ UNCHANGED <<cache_, pageIndex_, requests_, currentRequest_>>

\* The loader throws, or copying its page does.
LoadThrows(key) ==
  /\ Leave(key)
  /\ UNCHANGED <<cache_, pageIndex_, requests_, currentRequest_>>

Next ==
  \E key \in Key :
    \/ Hit(key)
    \/ Miss(key)
    \/ Insert(key)
    \/ InsertThrows(key)
    \/ InsertDuplicate(key)
    \/ LoadThrows(key)

Spec == Init /\ [][Next]_vars

-----------------------------------------------------------------------------
(***************************************************************************)
(* Properties.                                                             *)
(***************************************************************************)

Resident == ToSet(cache_)

\* The list never outgrows the capacity, nor the cursor the sequence.
TypeOK ==
  /\ cache_ \in Seq(Key)
  /\ Len(cache_) <= Capacity
  /\ pageIndex_ \subseteq Key
  /\ requests_ \in RequestLists
  /\ currentRequest_ \in 1..(Len(requests_) + 1)
  /\ CallsTypeOK

\* No key has two records, and the index has an entry for exactly the keys
\* that have a record.
IndexConsistent ==
  /\ TypeOK
  /\ IsInjective(cache_)
  /\ pageIndex_ = Resident

Contract == INSTANCE Cache WITH resident <- pageIndex_

\* The REF cache is a cache: a page is given up only when the cache is full,
\* one for each page stored, and by no failed call; and the pages it holds by
\* its index are those it can evict by its list.
ImplementsCache == Contract!Spec /\ [][IndexConsistent']_vars
=============================================================================
