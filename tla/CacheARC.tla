------------------------------ MODULE CacheARC ------------------------------
(***************************************************************************)
(* The ARC policy (cache/cacheARC.h).  Resident pages are in t1_ (used     *)
(* once) and t2_ (used again); b1_ and b2_ hold the keys of pages evicted  *)
(* from them, the ghosts.  A hit on a ghost moves the target size of t1_.  *)
(* It is applied by getPage, before the loader runs; the ghost itself is   *)
(* promoted by insert, which looks the key up afresh.                      *)
(***************************************************************************)
EXTENDS CacheCall

T1 == "T1"
T2 == "T2"
B1 == "B1"
B2 == "B2"
NoList == "NO_LIST"

ListName == {T1, T2, B1, B2}

VARIABLES
  list,          \* t1_, t2_, b1_, b2_: their records' keys, most recent first
  pageIndex_,    \* the list each indexed key is filed under; NoList: no entry
  paged,         \* the keys whose record holds a page (PageRecord::page)
  t1TargetSize_  \* the size t1_ is driven to

store == <<list, pageIndex_, paged, t1TargetSize_>>

vars == <<list, pageIndex_, paged, t1TargetSize_, calls>>

Init ==
  /\ list = [name \in ListName |-> <<>>]
  /\ pageIndex_ = [key \in Key |-> NoList]
  /\ paged = {}
  /\ t1TargetSize_ = 0
  /\ calls = <<>>

Size(name) == Len(list[name])

\* The key of the record at the back of a list, if there is one.
Back(name) ==
  IF name \in ListName /\ list[name] # <<>> THEN {Last(list[name])} ELSE {}

\* The index after the entries of some keys are relabelled.
Filed(index, keys, name) ==
  [key \in Key |-> IF key \in keys THEN name ELSE index[key]]

-----------------------------------------------------------------------------
(***************************************************************************)
(* Eviction.                                                               *)
(***************************************************************************)

\* The list whose least recently used page makes room.
ResidentListToEvict(requestedFromB2) ==
  LET evictFromT1 ==
        /\ Size(T1) > 0
        /\ \/ Size(T1) > t1TargetSize_
           \/ requestedFromB2 /\ Size(T1) = t1TargetSize_
      source == IF evictFromT1 \/ Size(T2) = 0 THEN T1 ELSE T2
  IN IF list[source] = <<>> THEN NoList ELSE source

GhostListOf(name) == IF name = T1 THEN B1 ELSE B2

\* Mutant of evictPage: the ghost goes to the back of its list.
EvictPageToBack(lists, source) ==
  IF source = NoList
    THEN lists
    ELSE [lists EXCEPT ![source] = Front(@),
                       ![GhostListOf(source)] = Append(@, Last(lists[source]))]

\* evictPage on the lists: the back of source becomes the newest ghost.
EvictPage(lists, source) ==
  IF source = NoList
    THEN lists
    ELSE [lists EXCEPT ![source] = Front(@),
                       ![GhostListOf(source)] = Cons(Last(lists[source]), @)]

RecentTotal == Size(T1) + Size(B1)

Total == RecentTotal + Size(T2) + Size(B2)

\* Mutant of evictForNewPage: B2 is trimmed one page too late.
ListToEraseLate ==
  CASE RecentTotal = Capacity -> IF Size(T1) < Capacity THEN B1 ELSE T1
    [] RecentTotal < Capacity -> IF Total > 2 * Capacity THEN B2 ELSE NoList
    [] OTHER -> NoList

\* The list whose last record is forgotten to keep the history in bounds.
ListToErase ==
  CASE RecentTotal = Capacity -> IF Size(T1) < Capacity THEN B1 ELSE T1
    [] RecentTotal < Capacity -> IF Total >= 2 * Capacity THEN B2 ELSE NoList
    [] OTHER -> NoList

\* Mutant of evictForNewPage: a page is also replaced when T1 loses one.
NeedsReplacementTwice == RecentTotal = Capacity \/ Total >= Capacity

NeedsReplacement ==
  \/ RecentTotal = Capacity /\ Size(T1) < Capacity
  \/ RecentTotal < Capacity /\ Total >= Capacity

-----------------------------------------------------------------------------
(***************************************************************************)
(* Calls.                                                                  *)
(***************************************************************************)

\* recordHit on a resident page: it has now been used twice.
RecordHit(key) ==
  /\ list' = IF pageIndex_[key] = T1
               THEN [list EXCEPT ![T1] = RemoveFirst(@, key), ![T2] = Cons(key, @)]
               ELSE [list EXCEPT ![T2] = SpliceToFront(@, key)]
  /\ pageIndex_' = [pageIndex_ EXCEPT ![key] = T2]

Hit(key) ==
  /\ pageIndex_[key] \in {T1, T2}
  /\ key \in paged
  /\ RecordHit(key)
  /\ UNCHANGED <<paged, t1TargetSize_, calls>>

\* Mutant of recordHit: the raised target is not capped.
RaisedTargetUncapped == t1TargetSize_ + Max({1, Size(B2) \div Size(B1)})

\* recordHit on a B1 ghost, and on a B2 ghost.
RaisedTarget ==
  Min({Capacity, t1TargetSize_ + Max({1, Size(B2) \div Size(B1)})})

LoweredTarget ==
  LET subtrahend == Max({1, Size(B1) \div Size(B2)})
  IN IF subtrahend >= t1TargetSize_ THEN 0 ELSE t1TargetSize_ - subtrahend

\* The key is a ghost: the target adapts and the loader starts.
GhostMiss(key) ==
  /\ \/ pageIndex_[key] = B1 /\ t1TargetSize_' = RaisedTarget
     \/ pageIndex_[key] = B2 /\ t1TargetSize_' = LoweredTarget
  /\ key \notin paged
  /\ Enter(key)
  /\ UNCHANGED <<list, pageIndex_, paged>>

Miss(key) ==
  /\ pageIndex_[key] = NoList
  /\ Enter(key)
  /\ UNCHANGED store

\* insert of a key that is still, or again, a ghost: promoteGhostPage.
InsertGhost(key) ==
  /\ Leave(key)
  /\ pageIndex_[key] \in {B1, B2}
  /\ LET ghosts == pageIndex_[key]
         source == ResidentListToEvict(ghosts = B2)
         evicted == EvictPage(list, source)
     IN /\ list' = [evicted EXCEPT ![ghosts] = RemoveFirst(@, key),
                                   ![T2] = Cons(key, @)]
        /\ pageIndex_' = Filed(Filed(pageIndex_, Back(source), GhostListOf(source)),
                               {key}, T2)
        /\ paged' = (paged \cup {key}) \ Back(source)
  /\ UNCHANGED t1TargetSize_

\* insert of a key without an entry: evictForNewPage, then the front of T1.
\* The page to evict is chosen before the oldest record is forgotten.
InsertNew(key) ==
  /\ Leave(key)
  /\ pageIndex_[key] = NoList
  /\ LET oldest == ListToErase
         forgotten == Back(oldest)
         source == IF NeedsReplacement THEN ResidentListToEvict(FALSE) ELSE NoList
         erased == IF forgotten = {} THEN list ELSE [list EXCEPT ![oldest] = Front(@)]
         indexed == Filed(pageIndex_, {key}, T1)
     IN /\ list' = [EvictPage(erased, source) EXCEPT ![T1] = Cons(key, @)]
        /\ pageIndex_' = Filed(Filed(indexed, forgotten, NoList),
                               Back(source), GhostListOf(source))
        /\ paged' = ((paged \cup {key}) \ forgotten) \ Back(source)
  /\ UNCHANGED t1TargetSize_

\* The loader has itself cached key: the emplace fails, insert throws.
InsertDuplicate(key) ==
  /\ Leave(key)
  /\ pageIndex_[key] \in {T1, T2}
  /\ UNCHANGED store

\* Mutant of the catch blocks: the page put into the ghost stays there.
RollbackKeepsPage(key) ==
  /\ pageIndex_' = Filed(pageIndex_, IF pageIndex_[key] = NoList THEN {key} ELSE {}, NoList)
  /\ paged' = paged \cup {key}

\* The catch blocks: a ghost gives its new page back, a new key its entry.
Rollback(key) ==
  /\ pageIndex_' = IF pageIndex_[key] = NoList
                     THEN Filed(Filed(pageIndex_, {key}, T1), {key}, NoList)
                     ELSE pageIndex_
  /\ paged' = (paged \cup {key}) \ {key}

\* Looking for the page to evict or to forget throws (a hash of a key).
InsertThrows(key) ==
  /\ Leave(key)
  /\ pageIndex_[key] \notin {T1, T2}
  /\ Rollback(key)
  /\ UNCHANGED <<list, t1TargetSize_>>

\* Mutant of a catch block that also takes the adaptation back.
LoadThrowsResettingTarget(key) ==
  /\ Leave(key)
  /\ t1TargetSize_' = 0
  /\ UNCHANGED <<list, pageIndex_, paged>>

\* The loader throws, or copying its page does.
LoadThrows(key) ==
  /\ Leave(key)
  /\ UNCHANGED store

Next ==
  \E key \in Key :
    \/ Hit(key)
    \/ GhostMiss(key)
    \/ Miss(key)
    \/ InsertGhost(key)
    \/ InsertNew(key)
    \/ InsertDuplicate(key)
    \/ InsertThrows(key)
    \/ LoadThrows(key)

Spec == Init /\ [][Next]_vars

-----------------------------------------------------------------------------
(***************************************************************************)
(* Properties.                                                             *)
(***************************************************************************)

\* lookup finds a record and looks whether it holds a page.
Resident == {key \in Key : pageIndex_[key] # NoList /\ key \in paged}

\* The lists hold keys, the index files each key under at most one list, and
\* the target stays within the capacity.
TypeOK ==
  /\ list \in [ListName -> Seq(Key)]
  /\ pageIndex_ \in [Key -> ListName \cup {NoList}]
  /\ paged \subseteq Key
  /\ t1TargetSize_ \in 0..Capacity
  /\ CallsTypeOK

\* Every record is in the list its index entry names, once, and in no other;
\* and exactly the records of T1 and T2 hold a page.  recordHit asserts the
\* second half, and a ghost hit relies on its list not being empty.
IndexConsistent ==
  /\ TypeOK
  /\ \A name \in ListName :
       /\ IsInjective(list[name])
       /\ ToSet(list[name]) = {key \in Key : pageIndex_[key] = name}
  /\ paged = ToSet(list[T1]) \cup ToSet(list[T2])

\* There are ghosts only while the cache is full: so the page that a ghost's
\* promotion evicts is always one there is no room for.
GhostsOnlyWhenFull ==
  Size(B1) + Size(B2) > 0 => Size(T1) + Size(T2) = Capacity

\* The cache stays within its capacity, the recent half of its directory
\* within the same bound and the whole directory within twice that, with ghosts
\* only while the cache is full.
DirectoryBounded ==
  /\ Size(T1) + Size(T2) <= Capacity
  /\ RecentTotal <= Capacity
  /\ Total <= 2 * Capacity
  /\ GhostsOnlyWhenFull

\* A call that ends either makes its own key resident or leaves every list,
\* the index, the pages and the target as they were when its loader returned:
\* the adaptation made on the way in is kept, nothing else happens.
FailureAtomicity ==
  [][CallEnds => \/ UNCHANGED store
                 \/ /\ Last(calls) \in Resident' \ Resident
                    /\ UNCHANGED t1TargetSize_]_vars

Contract == INSTANCE Cache WITH resident <- Resident

\* The ARC cache is a cache: ghosts are never found by lookup, and a page is
\* given up only when the cache is full, one for each page stored.
ImplementsCache == Contract!Spec
=============================================================================
