------------------------------- MODULE Cache2Q -------------------------------
(***************************************************************************)
(* The 2Q policy (cache/cache2Q.h).  New pages enter the FIFO a1in_, whose *)
(* evicted keys are remembered as ghosts in the FIFO a1out_; a ghost whose *)
(* page is loaded again enters am_, kept in LRU order.  Evictions are      *)
(* planned first (what may throw) and committed afterwards (what cannot).  *)
(***************************************************************************)
EXTENDS CacheCall

\* Cache2Q's constructor rejects capacities below 2.
ASSUME TwoSlotsAssumption == Capacity >= 2

A1In == "A1_IN"
Am == "AM"
A1Out == "ghost"
NoEntry == "no entry"

\* The share of the capacity given to a1in_, and the length of a1out_.
a1inTargetSize_ == Max({1, Capacity \div 4})
ghostLimit_ == Max({1, Capacity \div 2})

VARIABLES
  a1in_,      \* resident, loaded once: newest first
  am_,        \* resident, loaded again: most recently used first
  a1out_,     \* ghosts of a1in_, newest first
  pageIndex_  \* what the index entry of a key refers to

store == <<a1in_, am_, a1out_, pageIndex_>>

vars == <<a1in_, am_, a1out_, pageIndex_, calls>>

Init ==
  /\ a1in_ = <<>>
  /\ am_ = <<>>
  /\ a1out_ = <<>>
  /\ pageIndex_ = [key \in Key |-> NoEntry]
  /\ calls = <<>>

Filed(index, keys, queue) ==
  [key \in Key |-> IF key \in keys THEN queue ELSE index[key]]

-----------------------------------------------------------------------------
(***************************************************************************)
(* prepareEviction.                                                        *)
(***************************************************************************)

Full == Len(a1in_) + Len(am_) >= Capacity

\* Mutant of prepareEviction: a1in_ may also lose its last target page.
EvictFromA1inEarly == Len(a1in_) >= a1inTargetSize_ \/ am_ = <<>>

EvictFromA1in == Len(a1in_) > a1inTargetSize_ \/ am_ = <<>>

FromA1in == IF Full /\ EvictFromA1in THEN {Last(a1in_)} ELSE {}

FromAm == IF Full /\ ~ EvictFromA1in THEN {Last(am_)} ELSE {}

\* Mutant of prepareEviction: the history is one ghost too long.
GhostToForgetLate(promotingGhost) ==
  IF FromA1in # {} /\ ~ promotingGhost /\ Len(a1out_) > ghostLimit_
    THEN {Last(a1out_)}
    ELSE {}

GhostToForget(promotingGhost) ==
  IF FromA1in # {} /\ ~ promotingGhost /\ Len(a1out_) >= ghostLimit_
    THEN {Last(a1out_)}
    ELSE {}

\* commitEviction on a1in_, a1out_ and the index.
A1inKept == IF FromA1in = {} THEN a1in_ ELSE Front(a1in_)

AmKept == IF FromAm = {} THEN am_ ELSE Front(am_)

GhostsAfter(promotingGhost) ==
  LET kept == IF GhostToForget(promotingGhost) = {} THEN a1out_ ELSE Front(a1out_)
  IN IF FromA1in = {} THEN kept ELSE Cons(Last(a1in_), kept)

\* Mutant of commitEviction: a page evicted from am_ keeps its entry.
IndexAfterKeepingAm(promotingGhost) ==
  Filed(Filed(pageIndex_, GhostToForget(promotingGhost), NoEntry), FromA1in, A1Out)

IndexAfter(promotingGhost) ==
  Filed(Filed(pageIndex_, GhostToForget(promotingGhost) \cup FromAm, NoEntry),
        FromA1in, A1Out)

-----------------------------------------------------------------------------
(***************************************************************************)
(* Calls.                                                                  *)
(***************************************************************************)

Hit(key) ==
  /\ \/ /\ pageIndex_[key] = A1In
        /\ UNCHANGED am_
     \/ /\ pageIndex_[key] = Am
        /\ am_' = SpliceToFront(am_, key)
  /\ UNCHANGED <<a1in_, a1out_, pageIndex_, calls>>

\* Neither an entry nor a page: ghosts are misses too, and stay in place.
Miss(key) ==
  /\ pageIndex_[key] \in {NoEntry, A1Out}
  /\ Enter(key)
  /\ UNCHANGED store

InsertNewPage(key) ==
  /\ Leave(key)
  /\ pageIndex_[key] = NoEntry
  /\ a1in_' = Cons(key, A1inKept)
  /\ am_' = AmKept
  /\ a1out_' = GhostsAfter(FALSE)
  /\ pageIndex_' = Filed(IndexAfter(FALSE), {key}, A1In)

PromoteGhostPage(key) ==
  /\ Leave(key)
  /\ pageIndex_[key] = A1Out
  /\ a1in_' = A1inKept
  /\ am_' = Cons(key, AmKept)
  /\ a1out_' = RemoveFirst(GhostsAfter(TRUE), key)
  /\ pageIndex_' = Filed(IndexAfter(TRUE), {key}, Am)

\* The loader has itself cached key: insert throws.
InsertDuplicate(key) ==
  /\ Leave(key)
  /\ pageIndex_[key] \in {A1In, Am}
  /\ UNCHANGED store

\* Mutant of the catch block: the entry of the staged page stays.
RollbackForgotten(key) == pageIndex_' = Filed(pageIndex_, {key}, A1In)

\* The catch block of insertNewPage: the entry of the staged page is erased.
Rollback(key) == pageIndex_' = Filed(Filed(pageIndex_, {key}, A1In), {key}, NoEntry)

\* Planning the eviction throws: a hash of a key, or a copy of the ghost's key.
PlanThrows(key) ==
  /\ Leave(key)
  /\ Full
  /\ \/ pageIndex_[key] = NoEntry /\ Rollback(key)
     \/ pageIndex_[key] = A1Out /\ UNCHANGED pageIndex_
  /\ UNCHANGED <<a1in_, am_, a1out_>>

\* Mutant of promoteGhostPage: the ghost is taken before the page is copied.
LoadThrowsAfterGhostTaken(key) ==
  /\ Leave(key)
  /\ a1out_' = RemoveFirst(a1out_, key)
  /\ pageIndex_' = IF pageIndex_[key] = A1Out THEN Filed(pageIndex_, {key}, NoEntry)
                   ELSE pageIndex_
  /\ UNCHANGED <<a1in_, am_>>

\* The loader throws, or copying its page does.
LoadThrows(key) ==
  /\ Leave(key)
  /\ UNCHANGED store

Next ==
  \E key \in Key :
    \/ Hit(key)
    \/ Miss(key)
    \/ InsertNewPage(key)
    \/ PromoteGhostPage(key)
    \/ InsertDuplicate(key)
    \/ PlanThrows(key)
    \/ LoadThrows(key)

Spec == Init /\ [][Next]_vars

-----------------------------------------------------------------------------
(***************************************************************************)
(* Properties.                                                             *)
(***************************************************************************)

\* What lookup finds: an entry that refers to a page.
Resident == {key \in Key : pageIndex_[key] \in {A1In, Am}}

\* The queues hold keys, and each key has at most one kind of index entry.
TypeOK ==
  /\ a1in_ \in Seq(Key)
  /\ am_ \in Seq(Key)
  /\ a1out_ \in Seq(Key)
  /\ pageIndex_ \in [Key -> {A1In, Am, A1Out, NoEntry}]
  /\ CallsTypeOK

\* Every record and every ghost is in the queue its index entry refers to,
\* once, and in no other, so no entry outlives its record or ghost; pages and
\* ghosts stay within their limits, through nested calls too; and ghosts exist
\* only while the cache is full.
IndexConsistent ==
  /\ TypeOK
  /\ IsInjective(a1in_) /\ ToSet(a1in_) = {k \in Key : pageIndex_[k] = A1In}
  /\ IsInjective(am_) /\ ToSet(am_) = {k \in Key : pageIndex_[k] = Am}
  /\ IsInjective(a1out_) /\ ToSet(a1out_) = {k \in Key : pageIndex_[k] = A1Out}
  /\ Len(a1in_) + Len(am_) <= Capacity
  /\ Len(a1out_) <= ghostLimit_
  /\ a1out_ # <<>> => Full

\* A call that ends either makes its own key resident or leaves all queues
\* and the index as they were: a ghost survives a failed load of its page.
FailureAtomicity ==
  [][CallEnds => \/ UNCHANGED store
                 \/ Last(calls) \in Resident' \ Resident]_vars

Reference ==
  INSTANCE Reference2Q WITH recent <- a1in_, repeated <- am_, history <- a1out_

\* The indexed, staged implementation does to the three queues, order
\* included, exactly what the linear model of the tests does; the tests
\* compare the two without failures and without nested calls.
ImplementsReference == Reference!Spec

Contract == INSTANCE Cache WITH resident <- Resident

\* The 2Q cache is a cache: ghosts are never found by lookup, and a page is
\* given up only when the cache is full, one for each page stored.
ImplementsCache == Contract!Spec
=============================================================================
