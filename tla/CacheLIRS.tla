------------------------------ MODULE CacheLIRS ------------------------------
(***************************************************************************)
(* The LIRS policy (cache/cacheLIRS.h).  Every key with an index entry has *)
(* a status: LIR pages are always resident; an HIR key is resident, and    *)
(* then in the queue Q, or not, and then only remembered by the stack S.   *)
(* S orders keys by recency; its bottom is kept LIR by pruning.            *)
(*                                                                         *)
(* PagePosition's three iterators are not repeated here: the code sets and *)
(* resets each together with the insertion or removal of the node it       *)
(* refers to, so resident, stackIterator and queueIterator say that the    *)
(* key is in residentPages_, stackS_ and queueQ_.                          *)
(***************************************************************************)
EXTENDS CacheCall

CONSTANT hirTargetSizeDivisor  \* 100 in the code: the HIR share is 1/divisor

ASSUME DivisorAssumption == hirTargetSizeDivisor \in Nat \ {0, 1}

\* CacheLIRS's constructor rejects capacities below 2.
ASSUME TwoSlotsAssumption == Capacity >= 2

LIR == "LIR"
HIR == "HIR"
NoEntry == "no entry"

hirTargetSize_ == Max({1, Capacity \div hirTargetSizeDivisor})
lirTargetSize_ == Capacity - hirTargetSize_

VARIABLES
  pageIndex_,      \* the status of each indexed key
  residentPages_,  \* the keys whose page is cached
  stackS_,         \* the recency stack, top first
  queueQ_,         \* the resident HIR keys, newest first
  lirCount_        \* the number of LIR pages

store == <<pageIndex_, residentPages_, stackS_, queueQ_, lirCount_>>

vars == <<pageIndex_, residentPages_, stackS_, queueQ_, lirCount_, calls>>

Init ==
  /\ pageIndex_ = [key \in Key |-> NoEntry]
  /\ residentPages_ = {}
  /\ stackS_ = <<>>
  /\ queueQ_ = <<>>
  /\ lirCount_ = 0
  /\ calls = <<>>

-----------------------------------------------------------------------------
(***************************************************************************)
(* The plan of an access: what prepareAccess computes from a state that it *)
(* does not change.  A key that insert has just given an entry is HIR.     *)
(***************************************************************************)

IsLIR(key) == pageIndex_[key] = LIR

\* Mutant of accessAction: there is no warm-up.
PromotesOnReuseOnly(key) == ~ IsLIR(key) /\ Contains(stackS_, key)

\* accessAction: an HIR key is promoted when it is reused while in S, or
\* loaded while LIR slots are vacant.
Promotes(key) ==
  /\ ~ IsLIR(key)
  /\ \/ Contains(stackS_, key)
     \/ key \notin residentPages_ /\ lirCount_ < lirTargetSize_

\* The LIR page that gives its status to key.
LirToDemote(key) ==
  IF Promotes(key) /\ lirCount_ >= lirTargetSize_ THEN {Last(stackS_)} ELSE {}

\* S without the accessed key, which moves to the top.
StackBelow(key) == RemoveFirst(stackS_, key)

\* Mutant of prepareStackPrune: the page about to be demoted stops it.
KeptByPruneDemoted(key) == SelectLastInSeq(StackBelow(key), IsLIR)

\* prepareStackPrune looks up from the bottom of S for the next page that
\* stays LIR: how many keys remain below the accessed one.
KeptByPrune(key) ==
  SelectLastInSeq(StackBelow(key), LAMBDA k : IsLIR(k) /\ k \notin LirToDemote(key))

\* Whether the access prunes S at all.
Prunes(key) == IsLIR(key) \/ Promotes(key)

StackToPrune(key) ==
  IF Prunes(key)
    THEN ToSet(SubSeq(StackBelow(key), KeptByPrune(key) + 1, Len(StackBelow(key))))
    ELSE {}

-----------------------------------------------------------------------------
(***************************************************************************)
(* Applying the plan.                                                      *)
(***************************************************************************)

\* moveToStackTop and pruneStack on S.
StackAfter(key) ==
  Cons(key, IF Prunes(key) THEN SubSeq(StackBelow(key), 1, KeptByPrune(key))
            ELSE StackBelow(key))

\* Mutant of promoteToLIR: the demoted page is not queued.
QueueAfterLosingDemoted(key, queue) ==
  CASE Promotes(key) -> RemoveFirst(queue, key)
    [] IsLIR(key) -> queue
    [] OTHER -> SpliceToFront(queue, key)

\* promoteToLIR and moveToQueueFront on Q.
QueueAfter(key, queue) ==
  CASE Promotes(key) ->
         IF LirToDemote(key) = {} THEN RemoveFirst(queue, key)
         ELSE SpliceToFront(RemoveFirst(queue, key), Last(stackS_))
    [] IsLIR(key) -> queue
    [] OTHER -> SpliceToFront(queue, key)

\* The statuses after the access, given the pages resident by then: a pruned
\* key without a page loses its entry.
IndexAfter(key, resident) ==
  [k \in Key |->
     CASE k = key -> IF Prunes(key) THEN LIR ELSE HIR
       [] k \in LirToDemote(key) -> HIR
       [] k \in StackToPrune(key) \ resident -> NoEntry
       [] OTHER -> pageIndex_[k]]

LirCountAfter(key) ==
  lirCount_ + (IF Promotes(key) THEN 1 ELSE 0) - Cardinality(LirToDemote(key))

-----------------------------------------------------------------------------
(***************************************************************************)
(* Calls.                                                                  *)
(***************************************************************************)

Hit(key) ==
  /\ key \in residentPages_
  /\ stackS_' = StackAfter(key)
  /\ queueQ_' = QueueAfter(key, queueQ_)
  /\ pageIndex_' = IndexAfter(key, residentPages_)
  /\ lirCount_' = LirCountAfter(key)
  /\ UNCHANGED <<residentPages_, calls>>

Miss(key) ==
  /\ key \notin residentPages_
  /\ Enter(key)
  /\ UNCHANGED store

\* Mutant of insertPage: room is made one page too late.
FullLate == Cardinality(residentPages_) > Capacity

Full == Cardinality(residentPages_) >= Capacity

HirToEvict == IF Full THEN {Last(queueQ_)} ELSE {}

\* Mutant of evictHIR: the entry of a page that S forgot stays.
IndexAfterEvictionKept(index) == index

\* evictHIR on the index: a page that is not in S is forgotten with it.
IndexAfterEviction(index) ==
  [k \in Key |-> IF k \in HirToEvict /\ ~ Contains(stackS_, k) THEN NoEntry
                 ELSE index[k]]

\* insertPage: the plan, evictHIR, then the access of a now resident key.
Insert(key) ==
  /\ Leave(key)
  /\ key \notin residentPages_
  /\ LET queue == IF Full THEN Front(queueQ_) ELSE queueQ_
         kept == residentPages_ \ HirToEvict
     IN /\ residentPages_' = kept \cup {key}
        /\ stackS_' = StackAfter(key)
        /\ queueQ_' = QueueAfter(key, queue)
        /\ pageIndex_' = IndexAfterEviction(IndexAfter(key, kept))
        /\ lirCount_' = LirCountAfter(key)

\* Mutant of the catch block: the entry of the new key stays.
RollbackForgotten(key) ==
  pageIndex_' = [pageIndex_ EXCEPT ![key] = IF @ = NoEntry THEN HIR ELSE @]

\* try_emplace and the catch block: an entry made by this call is erased.
Rollback(key) ==
  LET wasInserted == pageIndex_[key] = NoEntry
      emplaced == [pageIndex_ EXCEPT ![key] = IF wasInserted THEN HIR ELSE @]
  IN pageIndex_' = [emplaced EXCEPT ![key] = IF wasInserted THEN NoEntry ELSE @]

\* Making the plan throws: a hash of a key or a copy of one into a staged node.
PlanThrows(key) ==
  /\ Leave(key)
  /\ key \notin residentPages_
  /\ Rollback(key)
  /\ UNCHANGED <<residentPages_, stackS_, queueQ_, lirCount_>>

\* The loader has itself cached key: insert throws.
InsertDuplicate(key) ==
  /\ Leave(key)
  /\ key \in residentPages_
  /\ UNCHANGED store

\* Mutant: the miss refreshes the key in S although its load fails.
LoadThrowsRefreshed(key) ==
  /\ Leave(key)
  /\ stackS_' = IF Contains(stackS_, key) THEN SpliceToFront(stackS_, key) ELSE stackS_
  /\ UNCHANGED <<pageIndex_, residentPages_, queueQ_, lirCount_>>

\* The loader throws, or copying its page does.
LoadThrows(key) ==
  /\ Leave(key)
  /\ UNCHANGED store

Next ==
  \E key \in Key :
    \/ Hit(key)
    \/ Miss(key)
    \/ Insert(key)
    \/ PlanThrows(key)
    \/ InsertDuplicate(key)
    \/ LoadThrows(key)

Spec == Init /\ [][Next]_vars

-----------------------------------------------------------------------------
(***************************************************************************)
(* Properties.                                                             *)
(***************************************************************************)

\* An index entry with a page behind it.
Resident == {key \in Key : pageIndex_[key] # NoEntry /\ key \in residentPages_}

\* Stack and queue hold keys, and the LIR pages keep to their share.
TypeOK ==
  /\ pageIndex_ \in [Key -> {LIR, HIR, NoEntry}]
  /\ residentPages_ \subseteq Key
  /\ stackS_ \in Seq(Key)
  /\ queueQ_ \in Seq(Key)
  /\ lirCount_ \in 0..lirTargetSize_
  /\ CallsTypeOK

\* The comment on PagePosition: an LIR page is resident, in S and not in Q; a
\* resident HIR page is in Q; any other key with an entry is in S alone.  So
\* the page to evict is always found in Q, and no key is indexed in vain.
PositionsConsistent ==
  /\ TypeOK
  /\ IsInjective(stackS_)
  /\ IsInjective(queueQ_)
  /\ residentPages_ \subseteq {key \in Key : pageIndex_[key] # NoEntry}
  /\ \A key \in Key :
       LET resident == key \in residentPages_
           inS == Contains(stackS_, key)
           inQ == Contains(queueQ_, key)
       IN CASE pageIndex_[key] = LIR -> resident /\ inS /\ ~ inQ
            [] pageIndex_[key] = HIR -> (inQ <=> resident) /\ (inS \/ resident)
            [] pageIndex_[key] = NoEntry -> ~ inS /\ ~ inQ

\* The bottom of S is an LIR page, as demotion assumes without looking.
StackBottomIsLIR == stackS_ # <<>> => IsLIR(Last(stackS_))

\* The LIR pages are counted right and never exceed their share; an HIR page
\* is cached only when that share is used up, and Q holds one to evict
\* whenever the cache is full.
SharesKept ==
  /\ lirCount_ = Cardinality({key \in Key : IsLIR(key)})
  /\ lirCount_ <= lirTargetSize_
  /\ Cardinality(residentPages_) <= Capacity
  /\ queueQ_ # <<>> => lirCount_ = lirTargetSize_
  /\ Full => queueQ_ # <<>>

\* Stack, queue, statuses and counts fit together.
DirectoryConsistent == PositionsConsistent /\ StackBottomIsLIR /\ SharesKept

\* A call that ends either makes its own key resident or leaves stack, queue,
\* statuses and pages as they were.
FailureAtomicity ==
  [][CallEnds => \/ UNCHANGED store
                 \/ Last(calls) \in Resident' \ Resident]_vars

Contract == INSTANCE Cache WITH resident <- Resident

\* The LIRS cache is a cache: keys remembered by S alone are never found by
\* lookup, and a page is given up only when the cache is full, one for each
\* page stored.
ImplementsCache == Contract!Spec
=============================================================================
