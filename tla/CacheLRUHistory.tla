--------------------------- MODULE CacheLRUHistory ---------------------------
(***************************************************************************)
(* CacheLRU with a history variable that remembers what the cache cannot:  *)
(* every key ever used, the most recent first.  It restricts no action.    *)
(***************************************************************************)
EXTENDS CacheLRU

VARIABLE recency  \* the keys used so far, by their last completed use

historyVars == <<cache_, pageIndex_, calls, recency>>

HistoryInit ==
  /\ Init
  /\ recency = <<>>

\* A key is used when its call hits or when its page is stored.
Use(key) ==
  /\ Hit(key) \/ Insert(key)
  /\ recency' = SpliceToFront(recency, key)

NoUse(key) ==
  /\ Miss(key) \/ InsertThrows(key) \/ InsertDuplicate(key) \/ LoadThrows(key)
  /\ UNCHANGED recency

HistoryNext == \E key \in Key : Use(key) \/ NoUse(key)

HistorySpec == HistoryInit /\ [][HistoryNext]_historyVars

\* Eviction is by least recent use, for any history of hits, misses, nested
\* and failed calls: the cache holds the Capacity most recently used keys, in
\* that order, and all keys ever used as long as they fit.
KeepsMostRecent ==
  /\ IsPrefix(cache_, recency)
  /\ Len(cache_) < Capacity => cache_ = recency
=============================================================================
