--------------------------- MODULE CacheARCHistory ---------------------------
(***************************************************************************)
(* CacheARC with history variables: when each key was last used, and       *)
(* whether it was used again since the cache last learned of it.  They     *)
(* restrict no action.                                                     *)
(***************************************************************************)
EXTENDS CacheARC

VARIABLES
  recency,  \* the keys the directory knows, by their last use, latest first
  reused    \* of these, the keys used more than once since they became known

historyVars == <<list, pageIndex_, paged, t1TargetSize_, calls, recency, reused>>

HistoryInit ==
  /\ Init
  /\ recency = <<>>
  /\ reused = {}

Known == {key \in Key : pageIndex_[key] # NoList}

\* A key is used when its call hits or when its page is stored.
Use(key) ==
  /\ Hit(key) \/ InsertGhost(key) \/ InsertNew(key)
  /\ recency' = Among(SpliceToFront(recency, key), Known')
  /\ reused' = (reused \cup (IF key \in Known THEN {key} ELSE {})) \cap Known'

NoUse(key) ==
  /\ \/ GhostMiss(key) \/ Miss(key)
     \/ InsertDuplicate(key) \/ InsertThrows(key) \/ LoadThrows(key)
  /\ UNCHANGED <<recency, reused>>

HistoryNext == \E key \in Key : Use(key) \/ NoUse(key)

HistorySpec == HistoryInit /\ [][HistoryNext]_historyVars

\* T1 and its ghosts are the keys used once since the cache learned of them,
\* T2 and its ghosts the keys used again; and in both the pages are the more
\* recently used part and the ghosts the less recent one, each list in order
\* of use.  So every eviction, and every forgotten ghost, is the least
\* recently used of its kind.
OrderedByUse ==
  /\ list[T1] \o list[B1] = Among(recency, Key \ reused)
  /\ list[T2] \o list[B2] = Among(recency, reused)
=============================================================================
