--------------------------- MODULE CacheREFHistory ---------------------------
(***************************************************************************)
(* CacheREF with its misses counted, as Cache::lookupUpdate counts them,   *)
(* and with a note of whether every load has succeeded so far and none has *)
(* called the cache again.  The notes restrict no action.                  *)
(***************************************************************************)
EXTENDS CacheREF, Belady

\* For TLC: all sequences of seven requests.
ShortRequestLists == {requests \in [1..7 -> Key] : NumberedByFirst(requests)}

VARIABLES
  amountMisses,  \* stats_.amountMisses of the cache
  disturbed      \* some call failed, or ran inside the loader of another

historyVars == <<cache_, pageIndex_, requests_, currentRequest_, calls,
                 amountMisses, disturbed>>

HistoryInit ==
  /\ Init
  /\ amountMisses = 0
  /\ disturbed = FALSE

Call(key) ==
  /\ \/ Hit(key) /\ UNCHANGED amountMisses
     \/ Miss(key) /\ amountMisses' = amountMisses + 1
  /\ disturbed' = (disturbed \/ calls # <<>>)

Answer(key) ==
  /\ Insert(key)
  /\ UNCHANGED <<amountMisses, disturbed>>

Failure(key) ==
  /\ InsertThrows(key) \/ InsertDuplicate(key) \/ LoadThrows(key)
  /\ disturbed' = TRUE
  /\ UNCHANGED amountMisses

HistoryNext == \E key \in Key : Call(key) \/ Answer(key) \/ Failure(key)

HistorySpec == HistoryInit /\ [][HistoryNext]_historyVars

\* REF is the lower bound the benchmarks take it for: after any part of the
\* sequence it still reaches the end with no more misses than the best cache
\* of its size would need for the whole sequence.
NeverWorseThanBest ==
  ~ disturbed /\ calls = <<>> =>
    amountMisses
      + MinMissesFrom(requests_, Capacity)[currentRequest_][Resident]
      = MinMisses(requests_, Capacity)
=============================================================================
