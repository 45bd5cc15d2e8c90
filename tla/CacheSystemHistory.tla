------------------------- MODULE CacheSystemHistory -------------------------
(***************************************************************************)
(* CacheSystem with history variables: the keys that a loader has asked    *)
(* the system for while a call for the same key was waiting, what the      *)
(* benchmark runner counts outside the system, and the calls that failed   *)
(* before a level had found out whether it has the page, or before the     *)
(* loader was called.  They restrict no action, but bound the calls.       *)
(***************************************************************************)
EXTENDS CacheSystem

CONSTANT MaxRequests  \* bound: system calls made

\* checkCacheConfiguration rejects a configuration of more levels.
ASSUME RunnerAssumption == LastLevel <= 3

\* The stages of a call, where it may be lost: the levels, and the loader.
Stage == 1..(LastLevel + 1)

VARIABLES
  reentered,        \* the keys asked for again while a call for them was waiting
  requestCount,     \* the system calls made
  memoryLoadCount,  \* the calls of the loader that were made
  lost              \* per stage, the calls that ended before anything was counted
                    \* there but, at a level, a request

historyVars == <<vars, reentered, requestCount, memoryLoadCount, lost>>

HistoryInit ==
  /\ Init
  /\ reentered = {}
  /\ requestCount = 0
  /\ memoryLoadCount = 0
  /\ lost = [stage \in Stage |-> 0]

UserCalls == control = "user" /\ control' = "ask"

LoaderStarts == control = "ask" /\ control' = "user" /\ frames' = frames

\* The running call ends with neither a hit nor a miss.
CallLost ==
  /\ control = "ask"
  /\ levelStats'[Running.level].hits = levelStats[Running.level].hits
  /\ levelStats'[Running.level].misses = levelStats[Running.level].misses

\* The last level has missed, but the loader is not called.
LoadLost == control = "ask" /\ control' = "throw" /\ frames' = frames

HistoryNext ==
  /\ Next
  /\ reentered' =
       reentered \cup {key \in Key : \E i, j \in DOMAIN frames' :
                                       /\ i # j
                                       /\ frames'[i] = [level |-> 1, key |-> key]
                                       /\ frames'[j] = frames'[i]}
  /\ requestCount' = IF UserCalls THEN requestCount + 1 ELSE requestCount
  /\ requestCount' <= MaxRequests
  /\ memoryLoadCount' = IF LoaderStarts THEN memoryLoadCount + 1 ELSE memoryLoadCount
  /\ lost' = [stage \in Stage |->
                lost[stage] + (IF \/ CallLost /\ stage = Running.level
                                  \/ LoadLost /\ stage = LastLevel + 1 THEN 1 ELSE 0)]

HistorySpec == HistoryInit /\ [][HistoryNext]_historyVars

-----------------------------------------------------------------------------
(***************************************************************************)
(* What the benchmarks require of the counters of a cache system: the      *)
(* runner before it prints them (cache_benchmark_runner.cpp), and the      *)
(* scripts after they have read what it printed (cache_benchmark.py).      *)
(***************************************************************************)

\* The requests that reach a level: all of them the first, and each other one
\* those missed above it.
ExpectedRequests(levels, requests, level) ==
  IF level = 1 THEN requests ELSE levels[level - 1].misses

SumOfHits(levels) == SumFunction([level \in DOMAIN levels |-> levels[level].hits])

\* checkCacheStatistics throws nothing.
CheckCacheStatistics(levels, total, requests, loads) ==
  /\ \A level \in DOMAIN levels :
       /\ levels[level].requests = ExpectedRequests(levels, requests, level)
       /\ levels[level].hits + levels[level].misses = levels[level].requests
  /\ total.requests = requests
  /\ total.hits = SumOfHits(levels)
  /\ total.misses = loads
  /\ Last(levels).misses = loads
  /\ SumOfHits(levels) + loads = requests

Absent == [requests |-> 0, hits |-> 0, misses |-> 0]

\* printCacheStatistics: the totals, and always three levels.
PrintedStatistics(levels, total) ==
  [total  |-> total,
   levels |-> [level \in 1..3 |-> IF level <= Len(levels) THEN levels[level] ELSE Absent]]

\* check_statistics raises nothing.
CheckStatistics(printed, requests, levelCount) ==
  LET present == SubSeq(printed.levels, 1, levelCount)
  IN /\ \A level \in 1..3 : level > levelCount => printed.levels[level] = Absent
     /\ \A level \in DOMAIN present :
          /\ present[level].requests = ExpectedRequests(present, requests, level)
          /\ present[level].hits + present[level].misses = present[level].requests
     /\ printed.total.requests = requests
     /\ printed.total.hits = SumOfHits(present)
     /\ printed.total.misses = Last(present).misses
     /\ printed.total.hits + printed.total.misses = printed.total.requests

-----------------------------------------------------------------------------
(***************************************************************************)
(* Properties.                                                             *)
(***************************************************************************)

\* Between system calls checkCacheStatistics accepts the counters exactly when
\* no call was lost at a level or before the loader, and check_statistics, which
\* does not see the loads, exactly when none was lost at a level.  Whenever the
\* user runs, in a loader too, a level's hits, misses and lost calls make up the
\* calls that should have reached it, and its requests lie between the hits and
\* misses and those calls: also after loads and insertions that failed and
\* loaders that called back.
StatisticsAccepted ==
  /\ LevelsAccounted
  /\ control = "user" =>
       /\ \A level \in Level :
            LET expected == ExpectedRequests(levelStats, requestCount, level)
            IN /\ expected = levelStats[level].hits + levelStats[level].misses + lost[level]
               /\ levelStats[level].requests <= expected
       /\ levelStats[LastLevel].misses = memoryLoadCount + lost[LastLevel + 1]
  /\ frames = <<>> =>
       /\ CheckCacheStatistics(levelStats, stats_, requestCount, memoryLoadCount)
            <=> \A stage \in Stage : lost[stage] = 0
       /\ CheckStatistics(PrintedStatistics(levelStats, stats_), requestCount, LastLevel)
            <=> \A level \in Level : lost[level] = 0

\* The levels never disagree about a page: all copies of a key come from one
\* load, whatever each level evicted and whichever insertions failed, unless
\* a loader asked the system for its own key.
CopiesAgree ==
  \A key \in Key \ reentered : \A upper, lower \in Level :
    key \in Resident(upper) \cap Resident(lower) =>
      pages[upper][key] = pages[lower][key]
=============================================================================
