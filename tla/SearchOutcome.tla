---------------------------- MODULE SearchOutcome ----------------------------
(***************************************************************************)
(* What becomes of the configurations that the exact search compares.      *)
(*                                                                         *)
(* settle_level_tie of cacheBenchmarks/cache_unrestricted.py: the search   *)
(* keeps the first of equally good configurations it meets, and the script *)
(* then settles ties in favour of fewer levels, running the search again   *)
(* with two levels where that is needed.                                   *)
(*                                                                         *)
(* The costs that the studies compare configurations by (research/model.py,*)
(* research/reference.py and cache_benchmark.py of cacheBenchmarks): the   *)
(* number of misses against that of one optimal cache with the same        *)
(* capacity in all, and the mean cost of an access.  Costs are those of    *)
(* all requests of a run: a mean times their number.                       *)
(***************************************************************************)
EXTENDS ExactSearch

CONSTANT AccessCosts  \* the tables of costs: of a look in a level, and of a load

ASSUME CostAssumption ==
  \A costs \in AccessCosts :
    Len(costs.levels) = 3 /\ \A i \in 1..3 : costs.levels[i] >= 0

VARIABLES
  complete,  \* best of the search with all levels, while it is searched again
  settled    \* the configuration saved, once it is settled

tieVars == <<vars, complete, settled>>

TieInit ==
  /\ Init
  /\ complete = NoConfiguration
  /\ settled = NoConfiguration

Again == complete # NoConfiguration

Open == Searched /\ settled = NoConfiguration

\* Mutant of KeepBest: two levels and three are never compared.
KeepBestAlways ==
  /\ Open
  /\ ~ Again
  /\ best_.misses # bestSingleLevel.misses
  /\ settled' = best_
  /\ UNCHANGED <<vars, complete>>

KeepSingle ==
  /\ Open
  /\ ~ Again
  /\ best_.misses = bestSingleLevel.misses
  /\ settled' = bestSingleLevel
  /\ UNCHANGED <<vars, complete>>

KeepBest ==
  /\ Open
  /\ ~ Again
  /\ best_.misses # bestSingleLevel.misses
  /\ Len(best_.levels) # 3
  /\ settled' = best_
  /\ UNCHANGED <<vars, complete>>

\* Three levels won: a fresh process searches with two.
SearchTwoLevels ==
  /\ Open
  /\ ~ Again
  /\ best_.misses # bestSingleLevel.misses
  /\ Len(best_.levels) = 3
  /\ complete' = best_
  /\ maxLevels_' = 2
  /\ best_' = NoConfiguration
  /\ bestSingleLevel' = NoConfiguration
  /\ started' = FALSE
  /\ UNCHANGED <<runs, totalCapacity_, calls, settled>>

\* The script raises when the second search finds fewer misses.
SettleTie ==
  /\ Open
  /\ Again
  /\ best_.misses >= complete.misses
  /\ settled' = IF best_.misses = complete.misses THEN best_ ELSE complete
  /\ UNCHANGED <<vars, complete>>

Settled == settled # NoConfiguration /\ UNCHANGED tieVars

Searches == Search /\ UNCHANGED <<complete, settled>>

TieNext ==
  \/ Searches
  \/ KeepSingle
  \/ KeepBest
  \/ SearchTwoLevels
  \/ SettleTie
  \/ Settled

TieSpec == TieInit /\ [][TieNext]_tieVars

-----------------------------------------------------------------------------

\* The counters of a run: of every level the requests that reach it, which are
\* the misses of the levels before, and the misses of all.
Counters(run, levels) ==
  [requests |-> [i \in DOMAIN levels |-> replayConfiguration(run, SubSeq(levels, 1, i - 1))],
   misses   |-> replayConfiguration(run, levels)]

\* average_access_cost, calculate_average_access_cost: every level is looked in
\* for the requests that reach it.
average_access_cost(counters, costs) ==
  costs.memory * counters.misses
    + SumOf(LAMBDA i : costs.levels[i] * counters.requests[i],
            [i \in DOMAIN counters.requests |-> i])

\* Mutant of PrefixCapacity: the capacities are not added up.
PrefixCapacityOfLevel(capacities, i) == capacities[i]

PrefixCapacity(capacities, i) == SumOf(LAMBDA capacity : capacity, SubSeq(capacities, 1, i))

\* Each prefix of the levels as an optimal cache of its own.
hierarchy_lower_bound(capacities, costs, request_count, misses_by_capacity) ==
  LET PrefixMisses(i) == misses_by_capacity[PrefixCapacity(capacities, i)]
  IN costs.levels[1] * request_count
       + SumOf(LAMBDA i : costs.levels[i + 1] * PrefixMisses(i),
               [i \in 1..(Len(capacities) - 1) |-> i])
       + costs.memory * PrefixMisses(Len(capacities))

\* The cost that measure and evaluate_request_pattern take for 100 percent.
ReferenceCost(costs, request_count, reference_misses) ==
  costs.levels[1] * request_count + costs.memory * reference_misses

-----------------------------------------------------------------------------

\* No configuration with fewer levels than the one saved misses as rarely.
FewestLevelsSaved ==
  settled # NoConfiguration =>
    /\ ReplayAgrees(settled)
    /\ \A fewer \in 1..(Len(settled.levels) - 1) : \A levels \in Configurations(fewer) :
         ReplayMisses(levels) > settled.misses

\* No hierarchy loads less often than the one optimal cache of the same total,
\* so that neither script ever stops with "fewer misses" on correct caches; the
\* relaxed bound is one, and no weaker than the reference, so that no cost is
\* below 100 percent.
ReferenceHolds ==
  (~ started /\ ~ Again /\ maxLevels_ = Max(LevelLimits)) =>
    \A run \in ToSet(runs) :
      LET misses_by_capacity ==
            [capacity \in 1..totalCapacity_ |-> FarthestMisses(run, capacity)]
          reference_misses == misses_by_capacity[totalCapacity_]
      IN \A levels \in UNION {Configurations(n) : n \in LevelLimits} :
           LET counters == Counters(run, levels)
               capacities == [level \in DOMAIN levels |-> levels[level].capacity]
           IN /\ counters.misses >= reference_misses
              /\ \A costs \in AccessCosts :
                   LET bound == hierarchy_lower_bound(capacities, costs, Len(run),
                                                      misses_by_capacity)
                   IN /\ average_access_cost(counters, costs) >= bound
                      /\ bound >= ReferenceCost(costs, Len(run), reference_misses)
=============================================================================
