---------------------------- MODULE ExactSearch ----------------------------
(***************************************************************************)
(* The exact configuration search                                          *)
(* (cacheBenchmarks/cache_exact_search.cpp): of all ways to divide a total *)
(* capacity among at most maxLevels_ caches and to give each a policy, one *)
(* with the fewest misses.  A candidate is cut as soon as it cannot        *)
(* improve on the best so far, a first level that passes on the same       *)
(* requests as an earlier one is not pursued, and neither is one that      *)
(* Belady's MIN says cannot improve.                                       *)
(*                                                                         *)
(* The recursion of searchAdditionalLevels is the stack calls; countMisses *)
(* and evaluateLastLevel are operators.                                    *)
(***************************************************************************)
EXTENDS PolicyReplay, Belady

CONSTANTS
  RunLists,    \* the lists of runs explored; a run is a sequence of requests
  Totals,      \* the total capacities explored
  LevelLimits  \* the values of max_levels explored

\* main rejects empty lists, empty runs, a total below one and other depths.
ASSUME InputAssumption ==
  /\ \A runs \in RunLists : runs # <<>> /\ \A i \in DOMAIN runs : runs[i] # <<>>
  /\ Totals \subseteq Nat \ {0}
  /\ LevelLimits \subseteq 1..3

VARIABLES
  runs,             \* the runs of the trace file
  totalCapacity_,
  maxLevels_,
  best_,            \* the best configuration so far
  bestSingleLevel,
  calls,            \* the unfinished calls of searchAdditionalLevels
  started           \* evaluateLastLevel has tried the single levels

vars == <<runs, totalCapacity_, maxLevels_, best_, bestSingleLevel, calls, started>>

SumOf(Op(_), seq) == FoldLeft(LAMBDA sum, item : sum + Op(item), 0, seq)

-----------------------------------------------------------------------------
(***************************************************************************)
(* Traces and counts.                                                      *)
(***************************************************************************)

\* The different runs, in the order of their first occurrence, each with the
\* number of its occurrences.
UniqueTraces(list) ==
  LET first == SelectSeq([i \in DOMAIN list |-> i],
                         LAMBDA i : \A j \in 1..(i - 1) : list[j] # list[i])
      Count(run) == Cardinality({i \in DOMAIN list : list[i] = run})
  IN [i \in DOMAIN first |-> [requests |-> list[first[i]],
                              repetitionCount |-> Count(list[first[i]])]]

inputTraces_ == UniqueTraces(runs)

\* countIdealMisses is FarthestMisses: module IdealMisses.
lowerBound(traces, capacity) ==
  SumOf(LAMBDA trace : trace.repetitionCount * FarthestMisses(trace.requests, capacity),
        traces)

theoreticalMinimum_ == lowerBound(inputTraces_, totalCapacity_)

\* std::numeric_limits<std::size_t>::max(): more misses than there can be.
NoConfiguration ==
  [levels |-> <<>>, misses |-> 1 + SumOf(Len, runs)]

\* countMisses stops at missLimit, which is never zero.
countMisses(requests, policy, capacity, missLimit) ==
  Min({missLimit, Len(collectMissRequests(requests, policy, capacity))})

\* Mutant of MissLimit: the division is not rounded up.
MissLimitRoundedDown(remaining, repetitionCount) == Max({1, remaining \div repetitionCount})

\* The fewest misses of a trace with which the candidate does not improve.
MissLimit(remaining, repetitionCount) ==
  remaining \div repetitionCount + IF remaining % repetitionCount = 0 THEN 0 ELSE 1

\* The misses of a candidate for the last level, counted until they reach
\* those of the best configuration.
CandidateMisses(best, traces, policy, capacity) ==
  LET add(total, trace) ==
        IF total >= best.misses THEN total
        ELSE total + trace.repetitionCount
               * countMisses(trace.requests, policy, capacity,
                             MissLimit(best.misses - total, trace.repetitionCount))
  IN FoldLeft(add, 0, traces)

\* evaluateLastLevel: the best configuration once every policy has been tried
\* for a last level of this capacity below the levels selected.
evaluateLastLevel(traces, capacity, selected) ==
  LET try(best, policy) ==
        LET misses == CandidateMisses(best, traces, policy, capacity)
        IN IF isPolicySupported(policy, capacity) /\ misses < best.misses
             THEN [levels |-> Append(selected, [policy |-> policy, capacity |-> capacity]),
                   misses |-> misses]
             ELSE best
  IN FoldLeft(try, best_, [policy \in Policy |-> policy])

-----------------------------------------------------------------------------
(***************************************************************************)
(* The search.                                                             *)
(***************************************************************************)

Init ==
  /\ runs \in RunLists
  /\ totalCapacity_ \in Totals
  /\ maxLevels_ \in LevelLimits
  /\ best_ = NoConfiguration
  /\ bestSingleLevel = NoConfiguration
  /\ calls = <<>>
  /\ started = FALSE

\* A call of searchAdditionalLevels at the start of its loops: the capacity and
\* policy it is about to try, and the traces it has tried for the capacity.
Call(traces, remainingCapacity, remainingLevels) ==
  [traces |-> traces, remainingCapacity |-> remainingCapacity,
   remainingLevels |-> remainingLevels,
   capacity |-> 1, policy |-> 1, distinctMissTraces |-> {}]

\* run: the single levels first, then the others.
StartSearch ==
  /\ ~ started
  /\ started' = TRUE
  /\ best_' = evaluateLastLevel(inputTraces_, totalCapacity_, <<>>)
  /\ bestSingleLevel' = best_'
  /\ calls' = <<Call(inputTraces_, totalCapacity_, maxLevels_)>>
  /\ UNCHANGED <<runs, totalCapacity_, maxLevels_>>

Searching == Last(calls)

\* Nothing more to try, or nothing better to find.
Returns(call) ==
  \/ call.remainingLevels <= 1
  \/ best_.misses = theoreticalMinimum_
  \/ call.capacity >= call.remainingCapacity

\* The innermost call goes on with the next policy, or the next capacity.
Advanced(stack) ==
  LET call == Last(stack)
      next == IF call.policy < Len(policyNames)
                THEN [call EXCEPT !.policy = @ + 1]
                ELSE [call EXCEPT !.policy = 1, !.capacity = @ + 1,
                                  !.distinctMissTraces = {}]
  IN Append(Front(stack), next)

\* The levels selected by the calls of a stack.
Selected(stack) ==
  [i \in DOMAIN stack |-> [policy |-> stack[i].policy, capacity |-> stack[i].capacity]]

Return ==
  /\ calls # <<>>
  /\ Returns(Searching)
  /\ calls' = IF Len(calls) = 1 THEN <<>> ELSE Advanced(Front(calls))
  /\ UNCHANGED <<runs, totalCapacity_, maxLevels_, best_, bestSingleLevel, started>>

\* What the level under trial passes on.
MissTraces(call) ==
  [i \in DOMAIN call.traces |->
     [call.traces[i] EXCEPT !.requests =
        collectMissRequests(@, call.policy, call.capacity)]]

Trying ==
  /\ calls # <<>>
  /\ ~ Returns(Searching)

SkipUnsupported ==
  /\ Trying
  /\ ~ isPolicySupported(Searching.policy, Searching.capacity)
  /\ calls' = Advanced(calls)
  /\ UNCHANGED <<runs, totalCapacity_, maxLevels_, best_, bestSingleLevel, started>>

IsDuplicate(call) == MissTraces(call) \in call.distinctMissTraces

PruneDuplicate ==
  /\ Trying
  /\ isPolicySupported(Searching.policy, Searching.capacity)
  /\ IsDuplicate(Searching)
  /\ calls' = Advanced(calls)
  /\ UNCHANGED <<runs, totalCapacity_, maxLevels_, best_, bestSingleLevel, started>>

Remembering(call) ==
  [call EXCEPT !.distinctMissTraces = @ \cup {MissTraces(call)}]

\* MIN with all the capacity that is left does not improve.
CannotImprove(call) ==
  lowerBound(MissTraces(call), call.remainingCapacity - call.capacity) >= best_.misses

PruneByBound ==
  /\ Trying
  /\ isPolicySupported(Searching.policy, Searching.capacity)
  /\ ~ IsDuplicate(Searching)
  /\ CannotImprove(Searching)
  /\ calls' = Advanced(Append(Front(calls), Remembering(Searching)))
  /\ UNCHANGED <<runs, totalCapacity_, maxLevels_, best_, bestSingleLevel, started>>

\* The level is selected: every last level below it is tried, then further
\* levels.
Descend ==
  /\ Trying
  /\ isPolicySupported(Searching.policy, Searching.capacity)
  /\ ~ IsDuplicate(Searching)
  /\ ~ CannotImprove(Searching)
  /\ LET below == Searching.remainingCapacity - Searching.capacity
     IN /\ best_' = evaluateLastLevel(MissTraces(Searching), below, Selected(calls))
        /\ calls' = Append(Append(Front(calls), Remembering(Searching)),
                           Call(MissTraces(Searching), below,
                                Searching.remainingLevels - 1))
  /\ UNCHANGED <<runs, totalCapacity_, maxLevels_, bestSingleLevel, started>>

Searched == started /\ calls = <<>>

Search ==
  \/ StartSearch
  \/ Return
  \/ SkipUnsupported
  \/ PruneDuplicate
  \/ PruneByBound
  \/ Descend

-----------------------------------------------------------------------------
(***************************************************************************)
(* What the search is to find, by trying everything.                       *)
(***************************************************************************)

\* replayConfiguration for one run.
replayConfiguration(requests, levels) ==
  Len(FoldLeft(LAMBDA remaining, level :
                 collectMissRequests(remaining, level.policy, level.capacity),
               requests, levels))

ReplayMisses(levels) ==
  SumOf(LAMBDA run : replayConfiguration(run, levels), runs)

\* All configurations with a number of levels.
Configurations(levelCount) ==
  {levels \in [1..levelCount -> [policy : Policy, capacity : 1..totalCapacity_]] :
     /\ SumOf(LAMBDA level : level.capacity, levels) = totalCapacity_
     /\ \A i \in 1..levelCount : isPolicySupported(levels[i].policy, levels[i].capacity)}

FewestMisses(levelCounts) ==
  Min({ReplayMisses(levels) : levels \in UNION {Configurations(n) : n \in levelCounts}})

\* Replay of a configuration that the search has found agrees with its count,
\* as printConfiguration demands.
ReplayAgrees(configuration) ==
  ReplayMisses(configuration.levels) = configuration.misses

\* In spite of all cuts the search ends with the fewest misses of any
\* configuration, and of any single cache, and has counted them to the end.
SearchIsExact ==
  Searched =>
    /\ best_.misses = FewestMisses(1..maxLevels_)
    /\ bestSingleLevel.misses = FewestMisses({1})
    /\ ReplayAgrees(best_)
    /\ ReplayAgrees(bestSingleLevel)
=============================================================================
