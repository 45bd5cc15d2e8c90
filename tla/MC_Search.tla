------------------------------ MODULE MC_Search ------------------------------
(***************************************************************************)
(* The exact search with its ties, and the count of ideal misses that it   *)
(* bounds its branches by, for TLC: a behaviour is one of a search or one  *)
(* of a count.                                                             *)
(*                                                                         *)
(* Two levels seldom miss less than one, and three than two, so that runs  *)
(* for which they do are given here, with all runs that differ from them   *)
(* in one request, and lists in which a run is repeated.  The counts are   *)
(* those of all short request sequences.                                   *)
(***************************************************************************)
EXTENDS SearchOutcome, IdealMisses

\* Two levels win with a total of 3.
TwoLevels == <<1, 2, 1, 3, 3, 4, 4, 5, 1>>

\* Three levels win with a total of 5.
ThreeLevels == <<1, 2, 1, 3, 4, 3, 4, 3, 5, 6, 6, 5, 7, 1>>

\* With a total of 5 three levels are found before two levels that are as good.
Tie == <<1, 2, 1, 3, 2, 3, 4, 5, 4, 6, 7, 6, 2>>

Neighbours(run) ==
  {[run EXCEPT ![i] = key] : i \in DOMAIN run, key \in 1..Max(ToSet(run))}

MCRunLists ==
  {<<run>> : run \in Neighbours(TwoLevels) \cup Neighbours(ThreeLevels) \cup Neighbours(Tie)}
    \cup {<<run, TwoLevels, run>> : run \in Neighbours(TwoLevels)}
    \cup {<<TwoLevels, run, run>> : run \in Neighbours(TwoLevels)}

\* LEVEL_COSTS and MEMORY_COST of research/model.py, LEVEL_ACCESS_COSTS and
\* MEMORY_ACCESS_COST of cache_benchmark.py.
MCAccessCosts ==
  {[levels |-> <<1, 3, 10>>, memory |-> 50], [levels |-> <<1, 5, 20>>, memory |-> 100]}

CONSTANTS
  Length,   \* the length of the sequences whose misses are counted
  KeyCount  \* the keys they request

MCTraces == {trace \in [1..Length -> 1..KeyCount] : NumberedByFirst(trace)}

-----------------------------------------------------------------------------

VARIABLE program  \* "search" or "count"

\* What is not running has one initial state.
NoCount ==
  /\ requests = [i \in 1..Length |-> 1]
  /\ capacity = Min(Capacities)
  /\ IdealInit

NoSearch ==
  /\ runs = <<TwoLevels>>
  /\ totalCapacity_ = Min(Totals)
  /\ maxLevels_ = Min(LevelLimits)
  /\ TieInit

SearchInit ==
  \/ program = "search" /\ TieInit /\ NoCount
  \/ program = "count" /\ IdealInit /\ NoSearch

SearchNext ==
  \/ program = "search" /\ TieNext /\ UNCHANGED <<program, idealVars>>
  \/ program = "count" /\ IdealNext /\ UNCHANGED <<program, tieVars>>

SearchSpec == SearchInit /\ [][SearchNext]_<<program, tieVars, idealVars>>
=============================================================================
