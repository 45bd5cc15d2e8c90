----------------------------- MODULE MC_Commands -----------------------------
(***************************************************************************)
(* The commands, for TLC: LRU, which may be compared with, 2Q, which needs *)
(* two slots, and REF, which needs a level of its own; capacities of four  *)
(* in all; traces of two or three requests, which differ in every argument *)
(* that they are generated from.  The original benchmark is explored by    *)
(* itself, with LRU alone.                                                 *)
(***************************************************************************)
EXTENDS Commands

MCPlaces == {"parser", "patterns", "case", "research", "naming"}

MCBenchmarkPlace == {"benchmark"}

MCStrategies == <<"LRU", "2Q">>

MCBenchmarkStrategies == <<"LRU">>

\* Every request sequence is one of these; generators are explored in "patterns".
\* A number of two digits may be cut short in a torn file.
MCTrace(pattern, seed, count) ==
  [i \in 1..count |-> IF pattern = "scan" THEN 10 * i ELSE 10 + ((i * seed) % 3)]

-----------------------------------------------------------------------------
(***************************************************************************)
(* The parser: all short sequences of tokens.                              *)
(***************************************************************************)

MCConfigTokens ==
  SeqOf({INT(0), INT(1), INT(2), INT(4), IDENTIFIER("LRU"), IDENTIFIER("x")}, 3)

MCInputTokens == SeqOf({INT(0), INT(1), INT(2), IDENTIFIER("LRU")}, 4)

-----------------------------------------------------------------------------
(***************************************************************************)
(* The patterns: every one, with the smallest scale and the greatest.      *)
(***************************************************************************)

Legacy(pattern) == [suite |-> "legacy", pattern |-> pattern, requests |-> 8]

Research(pattern, count, size) ==
  [suite |-> "research", pattern |-> pattern, requests |-> count, scale |-> size]

MCGenerators ==
  {Legacy(pattern) : pattern \in LegacyPatterns}
    \cup {Research(pattern, 8, size) :
            pattern \in LegacyPatterns \cup {"popular"}, size \in {2, 16, 5460}}
    \cup {Research("navigation", 1536, 2)}
    \cup {[suite |-> "file", requests |-> 4, tokens |-> tokens] :
            tokens \in [1..4 -> {"a", "b", "c"}]}

-----------------------------------------------------------------------------
(***************************************************************************)
(* The original benchmark: two commands in one root.                       *)
(***************************************************************************)

MCLayouts == <<<<4>>, <<2, 2>>>>

MCRequestPatterns == <<"uniform">>

MCRandomSeeds == {<<1>>}

-----------------------------------------------------------------------------
(***************************************************************************)
(* A case: some that are accepted, and one for each way to be refused.     *)
(***************************************************************************)

CaseOf(pattern, count, capacities, strategies) ==
  [pattern |-> pattern, seed |-> 1, requests |-> count,
   capacities |-> capacities, strategies |-> strategies]

MCCaseArguments ==
  {CaseOf("scan", 2, <<4>>, <<"REF">>), CaseOf("hot", 2, <<4>>, <<"LRU">>),
   CaseOf("scan", 1, <<4, 2>>, <<"LRU", "2Q">>), CaseOf("scan", 2, <<1>>, <<"2Q">>),
   CaseOf("scan", 2, <<1, 1>>, <<"LRU">>), CaseOf("scan", 2, <<2, 2>>, <<"LRU", "REF">>)}

MCCompareArguments ==
  {[capacity |-> 2, strategies |-> <<"LRU", "2Q", "LRU", "REF">>],
   [capacity |-> 1, strategies |-> <<"LRU", "2Q">>]}

-----------------------------------------------------------------------------
(***************************************************************************)
(* Results: four users, of cache_research.py, of the research command, of  *)
(* their own request files, and of both commands for hierarchies.          *)
(***************************************************************************)

MCHierarchyPatterns == <<"scan">>

MCSoftwarePatterns == <<"scan", "popular">>

MCUserTraces == {<<"a", "b">>, <<"a", "a", "b">>}

Software ==
  [sweep |-> FALSE, modes |-> <<"software">>, patterns |-> <<>>, seeds |-> <<1, 2>>,
   requests |-> 2, scale |-> 2, sizes |-> {1, 2}, total |-> 5, l1_sizes |-> {1, 2},
   l2_sizes |-> {1, 2}, level_limits |-> <<4, 4, 3>>, trace |-> FALSE, plots |-> FALSE,
   plan |-> FALSE, force |-> FALSE]

Hierarchy == [Software EXCEPT !.modes = <<"hierarchy">>, !.plots = TRUE]

Both == [Software EXCEPT !.modes = <<"hierarchy", "software">>]

Sweep == [Software EXCEPT !.sweep = TRUE, !.patterns = <<"scan", "popular", "scan">>]

OwnRequests == [Software EXCEPT !.trace = TRUE, !.sizes = {2}]

\* Refused: a total that leaves nothing for the third level, seeds that are not
\* distinct, a pattern that hierarchies do not have.
MCResearchCommands ==
  {{Both, [Both EXCEPT !.total = 2]},
   {Software, Sweep, [Sweep EXCEPT !.force = TRUE], [Sweep EXCEPT !.plan = TRUE],
    [Software EXCEPT !.seeds = <<1, 1>>]},
   {OwnRequests, [OwnRequests EXCEPT !.plots = TRUE]},
   {Hierarchy, [Hierarchy EXCEPT !.sweep = TRUE, !.patterns = <<"scan">>],
    [Hierarchy EXCEPT !.sweep = TRUE, !.patterns = <<"popular">>]}}

-----------------------------------------------------------------------------
(***************************************************************************)
(* Renaming: two sources and their header, which both may propose to       *)
(* change, at any offset.                                                  *)
(***************************************************************************)

MCProjectFiles == {"cache.h", "a.cpp", "b.cpp"}

MCSources == <<"a.cpp", "b.cpp">>

MCInitialBytes == [path \in MCProjectFiles |-> <<1, 2, 3>>]

MCEditedBytes == <<4, 2>>

Fixes(path) ==
  [path : {path}, offset : 0..3, length : 0..2, text : {<<5>>, <<6, 7>>}]

MCReports ==
  {{}, {[path |-> "library.h", offset |-> 0, length |-> 1, text |-> <<5>>]}}
    \cup {{fix} : fix \in Fixes("cache.h")}
    \cup {{fix, [fix EXCEPT !.path = "a.cpp"]} :
            fix \in {fix \in Fixes("cache.h") : fix.length = 1}}
==============================================================================
