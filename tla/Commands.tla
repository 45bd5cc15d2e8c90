------------------------------ MODULE Commands ------------------------------
(***************************************************************************)
(* The commands that work on files, and what they share: the parser, the   *)
(* request patterns, the original benchmark, a case of benchmark.py, the   *)
(* results of study I and II, and the renaming of code_quality.py.  None   *)
(* of them reads or writes a variable of another, so that interleaving     *)
(* them shows nothing: each behaviour is one in one of the places.         *)
(***************************************************************************)
EXTENDS CacheParser, RequestPatterns, FixedBenchmark, BenchmarkCase, ResearchFolder,
        NamingFixes

CONSTANT Places  \* those that are explored

ASSUME PlaceAssumption ==
  Places \subseteq {"parser", "patterns", "benchmark", "case", "research", "naming"}

VARIABLE place

commandsVars ==
  <<place, parserVars, patternVars, benchmarkVars, caseVars, researchVars, namingVars>>

\* What is not in the place has one initial state.
CommandsInit ==
  /\ place \in Places
  /\ ParserInit
  /\ PatternInit
  /\ place # "patterns" => generator = CHOOSE any \in Generators : TRUE
  /\ BenchmarkInit
  /\ CaseInit
  /\ ResearchInit
  /\ place # "research" => /\ commands = CHOOSE any \in ResearchCommands : TRUE
                           /\ userTrace = CHOOSE any \in UserTraces : TRUE
  /\ NamingInit

CommandsNext ==
  \/ /\ place = "parser"
     /\ ParserNext
     /\ UNCHANGED <<place, patternVars, benchmarkVars, caseVars, researchVars, namingVars>>
  \/ /\ place = "patterns"
     /\ PatternNext
     /\ UNCHANGED <<place, parserVars, benchmarkVars, caseVars, researchVars, namingVars>>
  \/ /\ place = "benchmark"
     /\ BenchmarkNext
     /\ UNCHANGED <<place, parserVars, patternVars, caseVars, researchVars, namingVars>>
  \/ /\ place = "case"
     /\ CaseNext
     /\ UNCHANGED <<place, parserVars, patternVars, benchmarkVars, researchVars, namingVars>>
  \/ /\ place = "research"
     /\ ResearchNext
     /\ UNCHANGED <<place, parserVars, patternVars, benchmarkVars, caseVars, namingVars>>
  \/ /\ place = "naming"
     /\ NamingNext
     /\ UNCHANGED <<place, parserVars, patternVars, benchmarkVars, caseVars, researchVars>>

CommandsSpec == CommandsInit /\ [][CommandsNext]_commandsVars

-----------------------------------------------------------------------------

\* Whatever was killed before, a command of benchmark.py that is not forced
\* leaves the files of earlier ones alone: CaseKept and ResultsKept.
FilesKept == CaseKept /\ ResultsKept

\* A generated trace is one that the parser takes and that has the structure its
\* pattern promises: KeysFit and PagesApart.
TraceUsable == KeysFit /\ PagesApart
=============================================================================
