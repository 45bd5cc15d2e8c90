--------------------------- MODULE FixedBenchmark ---------------------------
(***************************************************************************)
(* The original benchmark (cacheBenchmarks/cache_benchmark.py).  A command *)
(* writes all configuration and input files of its root, then runs every   *)
(* configuration on every pattern and seed in a process of its own and     *)
(* adds the counters to its table.                                         *)
(*                                                                         *)
(* Nothing keeps two commands out of one root at a time: here some of them *)
(* share it, each with an output of its own, and each may stop at any      *)
(* moment. What two commands write to a file at a time, or what is read of *)
(* a file that is opened for writing meanwhile, may be a mixture; its      *)
(* tokens are taken to have their places. The counters of a run are        *)
(* modelled by the experiment they were measured in; that no hierarchy     *)
(* misses less often than REF64, which the command checks too, is          *)
(* ReferenceHolds of SearchOutcome.                                        *)
(***************************************************************************)
EXTENDS ExperimentFiles, StudyModel

CONSTANTS
  Benchmarks,       \* the commands in the root
  LEVEL_CAPACITIES, \* the layouts, all of one total; the first has one level
  REQUEST_PATTERNS,
  RandomSeeds,      \* the values of seeds explored: sequences without repetition
  RequestCounts,    \* the values of requests explored
  Trace(_, _, _)    \* generate_request_sequence: module RequestPatterns

ASSUME LayoutAssumption == LEVEL_CAPACITIES # <<>> /\ Len(LEVEL_CAPACITIES[1]) = 1

\* The constants of the script, and what read_arguments accepts.
ASSUME BenchmarkAssumption ==
  /\ CACHE_STRATEGIES \in Seq(strategyNames)
  /\ LEVEL_CAPACITIES \in Seq(Seq(Nat))
  /\ REQUEST_PATTERNS \in Seq(STRING) \ {<<>>}
  /\ RandomSeeds \subseteq Seq(Int) \ {<<>>}
  /\ RequestCounts \subseteq Nat

\* A request sequence has as many requests as it is asked for.
ASSUME TraceAssumption ==
  \A pattern \in ToSet(REQUEST_PATTERNS), seeds \in RandomSeeds, count \in RequestCounts :
    \A seed \in ToSet(seeds) :
      Trace(pattern, seed, count) \in Seq(Nat) /\ Len(Trace(pattern, seed, count)) = count

VARIABLES
  benchmarkFiles,  \* the configuration and input files of the root, by name
  benchmarkTears,  \* history: what each file is, "whole", "part" or "mixed"
  benchmark        \* of each command: what it is doing, and its table

benchmarkVars == <<benchmarkFiles, benchmarkTears, benchmark>>

-----------------------------------------------------------------------------
(***************************************************************************)
(* What a command is to do.                                                *)
(***************************************************************************)

create_cache_configurations ==
  LET OfLayout(capacities) ==
        LET products == Products(CACHE_STRATEGIES, Len(capacities))
        IN [k \in DOMAIN products |->
              [strategies |-> Reverse(products[k]), capacities |-> capacities]]
  IN Combined(OfLayout, LEVEL_CAPACITIES)

REF64 == [strategies |-> <<"REF">>, capacities |-> LEVEL_CAPACITIES[1]]

\* A configuration file is named after strategies and capacities, an input file
\* after pattern, seed and capacities.  The number of requests is in no name.
get_config_path(configuration) == <<"configs", configuration.strategies, configuration.capacities>>

get_input_path(pattern, seed, capacities) == <<"inputs", <<pattern, seed>>, capacities>>

BenchmarkArguments ==
  [seeds : RandomSeeds, requests : RequestCounts, generateOnly : BOOLEAN]

\* Every pattern with every seed.
TracesOf(seeds) ==
  LET OfPattern(pattern) == [i \in DOMAIN seeds |-> [pattern |-> pattern, seed |-> seeds[i]]]
  IN Combined(OfPattern, REQUEST_PATTERNS)

\* The files generate_benchmark_files writes, in its order.
generate_benchmark_files ==
  LET Config(configuration) ==
        [path |-> get_config_path(configuration), tokens |-> ConfigFile(configuration.strategies)]
      Input(run, requests, capacities) ==
        [path   |-> get_input_path(run.pattern, run.seed, capacities),
         tokens |-> InputFile(capacities, Trace(run.pattern, run.seed, requests))]
      Inputs(run, requests) ==
        [i \in DOMAIN LEVEL_CAPACITIES |-> Input(run, requests, LEVEL_CAPACITIES[i])]
      configs == Append(create_cache_configurations, REF64)
  IN [arguments \in BenchmarkArguments |->
        [i \in DOMAIN configs |-> Config(configs[i])]
          \o Combined(LAMBDA run : Inputs(run, arguments.requests), TracesOf(arguments.seeds))]

\* The runs of run_cache_benchmark: for each pattern and seed REF64 first.
RunsOf ==
  LET configurations == <<REF64>> \o create_cache_configurations
      OfTrace(run) ==
        [i \in DOMAIN configurations |->
           [pattern |-> run.pattern, seed |-> run.seed, configuration |-> configurations[i]]]
  IN [arguments \in BenchmarkArguments |-> Combined(OfTrace, TracesOf(arguments.seeds))]

-----------------------------------------------------------------------------

NotStarted ==
  [state |-> "not started", arguments |-> CHOOSE arguments \in BenchmarkArguments : TRUE,
   files |-> 0, config |-> <<>>, input |-> <<>>, disturbed |-> FALSE, rows |-> <<>>]

BenchmarkPaths ==
  UNION {{file.path : file \in ToSet(generate_benchmark_files[arguments])} :
           arguments \in BenchmarkArguments}

\* A file that does not exist yet is read like an empty one: with an error.
BenchmarkInit ==
  /\ benchmarkFiles = [path \in BenchmarkPaths |-> <<>>]
  /\ benchmarkTears = [path \in BenchmarkPaths |-> "part"]
  /\ benchmark = [command \in Benchmarks |-> NotStarted]

BenchmarkStarts(command) ==
  /\ benchmark[command].state = "not started"
  /\ \E arguments \in BenchmarkArguments :
       benchmark' = [benchmark EXCEPT
         ![command].state = "open", ![command].arguments = arguments]
  /\ UNCHANGED <<benchmarkFiles, benchmarkTears>>

NextFile(command) ==
  generate_benchmark_files[benchmark[command].arguments][benchmark[command].files + 1]

NextPath(command) == NextFile(command).path

NextRun(command) ==
  RunsOf[benchmark[command].arguments][Len(benchmark[command].rows) + 1]

InputPath(command) ==
  LET run == NextRun(command)
  IN get_input_path(run.pattern, run.seed, run.configuration.capacities)

BeingWritten(path) ==
  \E command \in Benchmarks : benchmark[command].state = "write" /\ NextPath(command) = path

BeingRead(command, path) == benchmark[command].state = "measure" /\ InputPath(command) = path

\* Opening a file empties it; a part of it may be on disk before it is closed.
OpenBenchmarkFile(command) ==
  LET path == NextPath(command)
  IN /\ benchmark[command].state = "open"
     /\ \E part \in Parts(NextFile(command).tokens) :
          benchmarkFiles' = [benchmarkFiles EXCEPT ![path] = part]
     /\ benchmarkTears' = [benchmarkTears EXCEPT
          ![path] = IF BeingWritten(path) THEN "mixed" ELSE "part"]
     /\ benchmark' = [other \in Benchmarks |->
          IF other = command THEN [benchmark[command] EXCEPT !.state = "write"]
          ELSE IF BeingRead(other, path) THEN [benchmark[other] EXCEPT !.disturbed = TRUE]
          ELSE benchmark[other]]

FilesLeft(command) ==
  benchmark[command].files + 1 < Len(generate_benchmark_files[benchmark[command].arguments])

\* The rest of the file is written, over what another command has written since.
CloseBenchmarkFile(command) ==
  LET path == NextPath(command)
      tokens == NextFile(command).tokens
      found == benchmarkFiles[path]
  IN /\ benchmark[command].state = "write"
     /\ \/ benchmarkFiles' = [benchmarkFiles EXCEPT ![path] = tokens]
        \/ /\ benchmarkTears[path] = "mixed"
           /\ \E n \in 0..(Len(found) - 1) :
                benchmarkFiles' = [benchmarkFiles EXCEPT ![path] = Overlaid(found, tokens, n)]
     /\ benchmarkTears' = [benchmarkTears EXCEPT
          ![path] = IF benchmarkTears[path] = "mixed" THEN "mixed" ELSE "whole"]
     /\ benchmark' = [benchmark EXCEPT
          ![command].files = @ + 1,
          ![command].state = IF FilesLeft(command) THEN "open"
                             ELSE IF benchmark[command].arguments.generateOnly THEN "done"
                             ELSE "run"]

\* run_cache_experiment starts a process, which reads one file after the other.
RunnerReadsConfig(command) ==
  /\ benchmark[command].state = "run"
  /\ benchmark' = [benchmark EXCEPT
       ![command].config = benchmarkFiles[get_config_path(NextRun(command).configuration)],
       ![command].state = "config"]
  /\ UNCHANGED <<benchmarkFiles, benchmarkTears>>

RunnerOpensInput(command) ==
  /\ benchmark[command].state = "config"
  /\ benchmark' = [benchmark EXCEPT
       ![command].input = benchmarkFiles[InputPath(command)],
       ![command].disturbed = FALSE,
       ![command].state = "measure"]
  /\ UNCHANGED <<benchmarkFiles, benchmarkTears>>

\* What the process may have read of the input in the end: if the file was opened
\* for writing meanwhile, the beginning of what was there before, with or without
\* the rest of what is there now.
InputsRead(command) ==
  LET before == benchmark[command].input
      now == benchmarkFiles[InputPath(command)]
  IN {now} \cup
       IF benchmark[command].disturbed
         THEN {before} \cup Parts(before)
                \cup {SubSeq(Overlaid(before, now, n), 1, Len(now)) : n \in 0..(Len(before) - 1)}
         ELSE {}

TearRead(command) ==
  IF benchmark[command].disturbed THEN "mixed" ELSE benchmarkTears[InputPath(command)]

Measurements(command) ==
  {RunExperiment(benchmark[command].config, input) : input \in InputsRead(command)}

\* Mutant of RowAccepted: whatever the process prints is taken.
RowAcceptedUnchecked(command, measured) == measured # NoExperiment

\* The process succeeds, and its counters are those of as many requests and
\* levels as were asked for.
RowAccepted(command, measured) ==
  /\ measured # NoExperiment
  /\ CountersAccepted(measured, benchmark[command].arguments.requests,
                      Len(NextRun(command).configuration.capacities))

\* write_csv_result; the table is on disk only when it is complete.
WriteRow(command) ==
  /\ benchmark[command].state = "measure"
  /\ \E measured \in Measurements(command) :
       /\ RowAccepted(command, measured)
       /\ benchmark' = [benchmark EXCEPT
            ![command].rows = Append(@, [run |-> NextRun(command), measured |-> measured,
                                         tear |-> TearRead(command)]),
            ![command].config = <<>>,
            ![command].input = <<>>,
            ![command].disturbed = FALSE,
            ![command].state =
              IF Len(benchmark[command].rows) + 1 = Len(RunsOf[benchmark[command].arguments])
                THEN "done" ELSE "run"]
  /\ UNCHANGED <<benchmarkFiles, benchmarkTears>>

BenchmarkFails(command) ==
  /\ benchmark' = [benchmark EXCEPT
       ![command].state = "failed",
       ![command].config = <<>>,
       ![command].input = <<>>,
       ![command].disturbed = FALSE]
  /\ UNCHANGED <<benchmarkFiles, benchmarkTears>>

\* run_cache_experiment raises.
RefuseRow(command) ==
  /\ benchmark[command].state = "measure"
  /\ \E measured \in Measurements(command) : ~ RowAccepted(command, measured)
  /\ BenchmarkFails(command)

\* The command is killed, or a file cannot be written: what it was writing
\* stays as it is.
StopBenchmark(command) ==
  /\ benchmark[command].state \notin {"not started", "done", "failed"}
  /\ BenchmarkFails(command)

BenchmarkNext ==
  \E command \in Benchmarks :
    \/ BenchmarkStarts(command)
    \/ OpenBenchmarkFile(command)
    \/ CloseBenchmarkFile(command)
    \/ RunnerReadsConfig(command)
    \/ RunnerOpensInput(command)
    \/ WriteRow(command)
    \/ RefuseRow(command)
    \/ StopBenchmark(command)

-----------------------------------------------------------------------------

\* A row names the run it should be of, and was measured on its configuration and
\* as many requests as the command asked for: on those of its pattern and seed if
\* the input was whole when it was read.  Of an input that another command was
\* writing, or has left in part, only the last request may be another, a number
\* cut short.
RowRight(arguments, run, row) ==
  LET intended == Intended(run.configuration.strategies, run.configuration.capacities,
                           Trace(run.pattern, run.seed, arguments.requests))
      asked == intended.requests
      requests == row.measured.requests
  IN /\ row.run = run
     /\ row.measured.levels = intended.levels
     /\ Len(requests) = arguments.requests
     /\ row.tear = "whole" => requests = asked
     /\ row.tear = "part" =>
          \A k \in DOMAIN requests :
            \/ requests[k] = asked[k]
            \/ k = Len(requests) /\ INT(requests[k]) \in CutShort(INT(asked[k]))

\* Every row of a table is of the run it should be, and right, even though other
\* commands rewrite the files with other numbers of requests or leave them in
\* part; that the last request of a torn input was cut short nothing in the
\* script or the runner can tell.  Nothing is said of the requests of a file that
\* two commands were writing at a time, or that was opened for writing while it
\* was read.  A table is as long as it should be when the command succeeds.
RowsMeasured ==
  \A command \in Benchmarks :
    LET arguments == benchmark[command].arguments
        rows == benchmark[command].rows
    IN /\ \A i \in DOMAIN rows : RowRight(arguments, RunsOf[arguments][i], rows[i])
       /\ (benchmark[command].state = "done" /\ ~ arguments.generateOnly) =>
            Len(rows) = Len(RunsOf[arguments])
=============================================================================
