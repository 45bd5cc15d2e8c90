--------------------------- MODULE ResearchFolder ---------------------------
(***************************************************************************)
(* The folders of results of study I and II: cacheBenchmarks/              *)
(* cache_research.py, which overwrites what it finds, and the research     *)
(* command of cacheBenchmarks/benchmark.py, which first looks whether      *)
(* there is anything (research_sweep).  Measuring goes through one session *)
(* of module BatchRunner; the tables are those of research/results.py.     *)
(*                                                                         *)
(* The commands follow each other; each may fail or be killed at any       *)
(* moment, also while it writes a file, and the user's file of requests    *)
(* may be edited meanwhile.  What was counted in a run is modelled by the  *)
(* run itself: its requests, strategies and capacities.                    *)
(***************************************************************************)
EXTENDS StudyModel

CONSTANTS
  ResearchCommands,    \* for each folder explored: what its user calls the
                       \* two commands with
  HIERARCHY_PATTERNS,  \* sequences, the first a prefix of the second
  SOFTWARE_PATTERNS,
  UserTraces           \* what the user's file of requests may hold

ASSUME PatternAssumption ==
  /\ HIERARCHY_PATTERNS \in Seq(STRING)
  /\ SOFTWARE_PATTERNS \in Seq(STRING) /\ IsInjective(SOFTWARE_PATTERNS)
  /\ IsPrefix(HIERARCHY_PATTERNS, SOFTWARE_PATTERNS)

ASSUME StrategiesAssumption ==
  CACHE_STRATEGIES \in Seq(STRING) /\ IsInjective(CACHE_STRATEGIES)
    /\ "LRU" \in ToSet(CACHE_STRATEGIES)

\* cache_research.py may take both modes, the research command takes one; the
\* types are those of their parsers.
ASSUME ModeAssumption ==
  \A user \in ResearchCommands : \A arguments \in user :
    /\ arguments.modes \in Seq({"hierarchy", "software"}) \ {<<>>}
    /\ arguments.sweep => Len(arguments.modes) = 1
    /\ arguments.trace \in BOOLEAN /\ arguments.plots \in BOOLEAN
    /\ arguments.seeds \in Seq(Int) /\ arguments.patterns \in Seq(STRING)
    /\ arguments.requests \in Int /\ arguments.scale \in Int /\ arguments.total \in Int
    /\ arguments.level_limits \in Seq(Int)
    /\ \A sizes \in {arguments.sizes, arguments.l1_sizes, arguments.l2_sizes} :
         IsFiniteSet(sizes) /\ sizes \subseteq Int

VARIABLES
  researchFiles,  \* of each mode: the files of its folder
  commands,       \* the arguments of the commands of its user
  research,       \* the command that is running
  userTrace,      \* the user's file of requests
  disturbed       \* history: the modes whose results a command has begun to
                  \* replace while a manifest stood beside them

researchVars == <<researchFiles, commands, research, userTrace, disturbed>>

Modes == {"hierarchy", "software"}

ResearchNames ==
  {"work", "plan.json", "raw.csv", "summary.csv", "comparison_with_lru.csv",
   "figures", "optimal_strategies_by_pattern.csv", "manifest.json"}

Missing == [exists |-> FALSE, complete |-> FALSE]

Torn == [exists |-> TRUE, complete |-> FALSE]

Saved(contents) == [exists |-> TRUE, complete |-> TRUE, contents |-> contents]

Idle == [modes |-> <<>>]

ResearchInit ==
  /\ researchFiles = [mode \in Modes |-> [name \in ResearchNames |-> Missing]]
  /\ commands \in ResearchCommands
  /\ research = Idle
  /\ userTrace \in UserTraces
  /\ disturbed = {}

-----------------------------------------------------------------------------
(***************************************************************************)
(* What is to be measured.                                                 *)
(***************************************************************************)

\* What read_arguments of cache_research.py accepts.
ValidResearch(arguments) ==
  /\ arguments.requests >= 1
  /\ arguments.scale >= 2
  /\ Cardinality(ToSet(arguments.seeds)) = Len(arguments.seeds)
  /\ \A size \in arguments.sizes : size >= 1
  /\ arguments.trace => arguments.modes = <<"software">> /\ arguments.patterns = <<>>
  /\ "hierarchy" \in ToSet(arguments.modes) =>
       ToSet(arguments.patterns) \subseteq ToSet(HIERARCHY_PATTERNS)

Layouts(mode, arguments) ==
  IF mode = "hierarchy"
    THEN hierarchy_layouts(arguments.total, arguments.l1_sizes, arguments.l2_sizes,
                           arguments.level_limits)
    ELSE {<<size>> : size \in IF arguments.sizes = {} THEN software_sizes(arguments.scale)
                              ELSE arguments.sizes}

\* Mutant of PatternsOf: a pattern that is named twice is measured twice.
PatternsOfRepeated(mode, arguments) ==
  IF arguments.patterns # <<>> THEN arguments.patterns
  ELSE IF mode = "hierarchy" THEN HIERARCHY_PATTERNS
  ELSE IF arguments.trace THEN <<"user_trace">>
  ELSE SOFTWARE_PATTERNS

PatternsOf(mode, arguments) ==
  IF arguments.patterns # <<>> THEN FromKeys(arguments.patterns)
  ELSE IF mode = "hierarchy" THEN HIERARCHY_PATTERNS
  ELSE IF arguments.trace THEN <<"user_trace">>
  ELSE SOFTWARE_PATTERNS

SeedsOf(arguments) == IF arguments.trace THEN <<0>> ELSE arguments.seeds

\* Two runs have the same requests if and only if these are equal: pattern,
\* seed, number and scale determine them, or they were read from the file.
RequestsFor(arguments, pattern, seed, trace) ==
  IF arguments.trace THEN <<"file", trace>>
  ELSE <<pattern, seed, arguments.requests, arguments.scale>>

\* make_metadata, with what run_experiment adds to it.
MetadataOf(mode, arguments, trace, input_sha256) ==
  [mode     |-> mode,
   input_sha256 |-> input_sha256,
   requests |-> IF arguments.trace THEN Len(trace) ELSE arguments.requests,
   seeds    |-> SeedsOf(arguments),
   layouts  |-> Layouts(mode, arguments),
   patterns |-> PatternsOf(mode, arguments),
   plots    |-> arguments.plots,
   trace_hashes |->
     [run \in ToSet(PatternsOf(mode, arguments)) \X ToSet(SeedsOf(arguments)) |->
        RequestsFor(arguments, run[1], run[2], trace)]]

Measurement(requests, strategies, capacities) ==
  [requests |-> requests, strategies |-> strategies, capacities |-> capacities]

\* A row: what was measured, and the matching count of min_misses, which is of
\* the requests and the capacity in all.
ExperimentRow(pattern, seed, capacities, strategies, requests) ==
  [pattern |-> pattern, seed |-> seed, capacities |-> capacities, strategies |-> strategies,
   misses    |-> Measurement(requests, strategies, capacities),
   reference |-> <<requests, FoldSeq(+, 0, capacities)>>]

\* The strategies that a layout is tried with.
ValidChoices(capacities) ==
  {strategies \in [1..Len(capacities) -> ToSet(CACHE_STRATEGIES)] :
     valid_strategies(strategies, capacities)}

\* The rows of run_experiment, in the order of its loops.
RowsFor(mode, arguments, trace) ==
  LET layouts == SortedTuples(Layouts(mode, arguments))
      Row(pattern, seed, capacities, strategies) ==
        ExperimentRow(pattern, seed, capacities, strategies,
                      RequestsFor(arguments, pattern, seed, trace))
      OfLayout(pattern, seed, capacities) ==
        LET tried == Among(Products(CACHE_STRATEGIES, Len(capacities)), ValidChoices(capacities))
        IN [i \in DOMAIN tried |-> Row(pattern, seed, capacities, tried[i])]
      OfSeed(pattern, seed) ==
        Combined(LAMBDA capacities : OfLayout(pattern, seed, capacities), layouts)
      OfPattern(pattern) ==
        Combined(LAMBDA seed : OfSeed(pattern, seed), SeedsOf(arguments))
  IN Combined(OfPattern, PatternsOf(mode, arguments))

-----------------------------------------------------------------------------
(***************************************************************************)
(* The tables.                                                             *)
(***************************************************************************)

Configuration(row) == <<row.pattern, row.capacities, row.strategies>>

\* The rows of one configuration, for each configuration.
ByConfiguration(rows) ==
  [configuration \in {Configuration(rows[i]) : i \in DOMAIN rows} |->
     Among(rows, {row \in ToSet(rows) : Configuration(row) = configuration})]

\* summarize: the number of runs, and what the means and extrema are taken of.
summarize(raw_rows) ==
  LET groups == ByConfiguration(raw_rows)
  IN {[configuration |-> configuration,
       runs          |-> Len(groups[configuration]),
       misses        |-> {row.misses : row \in ToSet(groups[configuration])},
       references    |-> {row.reference : row \in ToSet(groups[configuration])}] :
        configuration \in DOMAIN groups}

\* Mutant of ComparedRun: the seed is not looked at.
ComparedRunAnySeed(row) == <<row.pattern, row.capacities>>

\* The runs with which a run is compared.
ComparedRun(row) == <<row.pattern, row.seed, row.capacities>>

\* paired_comparison: of each configuration, what LRU is subtracted from what.
paired_comparison(raw_rows) ==
  LET groups == ByConfiguration(raw_rows)
      \* Of the rows with one key a dictionary keeps the last.
      Lru(row) ==
        raw_rows[SelectLastInSeq(raw_rows, LAMBDA other :
                   other.strategies = <<"LRU">> /\ ComparedRun(other) = ComparedRun(row))]
  IN {[configuration |-> configuration,
       runs          |-> Len(groups[configuration]),
       differences   |-> {<<row.misses, Lru(row).misses>> :
                            row \in ToSet(groups[configuration])}] :
        configuration \in DOMAIN groups}

\* plot_hierarchy shows the winners at one layout.
ShownLayout(layouts) ==
  IF <<2, 32, 256>> \in layouts THEN <<2, 32, 256>> ELSE CHOOSE layout \in layouts : TRUE

-----------------------------------------------------------------------------
(***************************************************************************)
(* The commands.                                                           *)
(***************************************************************************)

Mode == research.modes[1]

\* Mutant of MayResearch: only a finished experiment counts as results.
MayResearchUnfinished(arguments) ==
  /\ ValidResearch(arguments)
  /\ (arguments.sweep /\ ~ arguments.force) =>
       ~ researchFiles[arguments.modes[1]]["manifest.json"].exists

\* research_sweep wants the folder of its mode empty.
MayResearch(arguments) ==
  /\ ValidResearch(arguments)
  /\ (arguments.sweep /\ ~ arguments.force) =>
       \A name \in ResearchNames : ~ researchFiles[arguments.modes[1]][name].exists

\* The requests of a file are read once, when an experiment begins.
Experiment(modes, arguments) ==
  [modes |-> modes, arguments |-> arguments, requests |-> userTrace,
   input_sha256 |-> userTrace, written |-> <<>>]

\* A command begins; without layouts it raises before it changes anything.
BeginResearch(arguments) ==
  /\ research = Idle
  /\ MayResearch(arguments)
  /\ Layouts(arguments.modes[1], arguments) # {}
  /\ research' = Experiment(arguments.modes, arguments)
  /\ UNCHANGED <<researchFiles, commands, userTrace, disturbed>>

\* Mutant of Outputs: the manifest is saved before the results.
OutputsManifestFirst(mode, arguments) ==
  IF arguments.plan THEN <<"plan.json">>
  ELSE <<"work", "manifest.json", "raw.csv", "summary.csv">> \o
       (IF mode = "software" THEN <<"comparison_with_lru.csv">> ELSE <<>>) \o
       (IF arguments.plots THEN <<"figures">> ELSE <<>>) \o
       (IF arguments.plots /\ mode = "hierarchy"
          THEN <<"optimal_strategies_by_pattern.csv">> ELSE <<>>)

\* What a command writes into the folder of a mode, in this order: a plan, or
\* the results and at last the manifest.
Outputs(mode, arguments) ==
  IF arguments.plan THEN <<"plan.json">>
  ELSE <<"work", "raw.csv", "summary.csv">> \o
       (IF mode = "software" THEN <<"comparison_with_lru.csv">> ELSE <<>>) \o
       (IF arguments.plots THEN <<"figures">> ELSE <<>>) \o
       (IF arguments.plots /\ mode = "hierarchy"
          THEN <<"optimal_strategies_by_pattern.csv">> ELSE <<>>) \o
       <<"manifest.json">>

NextOutput == Outputs(Mode, research.arguments)[Len(research.written) + 1]

\* Of the winners that optimal_strategies_by_pattern.csv lists, the model keeps
\* only what they are chosen from: it has no costs.
OutputContents ==
  LET rows == RowsFor(Mode, research.arguments, research.requests)
      metadata == MetadataOf(Mode, research.arguments, research.requests,
                             research.input_sha256)
  IN CASE NextOutput = "work"          -> <<>>
       [] NextOutput = "plan.json"     ->
            [metadata EXCEPT !.requests = research.arguments.requests,
                             !.input_sha256 = <<>>, !.trace_hashes = <<>>]
       [] NextOutput = "raw.csv"       -> rows
       [] NextOutput = "summary.csv"   -> summarize(rows)
       [] NextOutput = "figures"       -> summarize(rows)
       [] NextOutput = "comparison_with_lru.csv" -> paired_comparison(rows)
       [] NextOutput = "optimal_strategies_by_pattern.csv" ->
            {result \in summarize(rows) :
               result.configuration[2] = ShownLayout(metadata.layouts)}
       [] NextOutput = "manifest.json" -> metadata

Disturbs == NextOutput = "raw.csv" /\ researchFiles[Mode]["manifest.json"].exists

\* The next mode, if it has layouts, or the end of the command.
NextExperiment ==
  LET rest == Tail(research.modes)
  IN IF rest = <<>> \/ Layouts(rest[1], research.arguments) = {} THEN Idle
     ELSE Experiment(rest, research.arguments)

\* The next file is written, or, for "work", everything is measured; before that
\* the hash of the user's file is made, and the file is read again for it.
WriteOutput ==
  /\ research # Idle
  /\ researchFiles' = [researchFiles EXCEPT ![Mode][NextOutput] = Saved(OutputContents)]
  /\ research' =
       IF Len(research.written) + 1 = Len(Outputs(Mode, research.arguments))
         THEN NextExperiment
         ELSE [research EXCEPT
                 !.written = Append(@, NextOutput),
                 !.input_sha256 = IF NextOutput = "work" THEN userTrace ELSE @]
  /\ disturbed' = IF NextOutput = "manifest.json" THEN disturbed \ {Mode}
                  ELSE IF Disturbs THEN disturbed \cup {Mode} ELSE disturbed
  /\ UNCHANGED <<commands, userTrace>>

\* The command fails, without matplotlib or in the runner, the plots or a file,
\* or it is killed: the next file may be there in part.
StopResearch ==
  /\ research # Idle
  /\ research' = Idle
  /\ \/ UNCHANGED <<researchFiles, disturbed>>
     \/ /\ researchFiles' = [researchFiles EXCEPT ![Mode][NextOutput] = Torn]
        /\ disturbed' = IF Disturbs THEN disturbed \cup {Mode} ELSE disturbed
  /\ UNCHANGED <<commands, userTrace>>

EditTrace ==
  /\ \E arguments \in commands : arguments.trace
  /\ userTrace' \in UserTraces
  /\ UNCHANGED <<researchFiles, commands, research, disturbed>>

ResearchNext ==
  \/ \E arguments \in commands : BeginResearch(arguments)
  \/ WriteOutput
  \/ StopResearch
  \/ EditTrace

-----------------------------------------------------------------------------

\* The rows that a manifest promises, of a layout and of all.
PromisedAt(manifest, capacities) ==
  {ExperimentRow(pattern, seed, capacities, strategies,
                 manifest.trace_hashes[<<pattern, seed>>]) :
     pattern \in ToSet(manifest.patterns), seed \in ToSet(manifest.seeds),
     strategies \in ValidChoices(capacities)}

Promised(manifest) ==
  UNION {PromisedAt(manifest, capacities) : capacities \in manifest.layouts}

\* Every promised row, once.
RawIsTrue(raw, manifest) ==
  ToSet(raw) = Promised(manifest) /\ Len(raw) = Cardinality(Promised(manifest))

\* Means over one run per seed.
SummaryIsTrue(summary, manifest) ==
  \A result \in summary :
    /\ result.runs = Cardinality(ToSet(manifest.seeds))
    /\ Cardinality(result.misses) = result.runs

\* Runs on the same requests, with the same capacity.
ComparisonIsTrue(comparison, manifest) ==
  \A result \in comparison :
    /\ Cardinality(result.differences) = Cardinality(ToSet(manifest.seeds))
    /\ \A pair \in result.differences :
         pair[2] = [pair[1] EXCEPT !.strategies = <<"LRU">>]

\* A manifest that can be read describes results that can be read: raw.csv has
\* every valid choice of strategies for every layout, pattern and seed exactly
\* once, measured on the requests of the manifest and set beside the reference
\* of the same requests and capacity; every mean is taken over one run per seed,
\* and LRU is subtracted from runs on the very same requests only.  Except where
\* a later command has begun to replace the results and has not finished.
ResultsTruthful ==
  \A mode \in Modes \ disturbed :
    researchFiles[mode]["manifest.json"].complete =>
      LET files == researchFiles[mode]
          manifest == files["manifest.json"].contents
      IN /\ files["raw.csv"].complete /\ RawIsTrue(files["raw.csv"].contents, manifest)
         /\ files["summary.csv"].complete /\ SummaryIsTrue(files["summary.csv"].contents, manifest)
         /\ mode = "software" =>
              /\ files["comparison_with_lru.csv"].complete
              /\ ComparisonIsTrue(files["comparison_with_lru.csv"].contents, manifest)
         /\ manifest.plots => files["figures"].complete

\* An unforced research command of benchmark.py never changes a file that was
\* there when it began: not the results of others, nor a plan, nor what a killed
\* command has left.
ResultsKept ==
  [][\A mode \in Modes, name \in ResearchNames :
       researchFiles[mode][name].exists /\ researchFiles'[mode][name] # researchFiles[mode][name] =>
         ~ research.arguments.sweep \/ research.arguments.force]_researchVars
=============================================================================
