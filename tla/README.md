# Verification of Cache Research

TLA+ specifications of the caches in this repository, of the multi-level system
built from them, and of the programs that search for and measure cache
configurations, with TLC configurations and TLAPS proofs.

* [The system](#the-system)
* [Modules](#modules)
* [How the code is modelled](#how-the-code-is-modelled)
* [Runs](#runs)
* [Proofs](#proofs)
* [What is not modelled](#what-is-not-modelled)
* [Plan](#plan)

## The system

The repository has three layers: a header-only C++ library of cache policies
(`cache/`), a hierarchy of them (`cacheSystem.h`), and benchmarks
(`cacheBenchmarks/`): two C++ programs and the Python scripts around them.

| component | state | operations | must be right |
|---|---|---|---|
| `Cache` (`cache/cache.h`) | counters | `lookup`, `lookupUpdate` = `getPage`, on a miss the caller's loader, then `insert` | the loader may throw or call the same cache; a call stores its page or changes nothing; a page is given up only for another, in a full cache |
| LRU, LFU | a list of records, an index | the two steps of `lookupUpdate` | list and index agree; the victim is the least recently / least often used |
| ARC | lists T1, T2, B1, B2, a target, an index | the same, ghosts of evicted pages included | each key in one list, bounded directory, ghosts only in a full cache, each list in order of use |
| 2Q | queues A1in, Am, A1out, an index | the same | the queues do what the test suite's linear model does |
| LIRS | stack S, queue Q, status of each key, pages | the same | the bottom of S is LIR, shares of LIR and HIR pages are kept |
| REF | the future requests, records, an index | the same | no cache of this size misses less often |
| `CacheSystem` | levels, totals | `lookup`, `lookupUpdate` through the levels | counters account for every call, copies of a page agree, each level is a cache of its own |
| factory, `cache.h` | none | constructs a policy by name | - |
| parser (`cacheParser.h`) | configuration, requests, token position | `parseConfig`, `parseInput`, `parseAll` | a failed parse leaves nothing that is used later |
| `main.cpp` | none | parses, serves the requests, prints | - |
| `cache_benchmark_runner` | none between experiments | reads paths of files, runs fresh caches, checks and prints counters; ends with any error | an answer belongs to the files named |
| `research/runner.py` | files written, last input | `run`, `close` of a batch session | files are not rewritten under the runner; every call ends |
| `cache_exact_search` | best configuration, recursion | `run` | the configuration found is the best of all |
| `research/reference.py` | queue of next uses | `min_misses` | the count is minimal |
| `cache_unrestricted.py` | manifest, results, tables | a study, `--render-only`, `--validate-with` | the manifest is true of the files beside it |
| `cache_benchmark.py` | files of one root, a table | generation, runs, the table | every row is measured on the experiment it names, torn files included |
| `benchmark.py` | the files of a case | `generate`, `run`, `compare`, `research` | a report is of the case in the manifest; nothing is written over unasked |
| `cache_research.py`, `research/results.py`, `model.py` | tables and a manifest for each study | study I and II | the manifest describes the tables, means and pairs are of the right runs |
| `research/workloads.py` | requests | the patterns of both suites, request files | keys fit, the parts of a pattern are apart |
| `code_quality.py` | replacements, files | `fix_naming` | all fixes of a file are applied together or the script stops before the first; at most the file it was writing is left in part |
| other scripts | none | plots, paths, external tools | - |

How they interact. A miss of a cache calls the loader it was given *between* its
own two steps. In a hierarchy that loader is the call of the next level, and
behind the last level it is the user's, who may call the hierarchy again.
`insert` is called with a reference to a page somebody else owns. The scripts
start the runner as a process, hand it files through the file system and their
paths through a pipe, and read its counters from another. The study runs one
search process for each request pattern, from a pool of threads.

What is hard here:

* *Re-entrance.* Nothing `getPage` has seen may be relied on in `insert`: nested calls
  evict, promote and forget. The same key may be cached by its own loader.
* *Exceptions.* The loader, the copy of a page and a hash may throw, at every step of
  `insert`, and a policy when it is asked. The code counts a request first, publishes an
  index entry, plans an eviction, which may throw, and commits what cannot. Some levels
  may have stored a page and others not.
* *Order.* Evictions are planned before anything moves (2Q, LIRS) or chosen before the
  oldest record is forgotten (ARC); wrong plans show many requests later.
* *Cuts.* The search discards candidates by a rounded limit, by equality of miss
  sequences and by a bound; a cut too many is silent.
* *Processes and files.* One input file is rewritten between experiments; runners die,
  time out, are interrupted; manifests, results and tables are written in place, one
  after the other, and commands are killed in between, or in the middle of a number.
  Folders are reused, two benchmarks may share a root, and users edit the files, also
  after a command has checked them.

Nothing in the library is concurrent: a cache belongs to one thread, and the
code has no locks. Interleaving in the policy and system modules is that of
nested calls; processes and threads are in `BatchRunner`, `UnrestrictedStudy` and
`FixedBenchmark`.

## Modules

    Lists ............. std::list as the policies use it, and Python's
                        order of tuples and changes in a list
    CacheCall ......... lookupUpdate: the stack of unfinished calls
    Cache ............. what every policy promises (abstract)
      CacheLRU, CacheLFU, CacheARC, Cache2Q, CacheLIRS, CacheREF
                        the policies; each refines Cache
      Cache*History ... the same with history variables the properties need
      Reference2Q ..... the linear model of tests/2Q_tests.cpp (abstract)
      Belady .......... fewest misses by trying every eviction; greedy MIN
    CacheSystem ....... the hierarchy; each of its levels refines Cache
    IdealMisses ....... countIdealMisses / min_misses, against Belady
    PolicyReplay ...... a whole request sequence through a fresh cache
    ExactSearch ....... the search; uses PolicyReplay, and Belady for its bound
      SearchOutcome ... settle_level_tie around the search; access costs,
                        hierarchy_lower_bound, the reference
    BatchRunner ....... research/runner.py and the runner's batch mode
    UnrestrictedStudy . cache_unrestricted.py, its pool and its files
    ExperimentFiles ... the two files of an experiment: writing, parsing, running
      CacheParser ..... one parser object, called in any order
    StudyModel ........ strategies and layouts of the studies
      FixedBenchmark .. cache_benchmark.py, several commands in one root
      BenchmarkCase ... a case of benchmark.py in its folder
      ResearchFolder .. the results of study I and II in theirs
    RequestPatterns ... every pattern, request by request; request files
    NamingFixes ....... fix_naming of code_quality.py
      Commands ........ the last six together, for one run
    ListProofs ........ lemmas about lists, files of experiments, and induction
      CacheLRUProofs, CacheLFUProofs, CacheARCProofs, Cache2QProofs, CacheLIRSProofs
                        theorems about the policies
      ResearchProofs .. about Belady, IdealMisses, CacheREF, UnrestrictedStudy,
                        BatchRunner
      ProgramProofs ... about CacheSystem, Commands and its six parts
    MC_* .............. instances for TLC

`Cache` composes with everything above it: each policy instantiates it with its resident
keys (`Contract == INSTANCE Cache WITH resident <- Resident`), and `CacheSystem` once
for each level, which is why the hierarchy can leave the policies of its levels open:
what is checked there holds for every policy that refines `Cache`. Likewise
`ExactSearch` uses what `IdealMisses` establishes: its bound is `FarthestMisses`, which
the run `search` shows, in behaviours that are one count each, to be what the queue of
next uses counts. The modules about files share `ExperimentFiles`: what a script writes
is a sequence of tokens, and what is measured is what the parser makes of the tokens
that are in the file when the runner reads it.

`PROJECT.json` maps every definition to the lines it stands for.

## How the code is modelled

**Calls.** `lookupUpdate` is split at the loader, the one place where other code
runs. `Hit` is a call that ends in `getPage`. `Miss` (`Enter`) puts the key on
the stack `calls`; while it is there, any call may be made, as a loader's nested
call. `Insert`, `InsertThrows`, `InsertDuplicate` and `LoadThrows` (`Leave`) end
the innermost call: the page is stored; an eviction fails after the new entry was
published; the key is resident already (the code throws `std::logic_error`); the
loader, or the copy of its page, throws, with nothing changed so far. `insert`
copies the page before it evicts, so a page that refers into the cache is not a
case of its own. `MaxDepth` bounds the nesting.

**Pages** are not modelled in the policies: a record is its key. Where it matters
which copy is held (`CacheSystem`), a page is the number of the load it comes
from. **Indexes** are sets or functions of keys, updated separately from the lists
exactly where the code updates them, so that they can disagree. The **counters**
of a cache are read by no policy; they are in `CacheSystem` only, whose
`levelStats` and `stats_` are those of the code, the recomputation by
`updateStats` included.

**LRU, LFU, REF**: lists in the code's order, LFU's use counts up to
`MaxFrequency`, REF's future requests a position in a sequence. **ARC**: `list`
has the four lists, `pageIndex_` the list named by a key's entry, `paged` the
keys whose record holds a page; the target is adapted by `GhostMiss`, that is in
`getPage`, before the loader. **2Q** plans (`GhostToForget`, `EvictFromA1in`) and
commits. **LIRS** plans an access (`KeptByPrune` and others) and applies it; the
divisor of the HIR share, 100 in the code, is a parameter, because with 100 the
HIR share is one page for any cache TLC can explore.

**The hierarchy** has one frame for each running activation of
`Cache::lookupUpdate`, and `control` says whether the user, a level before
`getPage`, a level that has got its page, or a level an exception passes through
is to go on. `AskFails` is a level whose `lookupUpdate` ends before a hit or a miss is
counted: the key cannot be copied on the way, or `getPage` has counted the request and
the policy throws, as LIRS may on a hit. Behind the last level the same may happen before
the loader is called (`Miss`). The history `lost` counts these calls for each stage.

**The search.** The recursion of `searchAdditionalLevels` is the stack `calls`;
each element has the loop's capacity and policy and the miss traces remembered.
Each `continue`, `return` and descent is an action. `evaluateLastLevel` and
`countMisses` are operators. The largest `size_t`, best before anything is tried,
is one more than all requests. Three policies of five are replayed; the search
itself never looks into a policy, except for the least capacity, which LRU and 2Q
exemplify. Counters of candidates and cuts are left out.

**Batch sessions.** `client` and `runner` are the program counters of the two
processes, with opening and writing a file as two steps. Counters are
represented by the experiment they were measured in. One session is open in a
folder at a time, as in every script of the repository, and a request list is
compared by identity, as in the code (`is not`).

**The study.** `main` is the program counter of the command, `tasks` what the
pool knows of each pattern. Files are `Torn` when a kill hits their writing.
Commands on one directory follow each other. What a hash is taken of stands for
the hash.

**The parser.** Tokens are numbers or names; the lexer, a dependency outside the
repository, yields no negative numbers. `ParsedConfig` and `ParsedInput` give the
state the functions leave the parser in, also when they throw half way: levels,
sizes and requests that were parsed stay. `parseAll` is one after the other.

**Files of experiments.** A file that is being written, or whose writer was killed,
holds the first tokens of its contents, the last of which may be cut short (`CutShort`):
of a number the leading digits are left, which is a number too. Two commands that write
one file at a time overlay each other (`Overlaid`), and a reader may find the beginning
of one version and the rest of another; tokens are taken to keep their places in that,
which lines of different lengths would not. `RunExperiment` is the runner from the files
to its counters, or none if anything throws. The counters of a run are represented by
the experiment they were measured in: that the counters themselves fit together is a
matter of the hierarchy.

**`Commands`** puts six modules that share no variable into one specification: `place`
says which of them a behaviour is in, and the others rest; `Places` has those that a run
explores. Interleaving them would add states and show nothing. `MC_Search` does the same
for the search and the count of ideal misses.

**Cases and results.** The commands in one folder follow each other, each may fail
or be killed at any write, and files are edited: those of a case between commands and in
the middle of `run` and `compare`, a request file at any time. `run` and `compare` are
taken apart as they read: the manifest (`ReadManifest`), the three files it has hashes of,
one after the other (`CheckFile`), the requests again (`ReadRequests`), and then what the
runner reads itself (`ReadConfig`, `ReadInput`). The history `late` has the files edited
after their hash was compared; `manifestEdited` says that the manifest is not
`generate`'s. A manifest is edited between commands only, since each reads it once.
`Outputs` is the order in which an experiment of a study writes into its folder; all
measuring is in the step "work", since a session is the subject of `BatchRunner`. A mean
is represented by the set of the runs it is taken over, a difference by the pair of runs,
and the winners' file by the summary rows that the winners are chosen from.

**Renaming.** Files are read, compared and written one at a time, in any order.
`OpenFile` empties a file and leaves some of its new bytes, `FinishFile` writes the rest;
`StopFixing` between the two leaves it like that. `edited` says what the script had done
with a file when an editor saved it.

**Patterns.** A request is drawn with its *role* in the pattern - hot set of a
phase, cold page, scan, page of a site -, which the code does not name: that roles
never share a page is what makes the pattern what its name says. The random
generator may draw anything in its range.

**Costs** are those of all requests of a run, so that nothing is divided.

## Runs

All runs pass. Each property has a mutant in `PROJECT.json`, a change of a modelled
definition that a plausible bug would make, for which TLC finds it violated.

| run | instance | states | shows |
|---|---|---|---|
| `lru` | 3 slots, 5 keys, depth 2 | 5 381 | list and index consistent, recency exact, failures leave no trace, refines `Cache` |
| `arc` | 3 slots, 7 keys, depth 2 | 20 242 | all lists consistent, bounded, ghosts only when full, ordered by use, failures leave no trace, refines `Cache` |
| `twoq` | 4 slots, 7 keys, depth 3 | 1 649 | consistent and bounded, refines `Reference2Q` and `Cache`, failures leave no trace |
| `lfu` | 3 slots, 5 keys, 4 uses, depth 2 | 183 516 | evicts the least used, ties by recency; refines `Cache` with a consistent index |
| `lirs` | 4 slots, 6 keys, divisor 2, depth 3 | 2 403 | `DirectoryConsistent`: status, stack, queue and pages agree, the stack bottom is LIR, shares are kept; failures leave no trace; refines `Cache` |
| `ref` | 2 slots, all patterns of length 7 over 4 keys, depth 2 | 283 715 | never worse than the best cache; refines `Cache` with a consistent index |
| `system` | levels of 1, 2, 3 pages, 4 keys, depth 3, 5 requests | 354 755 | counters account for every call and pass the benchmarks' checks exactly when none was lost, copies agree, each level refines `Cache` |
| `search` | three runs with all one-request neighbours, lists of repeated runs; totals 3 and 5, 1 to 3 levels; both tables of costs; counts of all patterns of length 10 over 3 keys, 1 and 2 slots | 310 589 | the search is exact, ties go to the fewest levels, no configuration beats the reference or its bound; the queue of next uses covers the cache, the count is minimal |
| `batch` | 3 configurations, 3 capacities, 2 request lists | 25 448 | files have one user, answers match, every call ends |
| `study` | 2 studies, 3 patterns, 2 threads | 8 611 | the manifest is true, every command ends |
| `commands` | see below | 1 061 760 | six properties of the parser and of the commands that work on files |
| `benchmark` | 2 commands in one root, 2 layouts, 2 numbers of requests, a trace that ends in a number of two digits | 985 889 | `RowsMeasured`: a row of the table was measured on the experiment it names, as exactly as its input was whole, and no row is missing at the end |

`commands` and `benchmark` are both runs of `MC_Commands`; the second is a run of its own
for its size. The run `commands` has a part for each module:

| part | instance | property |
|---|---|---|
| parser | all streams of up to 3 tokens of 6 kinds, and of up to 4 of 4 kinds | `ParserForgets`: after any calls and errors the flag, the outcome and the state are those of the last calls alone, by the grammar |
| patterns | every pattern of both suites, scales 2, 16, 5460; all request files of 4 tokens | `TraceUsable`: keys fit a C++ int, and the parts of a pattern have no page in common |
| case | 6 cases, each with and without `--force`, 2 comparisons | `CaseTruthful`: what `run` and `compare` print is of the files that the manifest has hashes of, and of the case that `generate` was called with; `FilesKept` |
| research | 4 users with up to 5 commands | `ResultsTruthful`: a manifest describes the tables beside it; `FilesKept`: an unforced command changes nothing that was there |
| naming | 2 sources and their header, every fix of up to two bytes | `FixesApplied`: a file that the script does not have open has all its fixes or none, and what is saved before its comparison survives |

**Why these bounds.** Seven keys in an ARC of three slots are one more than its
directory can hold, so all cases of `evictForNewPage` occur; in 2Q they are one
more than pages and ghosts together, so ghosts are forgotten. Four slots of 2Q
make the ghost limit two and the shares differ. Depth two is a nested call, depth
three one in that. LIRS with six keys and a share of two HIR pages prunes,
demotes, promotes and evicts each kind of page. LFU's counts of up to four order
three pages in every way; a count at the bound stops only hits. Five requests of
the system fill levels of one, two and three pages and evict from each, with calls that
fail at each stage among them. Ten
requests over three keys exceed the compaction threshold of the queue (four times
the capacity) for both sizes. Two and three levels seldom beat one:
`MC_Search` starts from runs for which they do, and takes everything one
request away.

In `commands`, three tokens of configuration and four of input reach each `throw`
of the parser, with something parsed before it and a whole configuration after.
`MaxInt` is 65535, with the greatest scale that the guard of the commands then
lets pass (5460); phases, scan and burst, 2000, 384 and 16 requests long in the
code, are 2, 2 and 3, so that traces of eight requests have four phases and two
scans; navigation takes 1536 requests to visit its eight sites twelve pages each.
`MaxDraws` is 2: of a longer range the generator draws the ends and the middle,
which are the draws that could leave the part of the pattern. Two benchmarks with
different numbers of requests are the least that can disturb each other; one strategy in
two layouts makes a hierarchy and a single level. The cases are those accepted and one for
each refusal; comparisons name a strategy twice. A manifest is edited once until
`generate` writes it anew: into that of another case, one that describes another case
under its own hashes, or one with a hash of another file. Of
the users one runs both studies, one has plans, unforced and forced commands on one
folder, one has requests of her own, one plots; an unforced research command meets
every state that a killed one can leave. A fix may touch every byte of a file of
three, alone or with one for another file or from another source. A source file
is edited once, at any moment: two edits are one edit to other contents.

**Symmetry.** Keys are interchangeable in policies and system, which compare them
only for equality, so the runs `arc`, `twoq`, `lfu`, `lirs` and `system` take
permutations of keys; no liveness is checked under symmetry.

**Deadlock** is checked, except where the system may really stop: `ref` (the request
sequence ends), `system` (`MaxRequests`), `study` (a directory is left alone),
`commands` (a pattern and a renaming end) and `benchmark` (its commands end). `search`
stutters explicitly when it is done.

**Fairness** is assumed only of processes and threads the operating system schedules, in
two modules. `BatchRunner`: the script and the runner go on while they can; an
experiment is finite. Nothing is assumed of crashes, of the time limit or of a script's
decision to make another call. `UnrestrictedStudy`: the main thread and the pool go on;
a search ends, since it is a finite enumeration; failures and kills are never forced.
The commands of `Commands` are loops over finite lists, and nothing is said of their
progress. The caches are synchronous calls and have no liveness to state.

**Exceptions stated by the properties.** `CopiesAgree` excepts keys for which a
loader asked the system again while their load was running: two loads of one key
then happen and either may be kept by a level, which the code does not promise to
prevent. `FailureAtomicity` of ARC does not cover the target, which `getPage`
adapts before the loader runs: that adaptation is kept when the loader throws, and
all else is as it was when the loader returned. `ResultsTruthful` exempts a mode
while a command has begun to replace its results and not finished (the history
variable `disturbed`): until its end the manifest beside the new tables is the old
one, and nothing reads the folder meanwhile. `StatisticsAccepted`
says that the checks of the benchmarks refuse the counters when a call was lost between
two of them: `getPage` counts a request before it asks the policy, so a policy that throws
leaves a request that is neither a hit nor a miss. `RowsMeasured` allows the last request
of an input left in part to be a number cut short, which neither the parser nor any check
can notice, and says nothing of the requests, only of their number and the configuration,
if two commands were writing the input at a time or one while it was read. `CaseTruthful`
excepts what is made from a file edited after its hash was compared, since the runner
reads the files again; and when the manifest was edited it says only that what is printed
is of the files with those hashes, not that the case described is theirs. `FixesApplied`
excepts the one file that the script has open, or had open when it ended, since
`write_bytes` empties it first; files saved by hand while they were open; and what is saved
in a file after its own comparison, which a write may destroy.

Each hazard listed in `PROJECT.json` has a property, with these exceptions named by the
property itself. That `cache_research.py` hashes a request file in a second reading (line
176) is in the model and harmless: the requests measured have a hash of their own.

No disagreement between the code and its comments, tests or documents was met.

## Proofs

TLAPS proves the following for every set of keys, every capacity the constructors
accept and every nesting depth; for every number of levels up to the runner's
three; for every list of requests; for all files of a batch session, all token
streams, all arguments of the commands, and all patterns, totals and pools of the
study. The assumptions are those of the modules, and TLC evaluates each in a run:

* a capacity of at least one (two for 2Q and LIRS) and a depth of at least one, as
  the constructors demand; for LIRS a divisor of at least two (the code has 100);
  for LFU a bound on use counts of at least one; REF's lists of requests are not
  empty (`RequestsAssumption`), which its constructor demands;
* a hierarchy has at least one level, each of at least one page, and for the
  counters at most three (`RunnerAssumption`), all that the runner accepts;
* `IdealMisses` is given lists and capacities of at least one (`TracesAssumption`,
  `CapacitiesAssumption`);
* in `BatchRunner`, that no list of requests is Python's `None`, which a new session
  remembers;
* in `UnrestrictedStudy`, that the names of patterns are strings and totals numbers
  (`ArgumentsAssumption`), and that the pool has a thread;
* the types that the parsers of arguments give: in `CacheParser` of tokens
  (`TokensAssumption`), in `BenchmarkCase` of a case (`CaseAssumption`), in
  `FixedBenchmark` of the constants of the script (`BenchmarkAssumption`,
  `LayoutAssumption`), in `ResearchFolder` of a command, which has at least one mode,
  and a sweep just one (`ModeAssumption`);
* that a list of requests has the length asked for (`TraceAssumption`,
  `CaseAssumption`), which is how `RequestPatterns` makes them;
* in `RequestPatterns`, what the commands check before they draw
  (`GeneratorAssumption`), and that periods are positive (`PeriodAssumption`);
* in `ResearchFolder`, that the patterns and strategies of `model.py` are listed once
  each, those of study I first, with LRU among the strategies (`PatternAssumption`,
  `StrategiesAssumption`);
* in `NamingFixes`, that files are lists of bytes and sources are files
  (`FileAssumption`), that a report has finitely many fixes, with a length that is not
  negative (`ReportAssumption`; LLVM counts lengths without a sign, while nothing is
  assumed of the offset, which the script checks), and that an edit changes the file
  (`EditAssumption`).

| theorem | says |
|---|---|
| `CacheLRUProofs!TypeCorrect`, `IndexCorrect` | the list stays within the capacity, holds no key twice, and the index has its keys |
| `CacheLRUProofs!FailuresLeaveNoTrace` | a call that ends stores its own page or changes nothing |
| `CacheLRUProofs!Refinement` | LRU implements `Cache` |
| `CacheLRUProofs!EvictsLeastRecent` | the list is the prefix of the keys in order of last use: eviction is by least recent use, for all histories |
| `CacheLFUProofs!IndexCorrect`, `Refinement` | list, counts and index agree; LFU implements `Cache` |
| `CacheLFUProofs!EvictsByUse` | the page evicted is used least since its load, and least recently among those, for all histories |
| `CacheARCProofs!TypeCorrect`, `IndexCorrect` | the target stays within the capacity; each key is in the list its entry names; resident records have pages |
| `CacheARCProofs!DirectoryStaysBounded` | pages within the capacity, directory within twice that |
| `CacheARCProofs!GhostsNeedFullCache` | ghosts exist only in a full cache |
| `CacheARCProofs!FailuresLeaveNoTrace`, `Refinement` | as for LRU |
| `CacheARCProofs!EvictionsInOrder` | T1 with its ghosts and T2 with its ghosts are in the order of use, of the keys used once and of those used again, for all histories |
| `Cache2QProofs!IndexCorrect` | each page and ghost is in the queue its entry names; pages and ghosts within their limits; ghosts only in a full cache |
| `Cache2QProofs!FailuresLeaveNoTrace`, `Refinement` | as for LRU |
| `Cache2QProofs!FollowsReference` | 2Q implements `Reference2Q`, the linear model of the tests |
| `CacheLIRSProofs!DirectoryCorrect` | stack, queue, statuses and pages agree; an LIR page is at the bottom of S, and a page in Q, whenever the code takes one from there |
| `CacheLIRSProofs!FailuresLeaveNoTrace`, `Refinement` | as for LRU |
| `ResearchProofs!FarthestIsMinimal` | Belady: giving up the page requested farthest ahead misses as often as the best of all caches |
| `ResearchProofs!QueueCovers` | every cached page has its present entry in the queue of `min_misses`, compacted or not: it is never popped empty |
| `ResearchProofs!CountsMinimum` | what `min_misses` counts is the fewest misses possible |
| `ResearchProofs!IndexCorrect`, `Refinement` | REF's list and index agree; REF implements `Cache` |
| `ResearchProofs!NeverWorse` | while the loads succeed, REF never misses more often than the best cache |
| `ResearchProofs!Truthful` | a complete manifest of the study stands beside its own results, whatever fails or is killed |
| `ResearchProofs!FilesStayExclusive` | script and runner never use the files at once; a closed session has no runner left |
| `ResearchProofs!AnswersStayMatched` | counters belong to the call that returns them |
| `ProgramProofs!CountersAreAccepted` | hits, misses and lost calls of a level make up the calls that should have reached it; runner and scripts accept the counters between requests exactly when no call was lost that they can see |
| `ProgramProofs!OneLoadPerKey` | no two levels hold pages of one key from different loads, unless a loader asked for that key again |
| `ProgramProofs!LevelsFit` | no level holds more pages than its size |
| `ProgramProofs!LevelIsCache` | each level of a hierarchy implements `Cache` |
| `ProgramProofs!FilesStayKept` | no unforced `generate` or `research` changes a file that was there |
| `ProgramProofs!ParserForgetsAll` | a successful call of the parser leaves what its file says, and nothing of earlier calls |
| `ProgramProofs!TracesAreUsable` | keys of a pattern fit an `int`; no page has two roles; tokens are numbered in the order of their first request |
| `ProgramProofs!TablesAreMeasured` | a row of the original benchmark was measured on the experiment it names, but for what is said above of torn and mixed inputs; a whole table has a row for each |
| `ProgramProofs!CaseReportsTruthful` | what `run` and `compare` print is of the files hashed in the manifest, unless edited after their check, and of the case that `generate` was called with, unless the manifest was edited |
| `ProgramProofs!ResultsAreTruthful` | a manifest of study I or II stands beside the rows, means and comparisons it promises, unless a later command has begun to replace them |
| `ProgramProofs!FixesAreApplied` | a file that is not open has what was last saved in it or all its fixes at once; what was saved before its comparison survives and stops all fixes, and success leaves no fix out |

**LRU.** `Inv` is `TypeOK /\ IndexConsistent`. The second is needed for the first:
`insert` evicts by index entry and list node, and they are of one record only if
no key is in the list twice. The recency theorem adds `RecencyInv` about the
history and rests on a lemma about prefixes: moving a key to the front keeps the
first *n* of a list the first *n* of a longer one.

**ARC.** `Inv` strengthens the properties: every list holds keys without
repetition, lists and index agree, pages are those of T1 and T2, the bounds of
T1 + B1 and of the directory, and that ghosts need a full cache. None is inductive
alone. `promoteGhostPage` evicts without asking whether the cache is full, so
the bound of the pages needs that ghosts exist only in a full cache; that needs
the bound of T1 + B1, since `evictForNewPage` replaces a page only in the cases
of T1 + B1 at or below the capacity; and both need the sizes of the lists to be
numbers of keys, which is the agreement of lists and index. The proof has a lemma
for each thing an insertion does (`Evict`, `ForgetBack`, `Unlink`, `PutFront`) and
one for each case of `insert`.

The order of use adds `OrderInv`: the history has each known key once, and the two
pairs of lists are the part of it that was used once and the part used again.
Every operation is then one of two: a known key goes to the front of T2
(`KnownKeyUsed`), or a new one to the front of T1 while some key at the end of a
pair is forgotten (`NewKeyUsed`). An eviction moves the last page of a list to the
front of its ghosts and does not change the pair at all (`LastBecomesFirst`).

**2Q.** `Inv` is `IndexConsistent`, in terms of the sets of keys filed under each
queue. That ghosts exist only in a full cache is needed because
`promoteGhostPage` adds to `am_` what must have been taken from a queue. An eviction
is treated once for both insertions (`Evicted`); a promotion may leave `a1out_` one
ghost too long until the promoted one is taken. `FollowsReference` needs two
equations of lists: the model files the evicted key and then cuts its history,
the code forgets a ghost and then files the key (`LimitedHistory`); and the model
takes the promoted ghost first, the code last (`PromotedHistory`).

**LIRS.** `Inv` is `DirectoryConsistent` in terms of sets (`Fit` and `Shared`), and its
parts need each other. The page demoted is taken from the bottom of S unseen; that
it is LIR, and not the page accessed, is in `Fit`. That S has a bottom at all
when nothing is pruned follows only from `Shared`: an HIR page that is not promoted
needs a full LIR share, hence an LIR page, hence an entry in S (`UnprunedFacts`).
That a full cache has a page in Q follows from the LIR share being smaller than the
cache. `StackStep` is the plan of `prepareStackPrune`, made before anything moves:
what it leaves has an LIR page at the bottom, and it always takes the demoted page.
`IndexStep` shows that the distinctions of the code do not overlap. Hit and insertion
are then one step (`Room`, `FitStep`, `SharedStep`), with or without a page evicted
before it; a page that S forgets while it is evicted loses its entry once.

**LFU.** The history `uses` lists the uses of resident pages since their load. `UsesInv`
says that a page's count is the number of its uses there, and that the list of records
is in the order of last use (`InOrder`): the uses of a page that precedes another all
come before the last use of the other. A hit or an insertion moves one record to the
back, which is where its use goes in the history; forgetting the victim's uses changes
no other order. So the first record of the least count is the page used least, and
least recently among those.

**The best cache.** `MinMissesFrom` is a table: for each position of the list of
requests, each set of pages, the fewest misses from there on. It is a recursive
function, unfolded once (`BestAt`); all else is induction over positions from the end.
Two caches that differ in one page differ by at most one miss (`OneApart`), and it is
better to hold the page that is requested sooner (`SoonerIsBetter`), so that a full
cache loses nothing by giving up the farthest page (`FarthestIsBest`). `CountInv` of
`min_misses` adds that the misses so far and the table's entry for what is cached now
make the minimum, one more while an eviction is under way; that recorded next uses are
the present ones; and that each is in the queue. So its greatest present entry is the
farthest page's, stale entries can be told, and compaction drops only those. REF's
invariant has the same sum along its own requests (`OnCourseREF`): a failed or nested
load leaves the course, and the theorem excepts it by the history `disturbed`.

**Hierarchy.** The frames of a request are a chain: below a frame of a level are
those of the levels above it, for the same key, and below a request made by a
loader the frame that runs it (`ControlInv`). The misses of a level are the calls
that have ended at the next one, as a hit, a miss or lost (`Settled`), and the one in hand
(`CountsInv`): a lost call is counted once, at the stage where it was lost, and everything
below it sees nothing of it. Requests lie in between, since a lost call may or may not have
been counted as one. Between calls the equations of the two checks hold exactly if all terms
that are lost are zero: for the sums of hits over all levels, each lost call is missing
once, and a level that has lost one disagrees with the level above. `CopiesInv`
adds to `CopiesAgree` that a level which is still to store a page does not have it
(`FramesClear`) and that the page being handed up is the one that every level has
(`ReturnAgrees`): without it, a level could keep an older load. Both are given up
for a key asked for again by its own loader. `LevelIsCache` is proved for one
arbitrary level (`watched`), since this version of TLAPS cannot read an instance
with a parameter; the run checks all levels at once (`LevelsAreCaches`).

**Study.** `StudiesInv` says what each file holds at each point of a command (`CommandInv`),
that each task of the pool has the first records of its pattern (`TaskInv`), and that
what has been collected is the beginning of what is to be saved (`CollectedInv`).
The last needs arithmetic on positions: record *i* is total *i* mod *t* of pattern
*i* div *t*. A kill keeps it, because a command starts from the manifest alone and a
manifest is complete only once its results are.

**Batch sessions.** The inductive invariant says, for each place the two processes
can be at, where a request is: two lines in the pipe, one line and a strategy read,
two paths read, an experiment, or a line on its way back (`PipesInv`,
`RequestInv`); that between calls the pipes are empty and the runner waits or has
ended (`QuietInv`), and what the session remembers of its files is what they hold
(`ConfigInv`, `InputInv`). Interrupts keep it because a session that is interrupted
sends nothing more, and its answers are read by nobody. A new session remembers
nothing, so files left torn by an earlier one are written again.

**Parser.** `ParserInv` relates the state to the last configuration and the last input by
the grammar (`ConfigOf`, `InputOf`): after a configuration that was refused, nothing is
said of levels and requests, since the flag keeps later input from being parsed. The
theorem compares with the parse of the last files by a new object, token by token.

**Patterns.** The role of a page follows from its number: hot sets, cold pages, phases,
scans and sites lie in ranges that arithmetic keeps apart (`HasRole`, `Drawn`), which is
the part of the proof that would fail for a wrong stride; a scan leaves every earlier
page behind. The pages of a request file are numbered without gaps (`Numbered`). Keys
fit an `int` because the guards of the commands bound the number of requests and the
scale together.

**Original benchmark.** Commands in one root may write the same file, for different
numbers of requests. `Fits` says what a file may hold, by its name and by what the history
knows of it: of a configuration always a beginning, since all commands write the same one
(`Beginnings`, the last token of which may be cut short; an overlay of two beginnings is
one); of an input, if it is whole, the input for some number of requests, if it is in
part, a beginning of one, and if it is mixed, only lists of tokens. Every write of every
command and every kill keeps that. A beginning that parses is whole but for its last
number: a name cut short is no strategy, and an input says how many requests follow
(`ListProofs`, the section on files torn or mixed). The script accepts the counters only
if they are as many as its own requests, which fixes the input that a beginning is of.
That the table is complete needs the nested loops to visit each experiment once
(`LoopOver`, `ProductsFacts`, `CombinedItems`): names of files are different for
different experiments, and combinations of strategies are made without repetition.

**Cases.** `ManifestInv`: a manifest that reads is that of a valid case unless it was
edited, and has the hash of the requests of one even then (`WholeManifest`), since it is
edited once. `ReaderInv` says what a command has found: each file that it has checked
has the hash of the manifest, or was edited afterwards (`Found`); what the runner has
read of the configuration likewise. So what is printed is of the files with those
hashes, the comparison because the requests read a second time are still those that were
checked. If the manifest was not edited, these are the files of a valid case, for which
the runner yields counters that pass their check (`Runnable`).

**Files kept.** What an unforced `generate` or `research` has still to write does not
exist yet (`FreshInv`): it is looked for before the first write, and each write is of
another file. So the outputs of a command must have different names, and a sweep one mode.

**Results.** `ResearchInv` says what the folders hold at each point: the files written by
the running command, which are the beginning of its list of outputs, are as they are to
be (`HasFile`), and once its rows are written an older manifest there counts as
replaced. A manifest is written last, so with it all files of its experiment are there
(`DescribesItself`). The rest is about what those files promise: the rows of nested
loops are the planned measurements, each once; the rows of one configuration are one for
each seed, by a bijection, so that a mean is over as many runs as there are seeds; and
the row of LRU that a difference is taken from exists, since LRU is valid for every
capacity from one on, and is the only one of its pattern, seed and capacities.

**Renaming.** Two things are proved. One is about lists: fixes that lie within a file,
in order and apart (`Apart`), have the same result one after another from the end as all
at once. By induction over the last fixes of the list: what a fix changes lies before
everything that was changed already (`ReplacedTogether`). That the check refuses all
others needs the sorted list to be all the fixes in the order of Python's tuples, which
is a total order (`PrecedesTotal`, `OrderedItems`). The other, `NamingInv`, follows each
file through the phases (`FileInv`): until all files are compared each is as an editor
has left it (`BeforeWriting`), and what was read of it is what it held then
(`ReadRight`); so an edit made since is seen when this file is compared, and nothing is
written. Afterwards a file that is neither to be written nor open, and was not saved
again, has its fixes (`AfterComparing`).

`ListProofs` has the lemmas about lists (removal, front, splice, prefixes, the items of
a list that are in a set, lists made by counting or from other lists), about sets in the
order of Python and changes in a list, and about sums over finite sets; and, since a
module of proofs has a limit, what the parser and the runner make of files that are
whole, torn or mixed, and combinations of strategies. Two of its lemmas are induction,
over the subsets of a finite set and over lists (`SubsetInduction`, `ListInduction`):
the library's induction theorems take the property as an operator, which the provers
cannot instantiate, so these take it as a set and rest on the well-foundedness of strict
inclusion. Folds (`Among`, `SumOfHits`, `FlattenSeq`) are reasoned about through them.

Only model-checked are:

* liveness: `EveryCallEnds` and `CommandsEnd` are beyond this version of TLAPS;
* `SearchIsExact`, `FewestLevelsSaved` and `ReferenceHolds`: the search replays whole
  policies by recursive operators (`PolicyReplay`), of which nothing can be proved here.
  That its bound is the minimum for one level is `FarthestIsMinimal`;
* `LevelsAreCaches` for all levels at once; the theorem has one level, chosen arbitrarily.

## What is not modelled

* `main.cpp`: a loop that prints; the lexer is a dependency outside the repository.
* Factory and descriptions: a table of constructors. What it and the constructors
  accept is `Supported` in `ExperimentFiles`.
* ARC and LIRS in the replay of the search; the counters the search reports.
* `plots.py`: drawing; nothing reads the figures. `best_rows`, which chooses what
  they show. Rankings and everything that is printed.
* In `benchmark.py`: `patterns`, `doctor` and the search for an executable; `search`
  hands its arguments to the unrestricted study.
* In `code_quality.py`: formatting, tidying and the choice of files, which run
  external tools.
* Percentages and means, as numbers: the model has what they are computed from.
* Overflow of 64-bit counters: out of reach of any run of the program.
* In the study: arguments that are refused, hashes of sources, the records saved
  beside the inputs (written, never read), the CSV of a validation.
* Build and packaging.

## Plan

Written first were the calling protocol and the policies, since everything
else relies on them, then the hierarchy, then the programs, last the parser and
the commands that work on files. What is left, in order:

1. ARC and LIRS in `PolicyReplay`, and `PolicyReplay` shown to agree with the
   policies' modules on undisturbed calls.
2. LIRS: order of the stack by last use, as a history module like that of ARC.
3. A composition of `CacheSystem` with two concrete policies.
4. In `FixedBenchmark`, mixtures of two writers byte by byte, where lines of different
   lengths move the tokens.

Theorems worth proving next, each with the property a run checks already:

1. `SearchIsExact`, for one level first: it needs `PolicyReplay` without recursive
   operators.
2. That `CacheSystem` with concrete policies implements `Cache` as a whole, once it is
   composed with them.
