-------------------------- MODULE UnrestrictedStudy --------------------------
(***************************************************************************)
(* The study of all configurations                                         *)
(* (cacheBenchmarks/cache_unrestricted.py): a pool of threads runs one     *)
(* exact search for each request pattern; manifest.json says whether       *)
(* results.json is the result of the study it describes; tables are made   *)
(* from both, at once or by a later command, and a later command validates *)
(* the results on new requests.                                            *)
(*                                                                         *)
(* The commands on one directory follow each other, but each of them may   *)
(* be killed at any moment, in the middle of writing a file too.           *)
(***************************************************************************)
EXTENDS SequencesExt

CONSTANTS
  Arguments,   \* what a study may be started with: patterns and totals
  Workers,     \* threads in the pool
  MaxStudies   \* bound: studies started in one directory

ASSUME BoundsAssumption == Workers \in Nat \ {0} /\ MaxStudies \in Nat

\* The patterns are names; --totals takes at least one number.
ASSUME ArgumentsAssumption ==
  \A arguments \in Arguments :
    arguments.patterns \in Seq(STRING) /\ arguments.totals \in Seq(Nat) \ {<<>>}

VARIABLES
  manifest,   \* the files; Torn after a kill while they were written
  results,
  summary,
  main,       \* what the main thread is about to do
  study,      \* the study it runs: number, patterns and totals
  tasks,      \* of each pattern: the state of its task and its records
  collected,  \* the records the main thread has taken from the pool
  metadata    \* the manifest as a command has read it

disk == <<manifest, results, summary>>

pool == <<study, tasks, collected>>

studyVars == <<disk, main, pool, metadata>>

None == [kind |-> "none"]

Torn == [kind |-> "torn"]

Records(list) == [kind |-> "records", list |-> list]

NoStudy == [number |-> 0, patterns |-> <<>>, totals |-> <<>>]

Pattern == UNION {ToSet(arguments.patterns) : arguments \in Arguments}

\* The record of one exact search, ties settled (module SearchOutcome).
Record(pattern, total) == [study |-> study.number, pattern |-> pattern, total |-> total]

StudyInit ==
  /\ manifest = None
  /\ results = None
  /\ summary = None
  /\ main = "idle"
  /\ study = NoStudy
  /\ tasks = <<>>
  /\ collected = <<>>
  /\ metadata = None

-----------------------------------------------------------------------------
(***************************************************************************)
(* A study: main.                                                          *)
(***************************************************************************)

Start(arguments) ==
  /\ main = "idle"
  /\ study.number < MaxStudies
  /\ study' = [number |-> study.number + 1,
               patterns |-> arguments.patterns, totals |-> arguments.totals]
  /\ main' = "manifest"
  /\ UNCHANGED <<disk, tasks, collected, metadata>>

Manifest(status) ==
  [kind |-> "manifest", study |-> study, status |-> status,
   resultsHash |-> None, validated |-> None]

\* The manifest of the new study replaces the old one before any search; the
\* old results stay.
WriteRunning ==
  /\ main = "manifest"
  /\ manifest' = Manifest("running")
  /\ main' = "search"
  /\ tasks' = [pattern \in ToSet(study.patterns) |-> [state |-> "pending", records |-> <<>>]]
  /\ collected' = <<>>
  /\ UNCHANGED <<results, summary, study, metadata>>

InState(state) == {pattern \in DOMAIN tasks : tasks[pattern].state = state}

\* A thread takes the first task that is left.
Take ==
  /\ Cardinality(InState("running")) < Workers
  /\ LET next == SelectInSeq(study.patterns, LAMBDA p : p \in InState("pending"))
     IN /\ next # 0
        /\ tasks' = [tasks EXCEPT ![study.patterns[next]].state = "running"]
  /\ UNCHANGED <<disk, main, study, collected, metadata>>

\* run_pattern reads the next line of its search process.
ReadRecord(pattern) ==
  /\ pattern \in InState("running")
  /\ LET found == tasks[pattern].records
     IN /\ Len(found) < Len(study.totals)
        /\ tasks' = [tasks EXCEPT ![pattern].records =
                       Append(@, Record(pattern, study.totals[Len(found) + 1]))]
  /\ UNCHANGED <<disk, main, study, collected, metadata>>

\* run_pattern returns the records, if there is one for each total.
Return(pattern) ==
  /\ pattern \in InState("running")
  /\ Len(tasks[pattern].records) = Len(study.totals)
  /\ tasks' = [tasks EXCEPT ![pattern].state = "done"]
  /\ UNCHANGED <<disk, main, study, collected, metadata>>

\* run_pattern raises: its search process has failed, or stopped early, or the
\* search for a tie contradicts it.
Raise(pattern) ==
  /\ pattern \in InState("running")
  /\ tasks' = [tasks EXCEPT ![pattern].state = "failed"]
  /\ UNCHANGED <<disk, main, study, collected, metadata>>

Taken == Len(collected) \div Len(study.totals)

NextPattern == study.patterns[Taken + 1]

\* pool.map yields the results in the order of the patterns.
Collect ==
  /\ main = "search"
  /\ Taken < Len(study.patterns)
  /\ NextPattern \in InState("done")
  /\ collected' = collected \o tasks[NextPattern].records
  /\ UNCHANGED <<disk, main, study, tasks, metadata>>

\* Mutant of CollectFailure: the failed task is left out.
CollectFailureIgnored ==
  /\ main = "search"
  /\ Taken < Len(study.patterns)
  /\ NextPattern \in InState("failed")
  /\ tasks' = [tasks EXCEPT ![NextPattern].state = "cancelled"]
  /\ UNCHANGED <<disk, main, study, collected, metadata>>

\* It raises the exception of a task when that task's turn comes: tasks that
\* have not begun are cancelled, the others awaited.
CollectFailure ==
  /\ main = "search"
  /\ Taken < Len(study.patterns)
  /\ NextPattern \in InState("failed")
  /\ tasks' = [pattern \in DOMAIN tasks |->
                 IF pattern \in InState("pending") THEN [tasks[pattern] EXCEPT !.state = "cancelled"]
                 ELSE tasks[pattern]]
  /\ main' = "shutdown"
  /\ UNCHANGED <<disk, study, collected, metadata>>

Shutdown ==
  /\ main = "shutdown"
  /\ InState("running") = {}
  /\ main' = "idle"
  /\ tasks' = <<>>
  /\ UNCHANGED <<disk, study, collected, metadata>>

WriteResults ==
  /\ main = "search"
  /\ Len(collected) = Len(study.patterns) * Len(study.totals)
  /\ results' = Records(collected)
  /\ main' = "complete"
  /\ UNCHANGED <<manifest, summary, pool, metadata>>

WriteComplete ==
  /\ main = "complete"
  /\ manifest' = Manifest("complete")
  /\ main' = "render"
  /\ tasks' = <<>>
  /\ UNCHANGED <<results, summary, study, collected, metadata>>

-----------------------------------------------------------------------------
(***************************************************************************)
(* render_saved and validate_saved.                                        *)
(***************************************************************************)

Readable(file) == file \notin {None, Torn}

RenderOnly ==
  /\ main = "idle"
  /\ Readable(manifest)
  /\ main' = "render"
  /\ UNCHANGED <<disk, pool, metadata>>

ExpectedPoints(ofStudy) == ToSet(ofStudy.patterns) \X ToSet(ofStudy.totals)

\* Every point of the study has exactly one record.
PointsMatch ==
  /\ {<<record.pattern, record.total>> : record \in ToSet(results.list)}
       = ExpectedPoints(manifest.study)
  /\ Len(results.list) = Cardinality(ExpectedPoints(manifest.study))

\* Mutant of MayRender: a study that runs is not refused.
MayRenderRunning ==
  Readable(results) /\ PointsMatch

MayRender ==
  /\ manifest.status # "running"
  /\ Readable(results)
  /\ PointsMatch

Refuse ==
  /\ main = "render"
  /\ ~ MayRender
  /\ main' = "idle"
  /\ UNCHANGED <<disk, pool, metadata>>

WriteSummary ==
  /\ main = "render"
  /\ MayRender
  /\ metadata' = manifest
  /\ summary' = results
  /\ main' = "hashes"
  /\ UNCHANGED <<manifest, results, pool>>

WriteHashes ==
  /\ main = "hashes"
  /\ manifest' = [metadata EXCEPT !.resultsHash = results]
  /\ main' = "idle"
  /\ metadata' = None
  /\ UNCHANGED <<results, summary, pool>>

\* The saved configurations are replayed, on the old requests and on new ones.
Validate ==
  /\ main = "idle"
  /\ Readable(manifest)
  /\ manifest.status # "running"
  /\ Readable(results)
  /\ metadata' = [manifest EXCEPT !.validated = results]
  /\ main' = "validated"
  /\ UNCHANGED <<disk, pool>>

\* A replay disagrees, or the runner fails.
ValidateFails ==
  /\ main = "validated"
  /\ main' = "idle"
  /\ metadata' = None
  /\ UNCHANGED <<disk, pool>>

WriteValidated ==
  /\ main = "validated"
  /\ manifest' = metadata
  /\ metadata' = None
  /\ main' = "render"
  /\ UNCHANGED <<results, summary, pool>>

-----------------------------------------------------------------------------

\* The command is killed; a file it was about to write may be left in part.
Kill ==
  /\ main # "idle"
  /\ main' = "idle"
  /\ tasks' = <<>>
  /\ metadata' = None
  /\ \/ UNCHANGED disk
     \/ /\ main \in {"manifest", "complete", "hashes", "validated"}
        /\ manifest' = Torn
        /\ UNCHANGED <<results, summary>>
     \/ /\ main = "search"
        /\ Len(collected) = Len(study.patterns) * Len(study.totals)
        /\ results' = Torn
        /\ UNCHANGED <<manifest, summary>>
     \/ /\ main = "render"
        /\ MayRender
        /\ summary' = Torn
        /\ UNCHANGED <<manifest, results>>
  /\ UNCHANGED <<study, collected>>

Command ==
  \/ \E arguments \in Arguments : Start(arguments)
  \/ RenderOnly
  \/ Validate

MainStep ==
  \/ WriteRunning
  \/ Collect
  \/ CollectFailure
  \/ Shutdown
  \/ WriteResults
  \/ WriteComplete
  \/ Refuse
  \/ WriteSummary
  \/ WriteHashes
  \/ WriteValidated

PoolStep ==
  \/ Take
  \/ \E pattern \in Pattern : ReadRecord(pattern) \/ Return(pattern)

StudyNext ==
  \/ Command
  \/ MainStep
  \/ PoolStep
  \/ \E pattern \in Pattern : Raise(pattern)
  \/ ValidateFails
  \/ Kill

\* The main thread and the threads of the pool are scheduled; a search ends,
\* with a record or a failure.
Fairness == WF_studyVars(MainStep) /\ WF_studyVars(PoolStep)

StudySpec == StudyInit /\ [][StudyNext]_studyVars /\ Fairness

-----------------------------------------------------------------------------

StudyTypeOK ==
  /\ study.number \in 0..MaxStudies
  /\ DOMAIN tasks \subseteq Pattern
  /\ Cardinality(InState("running")) <= Workers

\* The records a study is to save: pattern by pattern, total by total.
StudyRecords(of) ==
  [i \in 1..(Len(of.patterns) * Len(of.totals)) |->
     [study   |-> of.number,
      pattern |-> of.patterns[1 + ((i - 1) \div Len(of.totals))],
      total   |-> of.totals[1 + ((i - 1) % Len(of.totals))]]]

\* Whatever threads finish first, fail or are killed, what the manifest says
\* of the files beside it is true.  "complete", or a hash: the results are all
\* records of its study, in order, and none of an earlier one; the hash is that
\* of the results, and the tables are made from them or about to be rewritten.
\* A validation: it was one of these results.
ManifestTruthful ==
  /\ StudyTypeOK
  /\ Readable(manifest) =>
       /\ manifest.status = "complete" \/ Readable(manifest.resultsHash) =>
            results = Records(StudyRecords(manifest.study))
       /\ Readable(manifest.resultsHash) =>
            manifest.resultsHash = results /\ summary \in {results, Torn}
       /\ Readable(manifest.validated) => manifest.validated = results

\* Every command ends, also when a search fails while others are running or
\* waiting for a thread.
CommandsEnd == main # "idle" ~> main = "idle"
=============================================================================
