---------------------------- MODULE BenchmarkCase ----------------------------
(***************************************************************************)
(* One case in a folder (cacheBenchmarks/benchmark.py): generate saves     *)
(* requests, the input and configuration of an experiment, and a manifest  *)
(* with their hashes; run and compare work from the saved files only.      *)
(*                                                                         *)
(* The commands follow each other; each may be killed at any moment, also  *)
(* while it writes a file.  Files may be edited before a run or comparison *)
(* and in the middle of it.  A hash is modelled by the contents it was     *)
(* made from.                                                              *)
(***************************************************************************)
EXTENDS ExperimentFiles, StudyModel

CONSTANTS
  CaseArguments,      \* what generate may be called with
  CompareArguments,   \* what compare may be called with
  CaseTrace(_, _, _)  \* the requests of a pattern: module RequestPatterns

\* The options of the command line, and keys that the parser takes.
ASSUME CaseAssumption ==
  /\ \A arguments \in CaseArguments :
       /\ arguments.requests \in Int
       /\ arguments.capacities \in Seq(Int)
       /\ arguments.strategies \in Seq(strategyNames)
       /\ arguments.requests >= 1 =>
            LET trace == CaseTrace(arguments.pattern, arguments.seed, arguments.requests)
            IN trace \in Seq(Nat) /\ Len(trace) = arguments.requests
  /\ \A arguments \in CompareArguments :
       /\ arguments.capacity \in Int
       /\ arguments.strategies \in Seq(strategyNames)

VARIABLES
  caseFiles,       \* the files of the folder
  caseCommand,     \* the command that is running, and what it has written or read
  caseReport,      \* what the last command has printed of a run or comparison
  manifestEdited   \* history: the manifest is not as generate has written it

caseVars == <<caseFiles, caseCommand, caseReport, manifestEdited>>

\* In the order in which they are written.
FILES == <<"requests.txt", "input.txt", "config.txt", "manifest.json">>

NoFile == [exists |-> FALSE]

File(contents) == [exists |-> TRUE, contents |-> contents]

\* JSON that breaks off is none.
TornManifest == [schema |-> 0]

NoCommand == [kind |-> "none"]

NoReport == [kind |-> "none"]

CaseInit ==
  /\ caseFiles = [name \in ToSet(FILES) |-> NoFile]
  /\ caseCommand = NoCommand
  /\ caseReport = NoReport
  /\ manifestEdited = FALSE

-----------------------------------------------------------------------------
(***************************************************************************)
(* generate.                                                               *)
(***************************************************************************)

\* Mutant of ValidCase: 2Q and LIRS may have one slot.
ValidCaseAnyCapacity(arguments) ==
  /\ arguments.requests >= 1
  /\ Len(arguments.capacities) \in 1..3
  /\ Len(arguments.capacities) = Len(arguments.strategies)
  /\ \A i \in DOMAIN arguments.capacities : arguments.capacities[i] >= 1
  /\ "REF" \in ToSet(arguments.strategies) => Len(arguments.strategies) = 1

\* The arguments generate_case accepts.
ValidCase(arguments) ==
  /\ arguments.requests >= 1
  /\ Len(arguments.capacities) \in 1..3
  /\ valid_strategies(arguments.strategies, arguments.capacities)
  /\ "REF" \in ToSet(arguments.strategies) => Len(arguments.strategies) = 1

RequestsOf(arguments) == CaseTrace(arguments.pattern, arguments.seed, arguments.requests)

Contents(arguments) ==
  [name \in {"requests.txt", "input.txt", "config.txt"} |->
     CASE name = "requests.txt" -> Ints(RequestsOf(arguments))
       [] name = "input.txt"    -> InputFile(arguments.capacities, RequestsOf(arguments))
       [] name = "config.txt"   -> ConfigFile(arguments.strategies)]

Metadata(arguments) ==
  [schema |-> 1, case |-> arguments, file_sha256 |-> Contents(arguments)]

\* Mutant of MayGenerate: only a finished case counts as one.
MayGenerateOverUnfinished(arguments, force) ==
  ValidCase(arguments) /\ (force \/ ~ caseFiles["manifest.json"].exists)

\* Without --force no file of a case may exist.
MayGenerate(arguments, force) ==
  /\ ValidCase(arguments)
  /\ force \/ \A name \in ToSet(FILES) : ~ caseFiles[name].exists

Generate(arguments, force) ==
  /\ caseCommand = NoCommand
  /\ MayGenerate(arguments, force)
  /\ caseCommand' =
       [kind |-> "generate", arguments |-> arguments, force |-> force, written |-> 0]
  /\ caseReport' = NoReport
  /\ UNCHANGED <<caseFiles, manifestEdited>>

Generating == caseCommand.kind = "generate"

NextName == FILES[caseCommand.written + 1]

NextContents ==
  IF NextName = "manifest.json" THEN Metadata(caseCommand.arguments)
  ELSE Contents(caseCommand.arguments)[NextName]

WriteCaseFile ==
  /\ Generating
  /\ caseFiles' = [caseFiles EXCEPT ![NextName] = File(NextContents)]
  /\ caseCommand' = IF caseCommand.written + 1 = Len(FILES) THEN NoCommand
                    ELSE [caseCommand EXCEPT !.written = @ + 1]
  /\ manifestEdited' = (manifestEdited /\ NextName # "manifest.json")
  /\ UNCHANGED caseReport

\* generate is killed, or a file cannot be written.
StopGenerate ==
  /\ Generating
  /\ caseCommand' = NoCommand
  /\ \/ UNCHANGED <<caseFiles, manifestEdited>>
     \/ /\ \E part \in IF NextName = "manifest.json" THEN {TornManifest} ELSE Parts(NextContents) :
             caseFiles' = [caseFiles EXCEPT ![NextName] = File(part)]
        /\ manifestEdited' = (manifestEdited /\ NextName # "manifest.json")
  /\ UNCHANGED caseReport

-----------------------------------------------------------------------------
(***************************************************************************)
(* run and compare.                                                        *)
(***************************************************************************)

Manifest == caseFiles["manifest.json"].contents

\* The form that read_case requires of a manifest.
Describes(manifest) ==
  /\ manifest.schema = 1
  /\ manifest.case.requests >= 1
  /\ Len(manifest.case.capacities) \in 1..3

Refused == [kind |-> "refused"]

NoArguments == [capacity |-> 0]

\* read_case, which both commands begin with, reads the manifest.
ReadManifest(kind, arguments) ==
  /\ caseCommand = NoCommand
  /\ IF caseFiles["manifest.json"].exists /\ Describes(Manifest)
       THEN /\ caseCommand' = [kind |-> kind, arguments |-> arguments, state |-> "hashes",
                               manifest |-> Manifest, edited |-> manifestEdited,
                               checked |-> 0, late |-> {}, config |-> <<>>]
            /\ caseReport' = NoReport
       ELSE caseReport' = Refused /\ UNCHANGED caseCommand
  /\ UNCHANGED <<caseFiles, manifestEdited>>

RunCase == ReadManifest("run", NoArguments)

MayCompare(arguments) ==
  /\ arguments.capacity >= 1
  /\ {"2Q", "LIRS"} \cap ToSet(arguments.strategies) # {} => arguments.capacity >= 2

CompareCase(arguments) == MayCompare(arguments) /\ ReadManifest("compare", arguments)

Reading(state) == caseCommand.kind \in {"run", "compare"} /\ caseCommand.state = state

EndsWith(report) == caseReport' = report /\ caseCommand' = NoCommand

NextToCheck == FILES[caseCommand.checked + 1]

\* Mutant of HashFits: the configuration is not among the files checked.
HashFitsButConfig(name) ==
  name = "config.txt" \/ caseFiles[name] = File(caseCommand.manifest.file_sha256[name])

HashFits(name) == caseFiles[name] = File(caseCommand.manifest.file_sha256[name])

\* It reads one file after the other and compares its hash.
CheckFile ==
  /\ Reading("hashes")
  /\ IF HashFits(NextToCheck)
       THEN /\ caseCommand' = [caseCommand EXCEPT
                 !.checked = @ + 1,
                 !.state = IF caseCommand.checked + 2 = Len(FILES) THEN "requests" ELSE @]
            /\ UNCHANGED caseReport
       ELSE EndsWith(Refused)
  /\ UNCHANGED <<caseFiles, manifestEdited>>

Values(tokens) == [i \in DOMAIN tokens |-> tokens[i].value]

\* One session (module BatchRunner) in a folder that is removed afterwards runs
\* every strategy once, in the order given, on the requests that were read.
Comparison(arguments, requests) ==
  LET strategies == FromKeys(arguments.strategies)
  IN [i \in DOMAIN strategies |->
        RunExperiment(ConfigFile(<<strategies[i]>>),
                      InputFile(<<arguments.capacity>>, requests))]

\* The requests are read a second time, for their number and for compare.
ReadRequests ==
  LET requests == caseFiles["requests.txt"]
  IN /\ Reading("requests")
     /\ IF ~ requests.exists \/ Len(requests.contents) # caseCommand.manifest.case.requests
          THEN EndsWith(Refused)
        ELSE IF caseCommand.kind = "run"
          THEN /\ caseCommand' = [caseCommand EXCEPT !.state = "config"]
               /\ UNCHANGED caseReport
        ELSE EndsWith([kind |-> "comparison", manifest |-> caseCommand.manifest,
                      edited |-> caseCommand.edited, late |-> caseCommand.late,
                      arguments |-> caseCommand.arguments,
                      rows |-> Comparison(caseCommand.arguments, Values(requests.contents))])
     /\ UNCHANGED <<caseFiles, manifestEdited>>

\* What the runner reads; of no file, nothing.
ReadByRunner(name) == IF caseFiles[name].exists THEN caseFiles[name].contents ELSE <<>>

\* run_case starts the runner, which reads the two files itself.
ReadConfig ==
  /\ Reading("config")
  /\ caseCommand' = [caseCommand EXCEPT !.config = ReadByRunner("config.txt"), !.state = "input"]
  /\ UNCHANGED <<caseFiles, caseReport, manifestEdited>>

\* The runner fails, check_statistics raises, or the counters are printed.
ReadInput ==
  LET measured == RunExperiment(caseCommand.config, ReadByRunner("input.txt"))
      case == caseCommand.manifest.case
      kind == IF measured = NoExperiment THEN "runner failed"
              ELSE IF CountersAccepted(measured, case.requests, Len(case.capacities))
                THEN "counters"
              ELSE "incorrect statistics"
  IN /\ Reading("input")
     /\ EndsWith([kind |-> kind, manifest |-> caseCommand.manifest,
                 edited |-> caseCommand.edited, late |-> caseCommand.late,
                 measured |-> measured])
     /\ UNCHANGED <<caseFiles, manifestEdited>>

\* run or compare is killed, and prints nothing.
StopReading ==
  /\ caseCommand.kind \in {"run", "compare"}
  /\ EndsWith(NoReport)
  /\ UNCHANGED <<caseFiles, manifestEdited>>

-----------------------------------------------------------------------------
(***************************************************************************)
(* Editing.                                                                *)
(***************************************************************************)

ValidCases == {arguments \in CaseArguments : ValidCase(arguments)}

Checked == {FILES[i] : i \in 1..caseCommand.checked}

\* Somebody changes a file that has a hash, here into that of another case, or
\* takes it away.  What run or compare has checked already it does not check again.
EditCase ==
  /\ ~ Generating
  /\ \E name \in ToSet(FILES) \ {"manifest.json"} :
       /\ caseFiles[name].exists
       /\ \E file \in {NoFile} \cup {File(Contents(case)[name]) : case \in ValidCases} :
            /\ file # caseFiles[name]
            /\ caseFiles' = [caseFiles EXCEPT ![name] = file]
       /\ caseCommand' = IF caseCommand = NoCommand THEN NoCommand
                         ELSE [caseCommand EXCEPT !.late = @ \cup ({name} \cap Checked)]
  /\ caseReport' = NoReport
  /\ UNCHANGED manifestEdited

\* The manifest has no hash: it may become that of another case, or describe one
\* under the hashes it has, or have a hash of another file.
EditedManifests ==
  {Metadata(case) : case \in ValidCases}
    \cup {[Manifest EXCEPT !.case = case] : case \in CaseArguments}
    \cup {[Manifest EXCEPT !.file_sha256[name] = Contents(case)[name]] :
            name \in {"requests.txt", "input.txt", "config.txt"}, case \in ValidCases}

\* Once, until generate writes it again, and between the commands: run and compare
\* read it once.
EditManifest ==
  /\ caseCommand = NoCommand
  /\ ~ manifestEdited
  /\ caseFiles["manifest.json"].exists /\ Describes(Manifest)
  /\ \E file \in {NoFile} \cup {File(manifest) : manifest \in EditedManifests \ {Manifest}} :
       caseFiles' = [caseFiles EXCEPT !["manifest.json"] = file]
  /\ manifestEdited' = TRUE
  /\ caseReport' = NoReport
  /\ UNCHANGED caseCommand

CaseNext ==
  \/ \E arguments \in CaseArguments, force \in BOOLEAN : Generate(arguments, force)
  \/ WriteCaseFile
  \/ StopGenerate
  \/ RunCase
  \/ \E arguments \in CompareArguments : CompareCase(arguments)
  \/ CheckFile
  \/ ReadRequests
  \/ ReadConfig
  \/ ReadInput
  \/ StopReading
  \/ EditCase
  \/ EditManifest

-----------------------------------------------------------------------------

IntendedCase(case) ==
  Intended(case.strategies, case.capacities, RequestsOf(case))

\* A comparison has one row of each strategy, on the requests of its case.
ComparesEachOnce(report, requests) ==
  LET strategies == ToSet(report.arguments.strategies)
  IN /\ ToSet(report.rows) =
          {Intended(<<strategy>>, <<report.arguments.capacity>>, requests) :
             strategy \in strategies}
     /\ Len(report.rows) = Cardinality(strategies)

\* What was printed is of the files that the manifest has hashes of.
OfHashes(report) ==
  LET hashed == report.manifest.file_sha256
  IN /\ report.kind = "comparison" =>
          ComparesEachOnce(report, Values(hashed["requests.txt"]))
     /\ report.kind = "counters" =>
          report.measured = RunExperiment(hashed["config.txt"], hashed["input.txt"])

\* It is of the case that the manifest describes, and neither the runner nor the
\* check of its counters has refused it.
OfCase(report) ==
  LET case == report.manifest.case
  IN /\ report.kind \notin {"runner failed", "incorrect statistics"}
     /\ report.kind = "comparison" => ComparesEachOnce(report, RequestsOf(case))
     /\ report.kind = "counters" => report.measured = IntendedCase(case)

\* Whatever was regenerated over, broken off or edited before: if no file that the
\* experiment is made from (of a comparison, requests.txt) was edited after its
\* hash was compared, what is printed is of the files that the manifest has the
\* hashes of; and if the manifest was not edited before it was read, of the case
\* that generate was called with, and then read_case accepts nothing that the
\* runner or the check of its counters refuses.  An edit between the comparison
\* of a hash and the runner's own reading nothing notices, and nothing one of the
\* manifest.
CaseTruthful ==
  caseReport.kind \in {"counters", "comparison", "runner failed", "incorrect statistics"} =>
    LET files == IF caseReport.kind = "comparison" THEN {"requests.txt"}
                 ELSE {"input.txt", "config.txt"}
    IN caseReport.late \cap files = {} =>
         /\ OfHashes(caseReport)
         /\ ~ caseReport.edited => OfCase(caseReport)

\* generate changes a file of a case that is there only under --force: what a
\* killed one has left is not touched by one that is not forced either.
CaseKept ==
  [][\A name \in ToSet(FILES) :
       Generating /\ caseFiles[name].exists /\ caseFiles'[name] # caseFiles[name] =>
         caseCommand.force]_caseVars
=============================================================================
