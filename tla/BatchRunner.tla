---------------------------- MODULE BatchRunner ----------------------------
(***************************************************************************)
(* The research scripts and the benchmark runner in batch mode             *)
(* (cacheBenchmarks/research/runner.py and                                 *)
(* cacheBenchmarks/cache_benchmark_runner.cpp).  For every experiment the  *)
(* script writes a configuration and an input file, unless the runner has  *)
(* them already, sends their paths through a pipe, and waits for a line of *)
(* counters.  There is one input file, rewritten between experiments.      *)
(*                                                                         *)
(* Counters are modelled by the experiment they were measured in.          *)
(***************************************************************************)
EXTENDS SequencesExt

CONSTANTS
  Strategies,       \* sequences of policy names, one for each level
  BatchCapacities,  \* sequences of capacities, one for each level
  BatchRequests     \* the lists of requests, as objects

\* None, last_requests of a new session, is the list of no call.
ASSUME BatchRequestsAssumption == "none" \notin BatchRequests

VARIABLES
  client,               \* what Runner.run or close of the script is about to do
  call,                 \* the experiment it is called for
  configurationPaths,   \* the strategies whose file this session has written
  lastInput,            \* last_capacities and last_requests
  configFiles,          \* the strategies whose file on disk is whole
  inputFile,            \* what the input file holds; "torn": a part of it
  stdin,                \* the lines in the pipe to the runner
  stdinOpen,
  stdout,               \* the lines in the pipe from the runner
  runner,               \* what the runner is about to do
  loaded,               \* the files it has been given or has read
  answer                \* the last call that has returned, with its counters

script == <<client, call, configurationPaths, lastInput, answer>>

files == <<configFiles, inputFile>>

batchVars == <<script, files, stdin, stdinOpen, stdout, runner, loaded>>

Experiments ==
  {[strategies |-> strategies, input |-> [capacities |-> capacities, requests |-> requests]] :
     strategies \in Strategies, capacities \in BatchCapacities, requests \in BatchRequests}

Calls == {experiment \in Experiments :
            Len(experiment.strategies) = Len(experiment.input.capacities)}

NoInput == [capacities |-> <<>>, requests |-> "none"]

NoCall == [strategies |-> <<>>, input |-> NoInput]

\* checkCacheConfiguration, and the capacities the policies' constructors take.
\* No level, or more than three, is never asked for.
Accepted(experiment) ==
  LET strategies == experiment.strategies
      capacities == experiment.input.capacities
  IN /\ Len(capacities) = Len(strategies)
     /\ \A i \in DOMAIN strategies :
          /\ capacities[i] >= IF strategies[i] \in {"2Q", "LIRS"} THEN 2 ELSE 1
          /\ strategies[i] = "REF" => Len(strategies) = 1

\* A session starts with the files that an earlier one has left.
StartSession ==
  /\ client' = "idle"
  /\ configurationPaths' = {}
  /\ lastInput' = NoInput
  /\ stdin' = <<>>
  /\ stdinOpen' = TRUE
  /\ stdout' = <<>>
  /\ runner' = "config path"
  /\ call' = NoCall
  /\ loaded' = NoCall
  /\ answer' = [call |-> NoCall, response |-> NoCall]
  /\ UNCHANGED files

BatchInit ==
  /\ client = "idle"
  /\ call = NoCall
  /\ configurationPaths = {}
  /\ lastInput = NoInput
  /\ configFiles \in SUBSET Strategies
  /\ inputFile = NoInput
  /\ stdin = <<>>
  /\ stdinOpen = TRUE
  /\ stdout = <<>>
  /\ runner = "config path"
  /\ loaded = NoCall
  /\ answer = [call |-> NoCall, response |-> NoCall]

-----------------------------------------------------------------------------
(***************************************************************************)
(* The script: Runner.run.                                                 *)
(***************************************************************************)

Pipes == <<stdin, stdinOpen, stdout>>

Process == <<runner, loaded>>

Run(experiment) ==
  /\ client = "idle"
  /\ call' = experiment
  /\ client' = IF experiment.strategies \in configurationPaths
                 THEN "check input" ELSE "open config"
  /\ UNCHANGED <<configurationPaths, lastInput, answer, files, Pipes, Process>>

\* write_config_file: opening the file empties it.
OpenConfig ==
  /\ client = "open config"
  /\ configFiles' = configFiles \ {call.strategies}
  /\ client' = "write config"
  /\ UNCHANGED <<call, configurationPaths, lastInput, answer, inputFile, Pipes, Process>>

WriteConfig ==
  /\ client = "write config"
  /\ configFiles' = configFiles \cup {call.strategies}
  /\ configurationPaths' = configurationPaths \cup {call.strategies}
  /\ client' = "check input"
  /\ UNCHANGED <<call, lastInput, answer, inputFile, Pipes, Process>>

\* Mutant of InputIsLast: a new list of requests is noticed, new capacities
\* are not.
InputIsLastRequests == lastInput.requests = call.input.requests

\* The input file is that of the previous call.
InputIsLast == lastInput = call.input

KeepInput ==
  /\ client = "check input"
  /\ InputIsLast
  /\ client' = "send"
  /\ UNCHANGED <<call, configurationPaths, lastInput, answer, files, Pipes, Process>>

\* write_input_file.  A file written in part may still be one that can be read.
OpenInput ==
  /\ client = "check input"
  /\ ~ InputIsLast
  /\ inputFile' = [call.input EXCEPT !.requests = "torn"]
  /\ client' = "write input"
  /\ UNCHANGED <<call, configurationPaths, lastInput, answer, configFiles, Pipes, Process>>

WriteInput ==
  /\ client = "write input"
  /\ inputFile' = call.input
  /\ lastInput' = call.input
  /\ client' = "send"
  /\ UNCHANGED <<call, configurationPaths, answer, configFiles, Pipes, Process>>

\* Both paths are written and flushed at once.
Send ==
  /\ client = "send"
  /\ runner # "exited"
  /\ stdin' = stdin \o <<call.strategies, "current_input.txt">>
  /\ client' = "receive"
  /\ UNCHANGED <<call, configurationPaths, lastInput, answer, files, stdinOpen, stdout, Process>>

\* The pipe is broken: nobody reads it any more.
SendFails ==
  /\ client = "send"
  /\ runner = "exited"
  /\ client' = "close broken"
  /\ UNCHANGED <<call, configurationPaths, lastInput, answer, files, Pipes, Process>>

\* check_statistics sees the number of levels; it raises if it is wrong.
Receive ==
  /\ client = "receive"
  /\ stdout # <<>>
  /\ stdout' = Tail(stdout)
  /\ LET response == Head(stdout)
     IN IF Len(response.input.capacities) = Len(call.input.capacities)
          THEN /\ client' = "idle"
               /\ answer' = [call |-> call, response |-> response]
          ELSE /\ client' = "close"
               /\ UNCHANGED answer
  /\ UNCHANGED <<call, configurationPaths, lastInput, files, stdin, stdinOpen, Process>>

\* Mutant of ReceiveEnd: at the end of the output the line is asked for again.
ReceiveEndRetried ==
  /\ client = "receive"
  /\ stdout = <<>>
  /\ runner = "exited"
  /\ UNCHANGED batchVars

\* The runner has gone without an answer: run raises.
ReceiveEnd ==
  /\ client = "receive"
  /\ stdout = <<>>
  /\ runner = "exited"
  /\ client' = "close"
  /\ UNCHANGED <<call, configurationPaths, lastInput, answer, files, Pipes, Process>>

\* The script has made all its calls, or any other exception ends it: a file
\* cannot be written, the user interrupts.  No caller catches it inside the
\* session.
Interrupt ==
  /\ client \in {"idle", "open config", "write config", "check input", "write input",
                 "send", "receive"}
  /\ client' = "close"
  /\ UNCHANGED <<call, configurationPaths, lastInput, answer, files, Pipes, Process>>

-----------------------------------------------------------------------------
(***************************************************************************)
(* The script: Runner.close.                                               *)
(***************************************************************************)

Close ==
  /\ client = "close"
  /\ stdinOpen' = FALSE
  /\ client' = "wait"
  /\ UNCHANGED <<call, configurationPaths, lastInput, answer, files, stdin, stdout, Process>>

\* Closing stdin tries to flush it again and raises; the process is not
\* waited for.
CloseBroken ==
  /\ client = "close broken"
  /\ stdinOpen' = FALSE
  /\ client' = "closed"
  /\ UNCHANGED <<call, configurationPaths, lastInput, answer, files, stdin, stdout, Process>>

Waited ==
  /\ client = "wait"
  /\ runner = "exited"
  /\ client' = "closed"
  /\ UNCHANGED <<call, configurationPaths, lastInput, answer, files, Pipes, Process>>

\* Mutant of WaitTimesOut: the process is left running.
WaitTimesOutLeaving ==
  /\ client = "wait"
  /\ client' = "closed"
  /\ UNCHANGED <<call, configurationPaths, lastInput, answer, files, Pipes, Process>>

\* The time to exit is up: the process is killed and waited for.
WaitTimesOut ==
  /\ client = "wait"
  /\ runner # "exited"
  /\ runner' = "exited"
  /\ client' = "closed"
  /\ UNCHANGED <<call, configurationPaths, lastInput, answer, files, Pipes, loaded>>

NewSession ==
  /\ client = "closed"
  /\ StartSession

-----------------------------------------------------------------------------
(***************************************************************************)
(* The runner in batch mode.                                               *)
(***************************************************************************)

ReadConfigPath ==
  /\ runner = "config path"
  /\ stdin # <<>>
  /\ loaded' = [NoCall EXCEPT !.strategies = Head(stdin)]
  /\ stdin' = Tail(stdin)
  /\ runner' = "input path"
  /\ UNCHANGED <<script, files, stdinOpen, stdout>>

ReadInputPath ==
  /\ runner = "input path"
  /\ stdin # <<>>
  /\ stdin' = Tail(stdin)
  /\ runner' = "config file"
  /\ UNCHANGED <<script, files, stdinOpen, stdout, loaded>>

\* The end of stdin ends the runner, after a configuration path with an error.
EndOfInput ==
  /\ runner \in {"config path", "input path"}
  /\ stdin = <<>>
  /\ ~ stdinOpen
  /\ runner' = "exited"
  /\ UNCHANGED <<script, files, Pipes, loaded>>

ReadConfigFile ==
  /\ runner = "config file"
  /\ loaded.strategies \in configFiles
  /\ runner' = "input file"
  /\ UNCHANGED <<script, files, Pipes, loaded>>

ReadInputFile ==
  /\ runner = "input file"
  /\ loaded' = [loaded EXCEPT !.input = inputFile]
  /\ runner' = "experiment"
  /\ UNCHANGED <<script, files, Pipes>>

\* The experiment runs on fresh caches, and its counters are printed.
PrintStatistics ==
  /\ runner = "experiment"
  /\ Accepted(loaded)
  /\ stdout' = Append(stdout, loaded)
  /\ runner' = "config path"
  /\ UNCHANGED <<script, files, stdin, stdinOpen, loaded>>

\* An exception ends the runner: a file it cannot read or parse, or a
\* configuration it does not accept.
Fail ==
  /\ \/ runner = "config file" /\ loaded.strategies \notin configFiles
     \/ /\ runner = "experiment"
        /\ ~ Accepted(loaded) \/ loaded.input.requests = "torn"
  /\ runner' = "exited"
  /\ UNCHANGED <<script, files, Pipes, loaded>>

\* The operating system ends the runner.
Crash ==
  /\ runner # "exited"
  /\ runner' = "exited"
  /\ UNCHANGED <<script, files, Pipes, loaded>>

-----------------------------------------------------------------------------

ScriptStep ==
  \/ OpenConfig \/ WriteConfig
  \/ KeepInput \/ OpenInput \/ WriteInput
  \/ Send \/ SendFails
  \/ Receive \/ ReceiveEnd
  \/ Close \/ CloseBroken \/ Waited

RunnerStep ==
  \/ ReadConfigPath \/ ReadInputPath \/ EndOfInput
  \/ ReadConfigFile \/ ReadInputFile
  \/ PrintStatistics \/ Fail

BatchNext ==
  \/ \E experiment \in Calls : Run(experiment)
  \/ ScriptStep
  \/ Interrupt
  \/ WaitTimesOut
  \/ NewSession
  \/ RunnerStep
  \/ Crash

\* Both are processes that the operating system lets run; an experiment is
\* finite.  Nothing says that a script goes on to a next call.
BatchFairness == WF_batchVars(ScriptStep) /\ WF_batchVars(RunnerStep)

BatchSpec == BatchInit /\ [][BatchNext]_batchVars /\ BatchFairness

-----------------------------------------------------------------------------

Writing == client \in {"open config", "write config", "check input", "write input", "send"}

BatchTypeOK ==
  /\ call \in Calls \cup {NoCall}
  /\ configurationPaths \subseteq configFiles \cup {call.strategies}
  /\ Len(stdin) <= 2
  /\ Len(stdout) <= 1

\* The files belong to one process at a time: while the script writes or
\* decides to keep one, the runner of this session waits for a path or has
\* ended, and a session is closed, so that the next one may write the same
\* files, only when its runner has ended.
FilesExclusive ==
  /\ BatchTypeOK
  /\ Writing => runner \in {"config path", "exited"} /\ stdin = <<>>
  /\ client = "closed" => runner = "exited"

\* The counters that a call returns were measured with the strategies,
\* capacities and requests it was called with, whatever was run, interrupted
\* or left on disk before.
AnswersMatch == answer.call = answer.response

\* Every call returns or raises, and a session that is closed is closed in the
\* end, also when the runner dies.
EveryCallEnds ==
  client \notin {"idle", "closed"} ~> client \in {"idle", "closed"}
=============================================================================
