--------------------------- MODULE ExperimentFiles ---------------------------
(***************************************************************************)
(* The two files of an experiment as sequences of tokens: what the scripts *)
(* write (write_config_file and write_input_file of cache_benchmark.py),   *)
(* what the parser makes of them (cacheParser.h), and what the runner      *)
(* accepts (cache_benchmark_runner.cpp).                                   *)
(*                                                                         *)
(* The lexer is a library outside the repository: it yields numbers and    *)
(* names, and numbers are not negative.                                    *)
(***************************************************************************)
EXTENDS Lists, Integers

INT(value) == [type |-> "INT", value |-> value]

IDENTIFIER(name) == [type |-> "IDENTIFIER", name |-> name]

\* What the lexer may yield.
Token == [type : {"INT"}, value : Nat] \cup [type : {"IDENTIFIER"}, name : STRING]

IsInt(token) == token.type = "INT"

Ints(values) == [i \in DOMAIN values |-> INT(values[i])]

-----------------------------------------------------------------------------
(***************************************************************************)
(* Writing.                                                                *)
(***************************************************************************)

ConfigFile(strategies) ==
  <<INT(Len(strategies))>> \o [i \in DOMAIN strategies |-> IDENTIFIER(strategies[i])]

InputFile(capacities, requests) ==
  Ints(capacities) \o <<INT(Len(requests))>> \o Ints(requests)

PowersOfTen ==
  {10, 100, 1000, 10000, 100000, 1000000, 10000000, 100000000, 1000000000}

\* A token whose last characters are missing: a number loses digits and stays a
\* number; of a strategy's name nothing is left that the parser takes for one.
CutShort(token) ==
  IF IsInt(token)
    THEN {INT(token.value \div power) : power \in {power \in PowersOfTen : power <= token.value}}
    ELSE {IDENTIFIER("partOfAName")}

\* What a file may hold while it is written, or after the writer was killed (the
\* whole file without its last line break is left out: it has the same tokens).
Parts(tokens) ==
  {SubSeq(tokens, 1, n) : n \in 0..(Len(tokens) - 1)}
    \cup UNION {{Append(SubSeq(tokens, 1, n - 1), cut) : cut \in CutShort(tokens[n])} :
                  n \in DOMAIN tokens}

-----------------------------------------------------------------------------
(***************************************************************************)
(* Parsing.  Both functions give the state they leave the parser in, also  *)
(* when they throw.                                                        *)
(***************************************************************************)

strategyNames == {"LFU", "LRU", "LIRS", "2Q", "ARC", "REF"}

maxCacheLevel == 3

\* The length of the longest prefix of seq whose items pass Test.
PrefixLength(Test(_), seq) ==
  LET failing == SelectInSeq(seq, LAMBDA item : ~ Test(item))
  IN IF failing = 0 THEN Len(seq) ELSE failing - 1

IsStrategy(token) == token.type = "IDENTIFIER" /\ token.name \in strategyNames

\* The number of levels of a configuration, or no number.
LevelCounts(tokens) ==
  {n \in 0..maxCacheLevel : tokens # <<>> /\ tokens[1] = INT(n)}

\* parseConfig: levels that were parsed before an error stay.
ParsedConfig(tokens) ==
  LET names == Tail(tokens)
      count == CHOOSE n \in LevelCounts(tokens) : TRUE
      found == Min({count, PrefixLength(IsStrategy, names)})
  IN IF LevelCounts(tokens) = {} THEN [levels |-> <<>>, parsed |-> FALSE]
     ELSE [levels |-> [i \in 1..found |-> [strategy |-> names[i].name, size |-> 0]],
           parsed |-> found = count /\ Len(names) = count]

\* parseInput, for the levels of the configuration: sizes and requests that
\* were parsed before an error stay.
ParsedInput(levels, tokens) ==
  LET ints == PrefixLength(IsInt, tokens)
      sizes == Min({Len(levels), ints})
      rest == Len(levels) + 1
      count == IF ints < rest THEN 0 ELSE tokens[rest].value
      found == IF ints < rest THEN 0 ELSE Min({count, ints - rest})
  IN [levels   |-> [i \in DOMAIN levels |->
                      IF i <= sizes THEN [levels[i] EXCEPT !.size = tokens[i].value]
                      ELSE levels[i]],
      requests |-> [i \in 1..found |-> tokens[rest + i].value],
      parsed   |-> ints >= rest /\ found = count /\ Len(tokens) = rest + count]

-----------------------------------------------------------------------------
(***************************************************************************)
(* The grammar (parser_grammar.md).                                        *)
(***************************************************************************)

\* What the grammar derives.
IsConfig(tokens) ==
  \E count \in 0..maxCacheLevel :
    /\ Len(tokens) = count + 1
    /\ tokens[1] = INT(count)
    /\ \A i \in 1..count : \E name \in strategyNames : tokens[i + 1] = IDENTIFIER(name)

IsInput(tokens, levelCount) ==
  /\ \A i \in DOMAIN tokens : IsInt(tokens[i])
  /\ Len(tokens) > levelCount
  /\ Len(tokens) = levelCount + 1 + tokens[levelCount + 1].value

-----------------------------------------------------------------------------
(***************************************************************************)
(* Running.                                                                *)
(***************************************************************************)

NoExperiment == [levels |-> <<>>, requests |-> <<>>]

\* checkCacheConfiguration, what the factory makes, and the capacities the
\* constructors of the policies take.
Supported(levels) ==
  /\ levels # <<>>
  /\ \A i \in DOMAIN levels :
       /\ levels[i].size >= IF levels[i].strategy \in {"2Q", "LIRS"} THEN 2 ELSE 1
       /\ levels[i].strategy = "REF" => Len(levels) = 1

\* runCacheExperimentFromFiles: the experiment whose counters are printed, or
\* none if something was thrown.
RunExperiment(config, input) ==
  LET fromConfig == ParsedConfig(config)
      fromInput == ParsedInput(fromConfig.levels, input)
  IN IF /\ fromConfig.parsed
        /\ fromInput.parsed
        /\ Supported(fromInput.levels)
        /\ fromInput.requests # <<>>
       THEN [levels |-> fromInput.levels, requests |-> fromInput.requests]
       ELSE NoExperiment

\* check_statistics compares the counters with the requests and the levels the
\* script knows of; that they fit together is StatisticsAccepted of
\* CacheSystemHistory.
CountersAccepted(experiment, requestCount, levelCount) ==
  /\ Len(experiment.requests) = requestCount
  /\ Len(experiment.levels) = levelCount

\* The experiment a script asks for.
Intended(strategies, capacities, requests) ==
  [levels   |-> [i \in DOMAIN strategies |->
                   [strategy |-> strategies[i], size |-> capacities[i]]],
   requests |-> requests]
=============================================================================
