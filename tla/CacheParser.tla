----------------------------- MODULE CacheParser -----------------------------
(***************************************************************************)
(* One parser object (cacheParser.h) whose functions are called in any     *)
(* order, on any tokens, and again after they have thrown.                 *)
(***************************************************************************)
EXTENDS ExperimentFiles

CONSTANTS
  ConfigTokens,  \* the token streams parseConfig may be given
  InputTokens    \* the token streams parseInput may be given

ASSUME TokensAssumption == ConfigTokens \cup InputTokens \subseteq Seq(Token)

VARIABLES
  cacheSysParams_,  \* the levels
  reqList_,
  configParsed_,
  lastConfig,       \* history: the tokens parseConfig was last given
  inputCall         \* history: the last call of parseInput since, and its outcome

parserVars == <<cacheSysParams_, reqList_, configParsed_, lastConfig, inputCall>>

NotCalled == [outcome |-> "not called"]

ParserInit ==
  /\ cacheSysParams_ = <<>>
  /\ reqList_ = <<>>
  /\ configParsed_ = FALSE
  /\ lastConfig = <<>>
  /\ inputCall = NotCalled

\* Mutant of ParseConfig: a configuration that was parsed before counts.
ParseConfigKeepingFlag(tokens) ==
  /\ cacheSysParams_' = ParsedConfig(tokens).levels
  /\ configParsed_' = (configParsed_ \/ ParsedConfig(tokens).parsed)
  /\ lastConfig' = tokens
  /\ inputCall' = NotCalled
  /\ UNCHANGED reqList_

\* The flag falls first and rises last, so that a throw between leaves it down.
ParseConfig(tokens) ==
  /\ cacheSysParams_' = ParsedConfig(tokens).levels
  /\ configParsed_' = ParsedConfig(tokens).parsed
  /\ lastConfig' = tokens
  /\ inputCall' = NotCalled
  /\ UNCHANGED reqList_

\* Mutant of ParseInput: the requests of an earlier call stay.
ParseInputAppending(tokens) ==
  /\ configParsed_
  /\ LET result == ParsedInput(cacheSysParams_, tokens)
     IN /\ cacheSysParams_' = result.levels
        /\ reqList_' = reqList_ \o result.requests
        /\ inputCall' = [outcome |-> IF result.parsed THEN "parsed" ELSE "thrown",
                         tokens  |-> tokens]
  /\ UNCHANGED <<configParsed_, lastConfig>>

\* Without a configuration parseInput throws before it changes anything.
ParseInput(tokens) ==
  /\ configParsed_
  /\ LET result == ParsedInput(cacheSysParams_, tokens)
     IN /\ cacheSysParams_' = result.levels
        /\ reqList_' = result.requests
        /\ inputCall' = [outcome |-> IF result.parsed THEN "parsed" ELSE "thrown",
                         tokens  |-> tokens]
  /\ UNCHANGED <<configParsed_, lastConfig>>

ParserNext ==
  \/ \E tokens \in ConfigTokens : ParseConfig(tokens)
  \/ \E tokens \in InputTokens : ParseInput(tokens)

-----------------------------------------------------------------------------

\* Whatever was parsed or thrown before, in whatever order: the flag says
\* whether the last configuration is one of the grammar, the last input was
\* accepted exactly if it is one of the grammar for that configuration, and the
\* parser then holds that configuration with these sizes and requests, with
\* nothing left of an earlier call.
ParserForgets ==
  /\ configParsed_ <=> IsConfig(lastConfig)
  /\ inputCall # NotCalled =>
       (inputCall.outcome = "parsed" <=> IsInput(inputCall.tokens, Len(lastConfig) - 1))
  /\ inputCall.outcome = "parsed" =>
       LET names == [i \in DOMAIN cacheSysParams_ |-> cacheSysParams_[i].strategy]
           sizes == [i \in DOMAIN cacheSysParams_ |-> cacheSysParams_[i].size]
       IN /\ lastConfig = ConfigFile(names)
          /\ inputCall.tokens = InputFile(sizes, reqList_)
=============================================================================
