--------------------------- MODULE RequestPatterns ---------------------------
(***************************************************************************)
(* The request sequences of the experiments: generate_requests and         *)
(* read_requests of cacheBenchmarks/research/workloads.py, and             *)
(* generate_request_sequence of cacheBenchmarks/cache_benchmark.py, the    *)
(* legacy suite.                                                           *)
(*                                                                         *)
(* A request is generated with the role of its page, which the code does   *)
(* not name: the hot set of a phase, the cold pages, a scan, a site.  The  *)
(* random generator is free to draw anything in its range.                 *)
(***************************************************************************)
EXTENDS SequencesExt, Integers

CONSTANTS
  Generators,   \* the suites, patterns, request counts and scales explored
  MaxInt,       \* the greatest key that fits a C++ int
  MaxDraws,     \* bound: of longer ranges only three draws are explored
  PhaseLength,  \* requests in a phase: 2000
  ScanPeriod,   \* requests from one scan to the next: 512
  ScanStart,    \* of them before the scan: 384
  BurstLength   \* requests in a burst: 16

ASSUME PeriodAssumption ==
  /\ MaxInt \in Nat /\ MaxInt >= 2047
  /\ PhaseLength \in Nat \ {0}
  /\ ScanPeriod \in Nat \ {0}
  /\ BurstLength \in Nat \ {0}

LegacyPatterns ==
  {"small_cycle", "boundary_cycle", "scan", "hot_cold", "hot_scan", "phase_change",
   "bursts", "uniform"}

ResearchPatterns == LegacyPatterns \cup {"popular", "navigation"}

\* What benchmark.py, cache_research.py and cache_benchmark.py accept.  The
\* numbers of a file of requests are given by read_requests.
ASSUME GeneratorAssumption ==
  \A generator \in Generators :
    /\ generator.requests \in Nat \ {0}
    /\ generator.suite \in {"legacy", "research", "file"}
    /\ generator.suite = "research" =>
         /\ generator.pattern \in ResearchPatterns
         /\ generator.scale \in Nat /\ generator.scale >= 2
         /\ generator.requests + 12 * generator.scale <= MaxInt
    /\ generator.suite = "legacy" =>
         /\ generator.pattern \in LegacyPatterns
         /\ generator.requests <= MaxInt - 1024
    /\ generator.suite = "file" =>
         /\ generator.requests = Len(generator.tokens)
         /\ generator.requests <= MaxInt

VARIABLES
  generator,  \* what is generated
  index,      \* the number of requests generated
  latest,     \* the latest of them
  roles       \* the pages requested before it, and the role of each

patternVars == <<generator, index, latest, roles>>

PageRequest(key, role) == [key |-> key, role |-> role]

NoRequest == PageRequest(0, <<"none", 0>>)

PatternInit ==
  /\ generator \in Generators
  /\ index = 0
  /\ latest = NoRequest
  /\ roles = <<>>

-----------------------------------------------------------------------------

\* randrange(n).
Draws(n) == IF n <= MaxDraws THEN 0..(n - 1) ELSE {0, n \div 2, n - 1}

Pages(keys, role) == {PageRequest(key, role) : key \in keys}

From(offset, keys) == {offset + key : key \in keys}

\* Nine of ten requests go to the hot pages, which nobody counts here.
HotOrCold(hot, phase, cold) == Pages(hot, <<"hot", phase>>) \cup Pages(cold, <<"cold", 0>>)

\* generate_request_key.
LegacyRequests ==
  CASE generator.pattern = "small_cycle" -> Pages({index % 32}, <<"cycle", 0>>)
    [] generator.pattern = "boundary_cycle" -> Pages({index % 65}, <<"cycle", 0>>)
    [] generator.pattern = "scan" -> Pages({index % 256}, <<"cycle", 0>>)
    [] generator.pattern = "hot_cold" ->
         HotOrCold(Draws(8), 0, From(1024, Draws(1024)))
    [] generator.pattern = "phase_change" ->
         LET phase == (index \div PhaseLength) % 4
         IN HotOrCold(From(64 * phase, Draws(8)), phase, From(1024, Draws(1024)))
    [] generator.pattern = "hot_scan" ->
         IF index % ScanPeriod < ScanStart THEN Pages(Draws(8), <<"hot", 0>>)
         ELSE Pages({1024 + index}, <<"scan", 0>>)
    [] generator.pattern = "bursts" ->
         IF index % BurstLength = 0 THEN Pages(Draws(256), <<"burst", 0>>) ELSE {latest}
    [] generator.pattern = "uniform" -> Pages(Draws(256), <<"uniform", 0>>)

scale == generator.scale

hot_size == IF scale \div 8 >= 1 THEN scale \div 8 ELSE 1

\* Mutant of PhaseOffset: the hot sets of the phases follow each other as in
\* the legacy suite.
PhaseOffsetLegacy(phase) == 64 * phase

PhaseOffset(phase) == phase * scale

\* Mutant of ColdOffset: the cold pages begin at the middle of the phases.
ColdOffsetLow == 2 * scale

\* Mutant of ColdOffset: the cold pages begin too high for the guard.
ColdOffsetHigh == 9 * scale

ColdOffset == 8 * scale

\* Pages of eight sites: four resources of all, four of a site, eight of a page.
NavigationRequest ==
  LET page_visit == index \div 16
      resource == index % 16
      site == (page_visit \div 12) % 8
  IN IF resource < 4 THEN PageRequest(resource, <<"common", 0>>)
     ELSE IF resource < 8 THEN PageRequest(4 + site * 4 + (resource - 4), <<"site", site>>)
     ELSE PageRequest(1000 + site * 48 + (page_visit % 6) * 8 + (resource - 8),
                  <<"page", (site * 6) + (page_visit % 6)>>)

\* generate_requests.
ResearchRequests ==
  CASE generator.pattern = "popular" -> Pages(Draws(4 * scale), <<"popular", 0>>)
    [] generator.pattern = "small_cycle" ->
         Pages({index % (scale \div 2)}, <<"cycle", 0>>)
    [] generator.pattern = "boundary_cycle" -> Pages({index % (scale + 1)}, <<"cycle", 0>>)
    [] generator.pattern = "scan" -> Pages({index % (4 * scale)}, <<"cycle", 0>>)
    [] generator.pattern = "hot_cold" ->
         HotOrCold(Draws(hot_size), 0, From(ColdOffset, Draws(4 * scale)))
    [] generator.pattern = "phase_change" ->
         LET phase == (index \div PhaseLength) % 4
         IN HotOrCold(From(PhaseOffset(phase), Draws(hot_size)), phase,
                      From(ColdOffset, Draws(4 * scale)))
    [] generator.pattern = "hot_scan" ->
         IF index % ScanPeriod < ScanStart THEN Pages(Draws(hot_size), <<"hot", 0>>)
         ELSE Pages({ColdOffset + index}, <<"scan", 0>>)
    [] generator.pattern = "bursts" ->
         IF index % BurstLength = 0 THEN Pages(Draws(4 * scale), <<"burst", 0>>) ELSE {latest}
    [] generator.pattern = "uniform" -> Pages(Draws(4 * scale), <<"uniform", 0>>)
    [] generator.pattern = "navigation" -> {NavigationRequest}

\* The keys of the pages seen, the latest included.
Seen ==
  LET pages == DOMAIN roles \cup (IF index = 0 THEN {} ELSE {latest.key})
  IN [key \in pages |-> IF key \in DOMAIN roles THEN roles[key] ELSE latest.role]

\* read_requests: a token has the number of distinct tokens before its first
\* occurrence.
FileRequest ==
  LET role == <<"token", generator.tokens[index + 1]>>
      known == {key \in DOMAIN Seen : Seen[key] = role}
  IN PageRequest(IF known # {} THEN Min(known) ELSE Cardinality(DOMAIN Seen), role)

Requests ==
  CASE generator.suite = "legacy"   -> LegacyRequests
    [] generator.suite = "research" -> ResearchRequests
    [] generator.suite = "file"     -> {FileRequest}

GenerateRequest ==
  /\ index < generator.requests
  /\ latest' \in Requests
  /\ index' = index + 1
  /\ roles' = Seen
  /\ UNCHANGED generator

PatternNext == GenerateRequest

-----------------------------------------------------------------------------

\* Every key is one the parser and the caches take, for all arguments that the
\* commands accept.
KeysFit == latest.key \in 0..MaxInt

\* A page has one role only: the hot sets of different phases, the cold pages,
\* the sites and the pages of a site have nothing in common, and a scanned page
\* has never been requested before.  Equal tokens of a file, and only these, are
\* one page.
PagesApart ==
  LET known == latest.key \in DOMAIN roles
  IN /\ known => roles[latest.key] = latest.role /\ latest.role[1] # "scan"
     /\ generator.suite = "file" =>
          \A key \in DOMAIN roles : roles[key] = latest.role => key = latest.key
=============================================================================
