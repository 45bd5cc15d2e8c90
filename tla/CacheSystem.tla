----------------------------- MODULE CacheSystem -----------------------------
(***************************************************************************)
(* The multi-level cache (cacheSystem.h) over Cache::lookupUpdate          *)
(* (cache/cache.h): a miss of one level asks the next, a miss of the last  *)
(* level runs the user's loader, and on the way back every level that      *)
(* missed stores a copy.                                                   *)
(*                                                                         *)
(* The levels are caches of any policy: what they evict is left open, as   *)
(* in module Cache.  Each activation of Cache::lookupUpdate is a frame.    *)
(* The program's control is in the user's hands between system calls and   *)
(* while the loader runs; there the system may be called again.            *)
(***************************************************************************)
EXTENDS Lists

CONSTANTS
  Key,          \* the keys a client asks for
  LevelSize,    \* the sizes of the levels, first level first
  MaxDepth      \* bound: system calls nested in each other's loaders

\* At least one level, each of a positive size.
ASSUME LevelsAssumption == LevelSize \in Seq(Nat \ {0}) /\ LevelSize # <<>>
ASSUME BoundsAssumption == MaxDepth \in Nat \ {0}

Level == 1..Len(LevelSize)
LastLevel == Len(LevelSize)

VARIABLES
  pages,       \* per level and key: the load its page comes from, 0: not cached
  levelStats,  \* stats_ of each level's cache
  stats_,      \* stats_ of the system
  frames,      \* the running activations of Cache::lookupUpdate, outermost first
  control,     \* who runs: the user, or the last frame: before getPage ("ask"),
               \* with the page of the level below ("return"), or unwinding
               \* an exception from below ("throw")
  returned     \* the load that the page being returned comes from, 0: none

vars == <<pages, levelStats, stats_, frames, control, returned>>

Init ==
  /\ pages = [level \in Level |-> [key \in Key |-> 0]]
  /\ levelStats = [level \in Level |-> [requests |-> 0, hits |-> 0, misses |-> 0]]
  /\ stats_ = [requests |-> 0, hits |-> 0, misses |-> 0]
  /\ frames = <<>>
  /\ control = "user"
  /\ returned = 0

\* What lookup finds in one level.
Resident(level) == {key \in Key : pages[level][key] # 0}

-----------------------------------------------------------------------------

Running == Last(frames)

Depth == Cardinality({i \in DOMAIN frames : frames[i].level = 1})

\* Mutant of updateStats: the misses of all levels are added up.
TotalStatsSummingMisses(ofLevel) ==
  [requests |-> ofLevel[1].requests,
   hits     |-> SumFunction([level \in Level |-> ofLevel[level].hits]),
   misses   |-> SumFunction([level \in Level |-> ofLevel[level].misses])]

\* updateStats.
TotalStats(ofLevel) ==
  [requests |-> ofLevel[1].requests,
   hits     |-> SumFunction([level \in Level |-> ofLevel[level].hits]),
   misses   |-> ofLevel[LastLevel].misses]

\* The last frame ends, with a page ("return") or an exception ("throw").  The
\* end of a first level's frame is the end of a system call: the totals are
\* brought up to date and the user runs.
EndFrame(outcome, load) ==
  /\ frames' = Front(frames)
  /\ IF Running.level = 1
       THEN control' = "user" /\ returned' = 0 /\ stats_' = TotalStats(levelStats')
       ELSE control' = outcome /\ returned' = load /\ UNCHANGED stats_

\* A client, or a running loader, calls lookupUpdate of the system.
Request(key) ==
  /\ control = "user"
  /\ Depth < MaxDepth
  /\ frames' = Append(frames, [level |-> 1, key |-> key])
  /\ control' = "ask"
  /\ UNCHANGED <<pages, levelStats, stats_, returned>>

\* getPage finds the page: nothing below is asked.
Hit ==
  /\ control = "ask"
  /\ Running.key \in Resident(Running.level)
  /\ levelStats' = [levelStats EXCEPT ![Running.level].requests = @ + 1,
                                      ![Running.level].hits = @ + 1]
  /\ EndFrame("return", pages[Running.level][Running.key])
  /\ UNCHANGED pages

\* A level's lookupUpdate ends before it has counted a hit or a miss: the key
\* cannot be copied on the way to the level, or the request is counted and
\* getPage throws, for a cached key too: LIRS prepares a hit in steps that may
\* throw.  No policy has changed a page by then.
AskFails ==
  /\ control = "ask"
  /\ \E counted \in {0, 1} :
       levelStats' = [levelStats EXCEPT ![Running.level].requests = @ + counted]
  /\ EndFrame("throw", 0)
  /\ UNCHANGED pages

\* getPage finds no page: the miss is counted, then the next level is asked,
\* or the user's loader behind the last one, if the key can be copied for it.
Miss ==
  /\ control = "ask"
  /\ Running.key \notin Resident(Running.level)
  /\ levelStats' = [levelStats EXCEPT ![Running.level].requests = @ + 1,
                                      ![Running.level].misses = @ + 1]
  /\ IF Running.level < LastLevel
       THEN /\ frames' = Append(frames, [level |-> Running.level + 1,
                                         key |-> Running.key])
            /\ control' = "ask"
       ELSE /\ control' \in {"user", "throw"}
            /\ UNCHANGED frames
  /\ UNCHANGED <<pages, stats_, returned>>

\* The user's loader ends, by return or by an exception.  The load is numbered
\* differently from those that the copies of the same key come from.
Load ==
  /\ control = "user"
  /\ frames # <<>>
  /\ \/ /\ control' = "return"
        /\ returned' = Min({load \in 1..(LastLevel + 1) :
                              \A level \in Level : pages[level][Running.key] # load})
     \/ control' = "throw" /\ UNCHANGED returned
  /\ UNCHANGED <<pages, levelStats, stats_, frames>>

\* Mutant of insert: the page evicted here is taken out of every level.
PagesAfterExclusive(level, victims) ==
  [l \in Level |-> [key \in Key |-> IF key = Running.key /\ l = level THEN returned
                                    ELSE IF key \in victims THEN 0 ELSE pages[l][key]]]

\* The levels' pages after one of them stores a copy for the running key.
PagesAfter(level, victims) ==
  [pages EXCEPT ![level] = [key \in Key |-> IF key = Running.key THEN returned
                                            ELSE IF key \in victims THEN 0 ELSE @[key]]]

Full(level) == Cardinality(Resident(level)) >= LevelSize[level]

\* insert stores a copy of the page, evicting one if the level is full.
Insert ==
  /\ control = "return"
  /\ LET level == Running.level
     IN /\ Running.key \notin Resident(level)
        /\ \E victims \in SUBSET Resident(level) :
             /\ Cardinality(victims) = IF Full(level) THEN 1 ELSE 0
             /\ pages' = PagesAfter(level, victims)
  /\ UNCHANGED levelStats
  /\ EndFrame("return", returned)

\* insert throws: the page cannot be copied, or the loader has itself cached
\* the key in this level.
InsertThrows ==
  /\ control = "return"
  /\ UNCHANGED <<pages, levelStats>>
  /\ EndFrame("throw", 0)

\* Mutants of a level's unwinding: it takes its miss back, or asks the loader
\* again instead.
UnwindUncounted ==
  /\ control = "throw"
  /\ levelStats' = [levelStats EXCEPT ![Running.level].misses = @ - 1]
  /\ UNCHANGED pages
  /\ EndFrame("throw", 0)

UnwindReloading ==
  /\ control = "throw"
  /\ control' = "user"
  /\ UNCHANGED <<pages, levelStats, stats_, frames, returned>>

\* An exception passes through the frame of a level.
Unwind ==
  /\ control = "throw"
  /\ UNCHANGED <<pages, levelStats>>
  /\ EndFrame("throw", 0)

Next ==
  \/ \E key \in Key : Request(key)
  \/ Hit
  \/ AskFails
  \/ Miss
  \/ Load
  \/ Insert
  \/ InsertThrows
  \/ Unwind

Spec == Init /\ [][Next]_vars

-----------------------------------------------------------------------------
(***************************************************************************)
(* Properties.                                                             *)
(***************************************************************************)

Stats == [requests : Nat, hits : Nat, misses : Nat]

TypeOK ==
  /\ pages \in [Level -> [Key -> 0..(LastLevel + 1)]]
  /\ levelStats \in [Level -> Stats]
  /\ stats_ \in Stats
  /\ frames \in Seq([level : Level, key : Key])
  /\ control \in {"user", "ask", "return", "throw"}
  /\ returned \in 0..(LastLevel + 1)

\* Whenever the user runs, in a loader too, no level has counted more hits and
\* misses than requests, nor more requests than the level above it missed; and
\* the activations of one system call ask level after level for one key.
LevelsAccounted ==
  /\ TypeOK
  /\ \A i \in DOMAIN frames : frames[i].level > 1 =>
       i > 1 /\ frames[i - 1] = [level |-> frames[i].level - 1, key |-> frames[i].key]
  /\ control = "user" =>
       \A level \in Level :
         /\ levelStats[level].hits + levelStats[level].misses <= levelStats[level].requests
         /\ level < LastLevel => levelStats[level + 1].requests <= levelStats[level].misses

\* A level's calls that wait for a page from below.
Waiting == IF control = "ask" THEN Front(frames) ELSE frames

WaitingAt(level) ==
  LET own == Among(Waiting, [level : {level}, key : Key])
  IN [i \in DOMAIN own |-> own[i].key]
=============================================================================
