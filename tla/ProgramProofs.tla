---------------------------- MODULE ProgramProofs ----------------------------
(***************************************************************************)
(* Theorems about the programs around the policies.                        *)
(*                                                                         *)
(* The cache hierarchy that the benchmark runner serves its requests with, *)
(* for every set of keys, every number and size of the levels the runner   *)
(* admits, every depth and number of calls, and calls that fail anywhere.  *)
(*                                                                         *)
(* The parser and the commands that work on files, for all token streams,  *)
(* arguments, patterns and strategies: the original benchmark, cases, the  *)
(* request patterns, the results of the studies, and the renaming of       *)
(* code_quality.py.                                                        *)
(***************************************************************************)
EXTENDS CacheSystemHistory, Commands, ListProofs

-----------------------------------------------------------------------------
(***************************************************************************)
(* The inductive invariant.                                                *)
(***************************************************************************)

\* Below a frame on the stack are those of the levels above it, called one by
\* the other for the same key.
Chained(stack) ==
  \A i \in DOMAIN stack : \A level \in 1..stack[i].level :
    LET j == i - stack[i].level + level
    IN  j \in DOMAIN stack /\ stack[j] = [level |-> level, key |-> stack[i].key]

\* Below a system call made during another is the frame whose loader made it.
Nested(stack) ==
  \A i \in DOMAIN stack : i > 1 /\ stack[i].level = 1 => stack[i - 1].level = LastLevel

\* Who may run, and what it has in hand.
ControlInv ==
  /\ Chained(frames)
  /\ Nested(frames)
  /\ control # "user" => frames # <<>>
  /\ control = "user" /\ frames # <<>> => Running.level = LastLevel
  /\ control = "return" => returned # 0

\* A call that has reached a level but is neither counted there nor lost yet.
Uncounted(level) == IF control = "ask" /\ Running.level = level THEN 1 ELSE 0

\* The calls of a level that ended in a hit, a miss or nothing.
Settled(level) == levelStats[level].hits + levelStats[level].misses + lost[level]

CountsInv ==
  /\ lost \in [Stage -> Nat]
  /\ \A level \in Level :
       /\ levelStats[level].hits + levelStats[level].misses <= levelStats[level].requests
       /\ levelStats[level].requests <= Settled(level)
       /\ level < LastLevel =>
            levelStats[level].misses = Settled(level + 1) + Uncounted(level + 1)
  /\ requestCount = Settled(1) + Uncounted(1)
  /\ memoryLoadCount \in Nat
  /\ levelStats[LastLevel].misses = memoryLoadCount + lost[LastLevel + 1]
  /\ (\A level \in Level : lost[level] = 0) =>
       SumOfHits(levelStats) + levelStats[LastLevel].misses
         + (IF control = "ask" THEN 1 ELSE 0) = requestCount
  /\ frames = <<>> => stats_ = TotalStats(levelStats)

\* The levels keep to their sizes, and the calls to the depth.
RoomInv ==
  /\ \A level \in Level : /\ IsFiniteSet(Resident(level))
                          /\ Cardinality(Resident(level)) <= LevelSize[level]
  /\ Depth <= MaxDepth

\* A key with two system calls on the stack has been noted.
CallsNoted ==
  \A i, j \in DOMAIN frames :
    i # j /\ frames[i] = frames[j] /\ frames[i].level = 1 => frames[i].key \in reentered

\* Unless its key has been asked for again, a frame whose getPage is behind it
\* works for a page that its level does not have.
Clear(i) ==
  \/ frames[i].key \in reentered
  \/ frames[i].key \notin Resident(frames[i].level)

FramesClear ==
  \A i \in DOMAIN frames : (control = "ask" /\ i = Len(frames)) \/ Clear(i)

\* The page that a level hands up is the one that every level has.
ReturnAgrees ==
  control = "return" =>
    \/ Running.key \in reentered
    \/ \A level \in Level : pages[level][Running.key] \in {0, returned}

CopiesInv == CallsNoted /\ FramesClear /\ ReturnAgrees /\ CopiesAgree

Inv ==
  /\ TypeOK
  /\ ControlInv
  /\ CountsInv
  /\ RoomInv
  /\ CopiesInv

-----------------------------------------------------------------------------
(***************************************************************************)
(* The levels and the stack of frames.                                     *)
(***************************************************************************)

Frame == [level : Level, key : Key]

\* There is a first level and a last, and each has a size.
LEMMA LevelFacts ==
  /\ LastLevel \in Nat \ {0} /\ 1 \in Level /\ LastLevel \in Level
  /\ Level = 1..LastLevel
  /\ IsFiniteSet(Level) /\ Cardinality(Level) = LastLevel
  /\ \A level \in Level : LevelSize[level] \in Nat \ {0}
<1>1. LastLevel \in Nat \ {0} /\ Level = 1..LastLevel
  BY LevelsAssumption, EmptySeq DEF Level, LastLevel
<1>2. IsFiniteSet(Level) /\ Cardinality(Level) = LastLevel
  BY <1>1, FS_Interval
<1>3. \A level \in Level : LevelSize[level] \in Nat \ {0}
  BY LevelsAssumption DEF Level
<1>. QED
  BY <1>1, <1>2, <1>3

\* A frame's level is one of the levels.
LEMMA FrameFacts ==
  ASSUME NEW frame \in Frame
  PROVE  /\ frame.level \in Level /\ frame.level \in Nat \ {0} /\ frame.level <= LastLevel
         /\ frame.key \in Key
         /\ frame = [level |-> frame.level, key |-> frame.key]
<1>1. frame.level \in Level /\ frame.key \in Key /\ frame = [level |-> frame.level, key |-> frame.key]
  BY DEF Frame
<1>. QED
  BY <1>1, LevelFacts

\* A frame put on the stack is its last.
LEMMA FrontOfAppend ==
  ASSUME NEW S, NEW s \in Seq(S), NEW item \in S
  PROVE  /\ Append(s, item) # <<>>
         /\ Front(Append(s, item)) = s
         /\ Last(Append(s, item)) = item
<1>1. PICK longer \in Seq(S) : longer = Append(s, item)
  BY AppendProperties
<1>2. /\ Len(s) \in Nat /\ Len(longer) = Len(s) + 1 /\ longer # <<>>
      /\ longer[Len(s) + 1] = item /\ \A i \in 1..Len(s) : longer[i] = s[i]
  BY <1>1
<1>3. PICK front \in Seq(S) : front = Front(longer) /\ Len(front) = Len(s)
                             /\ \A i \in 1..Len(s) : front[i] = longer[i]
  BY <1>2, FrontFacts
<1>4. front = s
  BY <1>2, <1>3, SeqEqual
<1>. QED
  BY <1>1, <1>2, <1>3, <1>4 DEF Last

\* The stack without its last frame.
LEMMA StackFacts ==
  ASSUME NEW stack \in Seq(Frame), stack # <<>>
  PROVE  /\ Front(stack) \in Seq(Frame)
         /\ Len(stack) \in Nat \ {0}
         /\ Len(Front(stack)) = Len(stack) - 1
         /\ Last(stack) \in Frame
         /\ Last(stack) = stack[Len(stack)]
         /\ Last(stack).level \in Level /\ Last(stack).key \in Key
         /\ Last(stack) = [level |-> Last(stack).level, key |-> Last(stack).key]
         /\ \A i \in 1..(Len(stack) - 1) : Front(stack)[i] = stack[i]
         /\ DOMAIN stack = 1..Len(stack) /\ DOMAIN Front(stack) = 1..(Len(stack) - 1)
<1>1. /\ Front(stack) \in Seq(Frame)
      /\ Len(Front(stack)) = Len(stack) - 1
      /\ Last(stack) \in Frame
      /\ \A i \in 1..(Len(stack) - 1) : Front(stack)[i] = stack[i]
  BY FrontFacts
<1>2. Len(stack) \in Nat \ {0} /\ DOMAIN stack = 1..Len(stack)
  BY EmptySeq
<1>3. DOMAIN Front(stack) = 1..(Len(stack) - 1)
  BY <1>1
<1>4. Last(stack) = stack[Len(stack)]
  BY DEF Last
<1>5. /\ Last(stack).level \in Level /\ Last(stack).key \in Key
      /\ Last(stack) = [level |-> Last(stack).level, key |-> Last(stack).key]
  BY <1>1 DEF Frame
<1>. QED
  BY <1>1, <1>2, <1>3, <1>4, <1>5

\* The end of a frame leaves the frames of its caller.
LEMMA ChainedFront ==
  ASSUME NEW stack \in Seq(Frame), stack # <<>>, Chained(stack)
  PROVE  /\ Chained(Front(stack))
         /\ Last(stack).level # 1 =>
              /\ Front(stack) # <<>>
              /\ Last(Front(stack)) = [level |-> Last(stack).level - 1, key |-> Last(stack).key]
<1>1. PICK n \in Nat \ {0} : n = Len(stack)
  BY StackFacts
<1>2. PICK front \in Seq(Frame) : front = Front(stack)
  BY StackFacts
<1>3. PICK last \in Frame : last = Last(stack)
  BY StackFacts
<1>4. /\ Len(front) = n - 1 /\ last = stack[n] /\ DOMAIN stack = 1..n
      /\ DOMAIN front = 1..(n - 1)
      /\ \A i \in 1..(n - 1) : front[i] = stack[i]
  BY <1>1, <1>2, <1>3, StackFacts
<1>5. \A i \in 1..n : stack[i].level \in Nat \ {0}
  <2>1. \A i \in 1..n : stack[i] \in Frame
    BY <1>1
  <2>. QED
    BY <2>1, FrameFacts
<1>6. Chained(front)
  <2>1. SUFFICES ASSUME NEW i \in 1..(n - 1), NEW level \in 1..front[i].level,
                        NEW j, j = i - front[i].level + level
                 PROVE  j \in 1..(n - 1) /\ front[j] = [level |-> level, key |-> front[i].key]
    BY <1>4 DEF Chained
  <2>2. i \in 1..n /\ front[i] = stack[i]
    BY <1>1, <1>4
  <2>3. j \in 1..n /\ stack[j] = [level |-> level, key |-> stack[i].key]
    BY <1>4, <2>1, <2>2 DEF Chained
  <2>4. j <= i
    BY <1>5, <2>1, <2>2
  <2>. QED
    BY <1>1, <1>4, <2>2, <2>3, <2>4
<1>7. ASSUME last.level # 1
      PROVE  /\ front # <<>>
             /\ Last(front) = [level |-> last.level - 1, key |-> last.key]
  <2>1. n \in 1..n /\ last.level - 1 \in 1..last.level /\ last.level \in Nat
    BY <1>1, <1>4, <1>5, <1>7
  <2>2. n - last.level + (last.level - 1) = n - 1
    BY <1>1, <2>1
  <2>3. n - 1 \in 1..n /\ stack[n - 1] = [level |-> last.level - 1, key |-> last.key]
    BY <1>4, <2>1, <2>2 DEF Chained
  <2>4. n - 1 # 0 /\ front # <<>>
    BY <1>1, <1>4, <2>3
  <2>. QED
    BY <1>1, <1>4, <2>3, <2>4 DEF Last
<1>. QED
  BY <1>2, <1>3, <1>6, <1>7

\* A system call, and the call of a level by the one above it.
LEMMA ChainedAppend ==
  ASSUME NEW stack \in Seq(Frame), Chained(stack), NEW frame \in Frame,
         \/ frame.level = 1
         \/ /\ stack # <<>>
            /\ frame.level = Last(stack).level + 1
            /\ frame.key = Last(stack).key
  PROVE  Chained(Append(stack, frame))
<1>1. PICK n \in Nat : n = Len(stack)
  OBVIOUS
<1>2. PICK longer \in Seq(Frame) : longer = Append(stack, frame)
  BY AppendProperties
<1>3. /\ Len(longer) = n + 1 /\ DOMAIN longer = 1..(n + 1) /\ DOMAIN stack = 1..n
      /\ longer[n + 1] = frame /\ \A i \in 1..n : longer[i] = stack[i]
  BY <1>1, <1>2
<1>4. \A i \in 1..n : stack[i].level \in Nat \ {0} /\ stack[i] \in Frame
  <2>1. \A i \in 1..n : stack[i] \in Frame
    BY <1>1
  <2>. QED
    BY <2>1, FrameFacts
<1>5. frame.level \in Nat \ {0} /\ frame = [level |-> frame.level, key |-> frame.key]
  BY FrameFacts
<1>6. ASSUME NEW i \in 1..n, NEW level \in 1..stack[i].level
      PROVE  LET j == i - stack[i].level + level
             IN  j \in 1..n /\ longer[j] = [level |-> level, key |-> stack[i].key]
  <2>1. PICK j : j = i - stack[i].level + level
    OBVIOUS
  <2>2. j \in 1..n /\ stack[j] = [level |-> level, key |-> stack[i].key]
    BY <1>3, <2>1 DEF Chained
  <2>. QED
    BY <1>3, <2>1, <2>2
<1>7. ASSUME NEW level \in 1..frame.level
      PROVE  LET j == (n + 1) - frame.level + level
             IN  j \in 1..(n + 1) /\ longer[j] = [level |-> level, key |-> frame.key]
  <2>1. PICK j : j = (n + 1) - frame.level + level
    OBVIOUS
  <2>2. CASE level = frame.level
    <3>1. j = n + 1
      BY <1>1, <1>5, <2>1, <2>2
    <3>. QED
      BY <1>1, <1>3, <1>5, <2>1, <2>2, <3>1
  <2>3. CASE level # frame.level
    <3>1. stack # <<>> /\ frame.level = Last(stack).level + 1 /\ frame.key = Last(stack).key
      BY <1>5, <2>3
    <3>2. n \in 1..n /\ Last(stack) = stack[n]
      BY <1>1, <3>1, StackFacts
    <3>3. /\ level \in 1..stack[n].level
          /\ j = n - stack[n].level + level
      BY <1>1, <1>4, <1>5, <2>1, <2>3, <3>1, <3>2
    <3>. QED
      BY <1>1, <1>6, <2>1, <3>1, <3>2, <3>3
  <2>. QED
    BY <2>2, <2>3
<1>8. Chained(longer)
  <2>1. SUFFICES ASSUME NEW i \in 1..(n + 1), NEW level \in 1..longer[i].level
                 PROVE  LET j == i - longer[i].level + level
                        IN  j \in 1..(n + 1) /\ longer[j] = [level |-> level, key |-> longer[i].key]
    BY <1>3 DEF Chained
  <2>2. CASE i \in 1..n
    BY <1>1, <1>3, <1>6, <2>2
  <2>3. CASE i = n + 1
    BY <1>1, <1>3, <1>7, <2>3
  <2>. QED
    BY <1>1, <2>2, <2>3
<1>. QED
  BY <1>2, <1>8

\* The same for the system calls made by loaders.
LEMMA NestedFront ==
  ASSUME NEW stack \in Seq(Frame), stack # <<>>, Nested(stack)
  PROVE  /\ Nested(Front(stack))
         /\ Last(stack).level = 1 /\ Front(stack) # <<>> =>
              Last(Front(stack)).level = LastLevel
<1>1. PICK n \in Nat \ {0} : n = Len(stack)
  BY StackFacts
<1>2. PICK front \in Seq(Frame) : front = Front(stack)
  BY StackFacts
<1>3. /\ Len(front) = n - 1 /\ Last(stack) = stack[n] /\ DOMAIN stack = 1..n
      /\ DOMAIN front = 1..(n - 1)
      /\ \A i \in 1..(n - 1) : front[i] = stack[i]
  BY <1>1, <1>2, StackFacts
<1>4. Nested(front)
  <2>1. ASSUME NEW i \in 1..(n - 1), i > 1, front[i].level = 1
        PROVE  front[i - 1].level = LastLevel
    <3>1. i \in 1..n /\ i - 1 \in 1..(n - 1) /\ front[i] = stack[i] /\ front[i - 1] = stack[i - 1]
      BY <1>1, <1>3, <2>1
    <3>. QED
      BY <1>3, <2>1, <3>1 DEF Nested
  <2>. QED
    BY <1>3, <2>1 DEF Nested
<1>5. ASSUME Last(stack).level = 1, front # <<>>
      PROVE  Last(front).level = LastLevel
  <2>1. n - 1 \in 1..(n - 1) /\ Last(front) = front[n - 1] /\ n > 1 /\ n \in 1..n
    BY <1>1, <1>2, <1>3, <1>5, StackFacts
  <2>2. front[n - 1] = stack[n - 1]
    BY <1>3, <2>1
  <2>. QED
    BY <1>3, <1>5, <2>1, <2>2 DEF Nested
<1>. QED
  BY <1>2, <1>4, <1>5

\* A frame above a stack whose last one may call it.
LEMMA NestedAppend ==
  ASSUME NEW stack \in Seq(Frame), Nested(stack), NEW frame \in Frame,
         frame.level = 1 /\ stack # <<>> => Last(stack).level = LastLevel
  PROVE  Nested(Append(stack, frame))
<1>1. PICK n \in Nat : n = Len(stack)
  OBVIOUS
<1>2. PICK longer \in Seq(Frame) : longer = Append(stack, frame)
  BY AppendProperties
<1>3. /\ DOMAIN longer = 1..(n + 1) /\ DOMAIN stack = 1..n
      /\ longer[n + 1] = frame /\ \A i \in 1..n : longer[i] = stack[i]
  BY <1>1, <1>2
<1>4. ASSUME NEW i \in 1..(n + 1), i > 1, longer[i].level = 1
      PROVE  longer[i - 1].level = LastLevel
  <2>1. i - 1 \in 1..n /\ longer[i - 1] = stack[i - 1]
    BY <1>1, <1>3, <1>4
  <2>2. CASE i \in 1..n
    BY <1>3, <1>4, <2>1, <2>2 DEF Nested
  <2>3. CASE i = n + 1
    <3>1. stack # <<>>
      BY <1>1, <2>1
    <3>2. Last(stack) = stack[i - 1]
      BY <1>1, <2>3, <3>1, StackFacts
    <3>. QED
      BY <1>1, <1>3, <1>4, <2>1, <2>3, <3>1, <3>2
  <2>. QED
    BY <1>1, <2>2, <2>3
<1>. QED
  BY <1>2, <1>3, <1>4 DEF Nested

-----------------------------------------------------------------------------
(***************************************************************************)
(* What the invariant says of the running frame, and the end of a frame.   *)
(***************************************************************************)

\* The running frame.
LEMMA RunningFacts ==
  ASSUME TypeOK, ControlInv, frames # <<>>
  PROVE  /\ frames \in Seq(Frame) /\ Front(frames) \in Seq(Frame)
         /\ Running \in Frame /\ Running.level \in Level /\ Running.key \in Key
         /\ Running.level \in Nat \ {0} /\ Running.level <= LastLevel
         /\ Chained(Front(frames)) /\ Nested(Front(frames))
         /\ Running.level # 1 =>
              /\ Front(frames) # <<>>
              /\ Last(Front(frames)) = [level |-> Running.level - 1, key |-> Running.key]
         /\ Running.level = 1 /\ Front(frames) # <<>> => Last(Front(frames)).level = LastLevel
<1>1. frames \in Seq(Frame)
  BY DEF TypeOK, Frame
<1>2. Running \in Frame /\ Front(frames) \in Seq(Frame)
  BY <1>1, StackFacts DEF Running
<1>. QED
  BY <1>1, <1>2, FrameFacts, ChainedFront, NestedFront DEF Running, ControlInv

\* The system's own counters.
LEMMA TotalStatsType ==
  ASSUME NEW ofLevel \in [Level -> Stats]
  PROVE  /\ TotalStats(ofLevel) \in Stats
         /\ SumFunction([level \in Level |-> ofLevel[level].hits]) \in Nat
<1>1. /\ ofLevel[1].requests \in Nat /\ ofLevel[LastLevel].misses \in Nat
      /\ \A level \in Level : ofLevel[level].hits \in Nat
  BY LevelFacts DEF Stats
<1>2. [level \in Level |-> ofLevel[level].hits] \in [Level -> Nat]
  BY <1>1
<1>3. SumFunction([level \in Level |-> ofLevel[level].hits]) \in Nat
  BY <1>2, SumOfNaturals, LevelFacts
<1>. QED
  BY <1>1, <1>3 DEF TotalStats, Stats

\* A frame that ends gives control to the frame that called it, or to the user.
LEMMA EndFrameFacts ==
  ASSUME TypeOK, ControlInv, control # "user", levelStats' \in [Level -> Stats],
         NEW outcome \in {"return", "throw"}, NEW load \in 0..(LastLevel + 1),
         outcome = "return" => load # 0, EndFrame(outcome, load)
  PROVE  /\ frames' = Front(frames) /\ frames' \in Seq(Frame)
         /\ control' \in {"user", "return", "throw"}
         /\ returned' \in 0..(LastLevel + 1)
         /\ stats_' \in Stats
         /\ ControlInv'
         /\ frames' = <<>> => stats_' = TotalStats(levelStats')
         /\ control' = "return" => Last(frames').key = Running.key /\ returned' = load
<1>1. frames # <<>>
  BY DEF ControlInv
<1>2. /\ Front(frames) \in Seq(Frame)
      /\ Chained(Front(frames)) /\ Nested(Front(frames))
      /\ Running.level # 1 =>
           /\ Front(frames) # <<>>
           /\ Last(Front(frames)) = [level |-> Running.level - 1, key |-> Running.key]
      /\ Running.level = 1 /\ Front(frames) # <<>> => Last(Front(frames)).level = LastLevel
  BY <1>1, RunningFacts
<1>3. frames' = Front(frames)
  BY DEF EndFrame
<1>4. CASE Running.level = 1
  <2>1. control' = "user" /\ returned' = 0 /\ stats_' = TotalStats(levelStats')
    BY <1>4 DEF EndFrame
  <2>2. ControlInv'
    BY <1>2, <1>3, <1>4, <2>1 DEF ControlInv, Running
  <2>3. stats_' \in Stats
    BY <2>1, TotalStatsType
  <2>. QED
    BY <1>2, <1>3, <2>1, <2>2, <2>3, LevelFacts
<1>5. CASE Running.level # 1
  <2>1. control' = outcome /\ returned' = load /\ stats_' = stats_
    BY <1>5 DEF EndFrame
  <2>2. ControlInv'
    BY <1>2, <1>3, <1>5, <2>1 DEF ControlInv, Running
  <2>3. stats_' \in Stats
    BY <2>1 DEF TypeOK
  <2>. QED
    BY <1>2, <1>3, <1>5, <2>1, <2>2, <2>3
<1>. QED
  BY <1>4, <1>5

\* A hit counts for its level only.
LEMMA HitCounted ==
  ASSUME NEW ofLevel \in [Level -> Stats], NEW level \in Level, NEW after,
         after = [ofLevel EXCEPT ![level].requests = @ + 1, ![level].hits = @ + 1]
  PROVE  /\ after \in [Level -> Stats]
         /\ \A l \in Level :
              /\ after[l].requests = ofLevel[l].requests + (IF l = level THEN 1 ELSE 0)
              /\ after[l].hits = ofLevel[l].hits + (IF l = level THEN 1 ELSE 0)
              /\ after[l].misses = ofLevel[l].misses
<1>1. \A l \in Level : /\ ofLevel[l].requests \in Nat
                       /\ ofLevel[l].hits \in Nat
                       /\ ofLevel[l].misses \in Nat
  BY DEF Stats
<1>2. PICK new \in Stats : new = [requests |-> ofLevel[level].requests + 1,
                                  hits |-> ofLevel[level].hits + 1,
                                  misses |-> ofLevel[level].misses]
  <2>1. [requests |-> ofLevel[level].requests + 1,
         hits |-> ofLevel[level].hits + 1,
         misses |-> ofLevel[level].misses] \in Stats
    BY <1>1 DEF Stats
  <2>. QED
    BY <2>1
<1>3. after[level] = new /\ \A l \in Level \ {level} : after[l] = ofLevel[l]
  BY <1>2 DEF Stats
<1>4. after = [l \in Level |-> after[l]]
  OBVIOUS
<1>5. after \in [Level -> Stats]
  <2>1. \A l \in Level : after[l] \in Stats
    BY <1>3
  <2>. QED
    BY <1>4, <2>1
<1>6. /\ new.requests = ofLevel[level].requests + 1
      /\ new.hits = ofLevel[level].hits + 1
      /\ new.misses = ofLevel[level].misses
  BY <1>2
<1>. QED
  BY <1>1, <1>3, <1>5, <1>6

\* A miss counts for its level only.
LEMMA MissCounted ==
  ASSUME NEW ofLevel \in [Level -> Stats], NEW level \in Level, NEW after,
         after = [ofLevel EXCEPT ![level].requests = @ + 1, ![level].misses = @ + 1]
  PROVE  /\ after \in [Level -> Stats]
         /\ \A l \in Level :
              /\ after[l].requests = ofLevel[l].requests + (IF l = level THEN 1 ELSE 0)
              /\ after[l].hits = ofLevel[l].hits
              /\ after[l].misses = ofLevel[l].misses + (IF l = level THEN 1 ELSE 0)
<1>1. \A l \in Level : /\ ofLevel[l].requests \in Nat
                       /\ ofLevel[l].hits \in Nat
                       /\ ofLevel[l].misses \in Nat
  BY DEF Stats
<1>2. PICK new \in Stats : new = [requests |-> ofLevel[level].requests + 1,
                                  hits |-> ofLevel[level].hits,
                                  misses |-> ofLevel[level].misses + 1]
  <2>1. [requests |-> ofLevel[level].requests + 1,
         hits |-> ofLevel[level].hits,
         misses |-> ofLevel[level].misses + 1] \in Stats
    BY <1>1 DEF Stats
  <2>. QED
    BY <2>1
<1>3. after[level] = new /\ \A l \in Level \ {level} : after[l] = ofLevel[l]
  BY <1>2 DEF Stats
<1>4. after = [l \in Level |-> after[l]]
  OBVIOUS
<1>5. after \in [Level -> Stats]
  <2>1. \A l \in Level : after[l] \in Stats
    BY <1>3
  <2>. QED
    BY <1>4, <2>1
<1>6. /\ new.requests = ofLevel[level].requests + 1
      /\ new.hits = ofLevel[level].hits
      /\ new.misses = ofLevel[level].misses + 1
  BY <1>2
<1>. QED
  BY <1>1, <1>3, <1>5, <1>6

\* A call that fails counts as a request of its level, or not at all.
LEMMA FailureCounted ==
  ASSUME NEW ofLevel \in [Level -> Stats], NEW level \in Level, NEW after, NEW counted \in {0, 1},
         after = [ofLevel EXCEPT ![level].requests = @ + counted]
  PROVE  /\ after \in [Level -> Stats]
         /\ \A l \in Level :
              /\ after[l].requests = ofLevel[l].requests + (IF l = level THEN counted ELSE 0)
              /\ after[l].hits = ofLevel[l].hits
              /\ after[l].misses = ofLevel[l].misses
<1>1. \A l \in Level : /\ ofLevel[l].requests \in Nat
                       /\ ofLevel[l].hits \in Nat
                       /\ ofLevel[l].misses \in Nat
  BY DEF Stats
<1>2. PICK new \in Stats : new = [requests |-> ofLevel[level].requests + counted,
                                  hits |-> ofLevel[level].hits,
                                  misses |-> ofLevel[level].misses]
  <2>1. [requests |-> ofLevel[level].requests + counted,
         hits |-> ofLevel[level].hits,
         misses |-> ofLevel[level].misses] \in Stats
    BY <1>1 DEF Stats
  <2>. QED
    BY <2>1
<1>3. after[level] = new /\ \A l \in Level \ {level} : after[l] = ofLevel[l]
  BY <1>2 DEF Stats
<1>4. after = [l \in Level |-> after[l]]
  OBVIOUS
<1>5. after \in [Level -> Stats]
  <2>1. \A l \in Level : after[l] \in Stats
    BY <1>3
  <2>. QED
    BY <1>4, <2>1
<1>6. /\ new.requests = ofLevel[level].requests + counted
      /\ new.hits = ofLevel[level].hits
      /\ new.misses = ofLevel[level].misses
  BY <1>2
<1>. QED
  BY <1>1, <1>3, <1>5, <1>6

-----------------------------------------------------------------------------
(***************************************************************************)
(* Types and control, action by action.                                    *)
(***************************************************************************)

\* A system call, the stack and the types.
LEMMA RequestControl ==
  ASSUME TypeOK, ControlInv, NEW key \in Key, Request(key)
  PROVE  /\ TypeOK' /\ ControlInv'
         /\ frames \in Seq(Frame) /\ frames' \in Seq(Frame) /\ frames' # <<>>
         /\ Front(frames') = frames /\ Last(frames') = [level |-> 1, key |-> key]
<1>1. PICK frame \in Frame : frame = [level |-> 1, key |-> key]
  BY LevelFacts DEF Frame
<1>2. frames \in Seq(Frame) /\ frames' = Append(frames, frame) /\ control = "user"
  BY <1>1 DEF TypeOK, Frame, Request
<1>3. frames' \in Seq(Frame) /\ frames' # <<>> /\ Front(frames') = frames /\ Last(frames') = frame
  BY <1>2, AppendProperties, FrontOfAppend
<1>4. Chained(frames')
  BY <1>1, <1>2, ChainedAppend DEF ControlInv
<1>5. Nested(frames')
  BY <1>1, <1>2, NestedAppend DEF ControlInv, Running
<1>6. /\ control' = "ask"
      /\ UNCHANGED <<pages, levelStats, stats_, returned>>
  BY DEF Request
<1>. QED
  BY <1>1, <1>2, <1>3, <1>4, <1>5, <1>6 DEF TypeOK, ControlInv, Frame

\* A hit.
LEMMA HitControl ==
  ASSUME TypeOK, ControlInv, Hit
  PROVE  /\ TypeOK' /\ ControlInv'
         /\ frames' = Front(frames) /\ control' # "ask"
         /\ frames' = <<>> => stats_' = TotalStats(levelStats')
         /\ control' = "return" => /\ Last(frames').key = Running.key
                                   /\ returned' = pages[Running.level][Running.key]
<1>1. control = "ask" /\ frames # <<>>
  BY DEF Hit, ControlInv
<1>2. Running.level \in Level /\ Running.key \in Key
  BY <1>1, RunningFacts
<1>3. levelStats' \in [Level -> Stats]
  BY <1>2, HitCounted DEF Hit, TypeOK
<1>4. PICK load \in 0..(LastLevel + 1) : load = pages[Running.level][Running.key]
  BY <1>2 DEF TypeOK
<1>5. load # 0
  BY <1>4 DEF Hit, Resident
<1>6. EndFrame("return", load) /\ UNCHANGED pages
  BY <1>4 DEF Hit
<1>7. /\ frames' = Front(frames) /\ frames' \in Seq(Frame)
      /\ control' \in {"user", "return", "throw"}
      /\ returned' \in 0..(LastLevel + 1)
      /\ stats_' \in Stats
      /\ ControlInv'
      /\ frames' = <<>> => stats_' = TotalStats(levelStats')
      /\ control' = "return" => Last(frames').key = Running.key /\ returned' = load
  BY <1>1, <1>3, <1>5, <1>6, EndFrameFacts
<1>8. TypeOK'
  BY <1>3, <1>6, <1>7 DEF TypeOK, Frame
<1>. QED
  BY <1>4, <1>7, <1>8

\* A miss: the level below is called, or the loader.
LEMMA MissControl ==
  ASSUME TypeOK, ControlInv, Miss
  PROVE  /\ TypeOK' /\ ControlInv'
         /\ frames # <<>> /\ frames' # <<>>
         /\ Running.level < LastLevel =>
              /\ control' = "ask"
              /\ Front(frames') = frames
              /\ Last(frames') = [level |-> Running.level + 1, key |-> Running.key]
         /\ Running.level = LastLevel => control' \in {"user", "throw"} /\ frames' = frames
<1>1. control = "ask" /\ frames # <<>>
  BY DEF Miss, ControlInv
<1>2. /\ frames \in Seq(Frame) /\ Running \in Frame
      /\ Running.level \in Level /\ Running.key \in Key
      /\ Running.level \in Nat \ {0} /\ Running.level <= LastLevel
  BY <1>1, RunningFacts
<1>3. levelStats' \in [Level -> Stats]
  BY <1>2, MissCounted DEF Miss, TypeOK
<1>4. UNCHANGED <<pages, stats_, returned>>
  BY DEF Miss
<1>5. CASE Running.level < LastLevel
  <2>1. PICK frame \in Frame : frame = [level |-> Running.level + 1, key |-> Running.key]
    <3>1. Running.level + 1 \in Level
      BY <1>2, <1>5, LevelFacts
    <3>2. [level |-> Running.level + 1, key |-> Running.key] \in Frame
      BY <1>2, <3>1 DEF Frame
    <3>. QED
      BY <3>2
  <2>2. frames' = Append(frames, frame) /\ control' = "ask"
    BY <1>5, <2>1 DEF Miss
  <2>3. frames' \in Seq(Frame) /\ frames' # <<>> /\ Front(frames') = frames /\ Last(frames') = frame
    BY <1>2, <2>2, AppendProperties, FrontOfAppend
  <2>4. Chained(frames')
    BY <1>1, <1>2, <2>1, <2>2, ChainedAppend DEF ControlInv, Running
  <2>5. Nested(frames')
    <3>1. frame.level # 1
      BY <1>2, <2>1
    <3>. QED
      BY <1>2, <2>2, <3>1, NestedAppend DEF ControlInv
  <2>6. ControlInv'
    BY <2>2, <2>3, <2>4, <2>5 DEF ControlInv
  <2>7. TypeOK'
    BY <1>3, <1>4, <2>2, <2>3 DEF TypeOK, Frame
  <2>8. Running.level # LastLevel
    BY <1>2, <1>5, LevelFacts
  <2>. QED
    BY <1>1, <1>5, <2>1, <2>2, <2>3, <2>6, <2>7, <2>8
<1>6. CASE Running.level = LastLevel
  <2>1. frames' = frames /\ control' \in {"user", "throw"} /\ Running' = Running
    BY <1>2, <1>6, LevelFacts DEF Miss, Running
  <2>2. TypeOK'
    BY <1>2, <1>3, <1>4, <2>1 DEF TypeOK, Frame
  <2>3. Chained(frames') /\ Nested(frames')
    BY <2>1 DEF ControlInv
  <2>4. ControlInv'
    BY <1>1, <1>6, <2>1, <2>3 DEF ControlInv
  <2>5. ~(Running.level < LastLevel)
    BY <1>2, <1>6
  <2>. QED
    BY <1>1, <2>1, <2>2, <2>4, <2>5
<1>. QED
  BY <1>2, <1>5, <1>6, LevelFacts

\* There are fewer levels than numbers.
LEMMA LevelsArePigeonholes ==
  ASSUME NEW f \in [1..(LastLevel + 1) -> Level]
  PROVE  \E x, y \in 1..(LastLevel + 1) : x # y /\ f[x] = f[y]
<1>1. LastLevel + 1 \in Int /\ ~ (1 > LastLevel + 1) /\ LastLevel + 1 - 1 + 1 = LastLevel + 1
  BY LevelFacts
<1>2. IsFiniteSet(1..(LastLevel + 1)) /\ Cardinality(1..(LastLevel + 1)) = LastLevel + 1
  BY <1>1, FS_Interval
<1>3. Cardinality(Level) < Cardinality(1..(LastLevel + 1)) /\ IsFiniteSet(Level)
  BY <1>2, LevelFacts
<1>. QED
  BY <1>2, <1>3, FS_PigeonHole

\* So a load has a number of its own.
LEMMA FreshLoad ==
  ASSUME TypeOK, NEW key \in Key
  PROVE  LET unused == {load \in 1..(LastLevel + 1) : \A level \in Level : pages[level][key] # load}
         IN  Min(unused) \in unused
<1>. DEFINE unused == {load \in 1..(LastLevel + 1) : \A level \in Level : pages[level][key] # load}
<1>1. unused # {}
  <2>. SUFFICES ASSUME \A load \in 1..(LastLevel + 1) : \E level \in Level : pages[level][key] = load
                PROVE  FALSE
    OBVIOUS
  <2>. DEFINE f == [load \in 1..(LastLevel + 1) |-> CHOOSE level \in Level : pages[level][key] = load]
  <2>1. f \in [1..(LastLevel + 1) -> Level]
    OBVIOUS
  <2>2. \A load \in 1..(LastLevel + 1) : pages[f[load]][key] = load
    OBVIOUS
  <2>. HIDE DEF f
  <2>3. PICK x \in 1..(LastLevel + 1), y \in 1..(LastLevel + 1) : x # y /\ f[x] = f[y]
    BY <2>1, LevelsArePigeonholes
  <2>4. pages[f[x]][key] = x /\ pages[f[y]][key] = y
    BY <2>2
  <2>. QED
    BY <2>3, <2>4
<1>2. unused \in SUBSET Nat
  BY LevelFacts
<1>. QED
  BY <1>1, <1>2, Smallest

\* The end of a loader.
LEMMA LoadControl ==
  ASSUME TypeOK, ControlInv, Load
  PROVE  /\ TypeOK' /\ ControlInv'
         /\ control' # "ask"
<1>1. frames # <<>>
  BY DEF Load
<1>2. Running.key \in Key
  BY <1>1, RunningFacts
<1>3. UNCHANGED <<pages, levelStats, stats_, frames>>
  BY DEF Load
<1>4. \/ control' = "return" /\ returned' \in 1..(LastLevel + 1)
      \/ control' = "throw" /\ returned' = returned
  BY <1>2, FreshLoad DEF Load
<1>5. Running' = Running /\ control' # "ask" /\ control' # "user"
  BY <1>3, <1>4 DEF Running
<1>6. LastLevel + 1 \in Nat /\ 1..(LastLevel + 1) \subseteq 0..(LastLevel + 1)
      /\ 0 \notin 1..(LastLevel + 1)
  BY LevelFacts
<1>7. TypeOK'
  BY <1>3, <1>4, <1>6 DEF TypeOK
<1>8. ControlInv'
  BY <1>1, <1>3, <1>4, <1>5, <1>6 DEF ControlInv
<1>. QED
  BY <1>5, <1>7, <1>8

\* What Insert stores, and in place of what.
LEMMA InsertPages ==
  ASSUME TypeOK, ControlInv, Insert
  PROVE  /\ frames # <<>> /\ Running.level \in Level /\ Running.key \in Key
         /\ returned \in 1..(LastLevel + 1)
         /\ Running.key \notin Resident(Running.level)
         /\ \E victims \in SUBSET Resident(Running.level) :
              /\ Cardinality(victims) = IF Full(Running.level) THEN 1 ELSE 0
              /\ pages' \in [Level -> [Key -> 0..(LastLevel + 1)]]
              /\ \A level \in Level, key \in Key :
                   pages'[level][key] =
                     IF level # Running.level THEN pages[level][key]
                     ELSE IF key = Running.key THEN returned
                     ELSE IF key \in victims THEN 0 ELSE pages[level][key]
<1>1. frames # <<>> /\ returned \in 1..(LastLevel + 1)
  BY LevelFacts DEF Insert, ControlInv, TypeOK
<1>2. Running.level \in Level /\ Running.key \in Key
  BY <1>1, RunningFacts
<1>3. PICK victims \in SUBSET Resident(Running.level) :
        /\ Cardinality(victims) = IF Full(Running.level) THEN 1 ELSE 0
        /\ pages' = PagesAfter(Running.level, victims)
  BY DEF Insert
<1>. DEFINE row == [key \in Key |-> IF key = Running.key THEN returned
                                    ELSE IF key \in victims THEN 0
                                    ELSE pages[Running.level][key]]
<1>4. pages' = [pages EXCEPT ![Running.level] = row]
  BY <1>3 DEF PagesAfter
<1>5. row \in [Key -> 0..(LastLevel + 1)]
  <2>1. \A key \in Key : pages[Running.level][key] \in 0..(LastLevel + 1)
    BY <1>2 DEF TypeOK
  <2>2. returned \in 0..(LastLevel + 1) /\ 0 \in 0..(LastLevel + 1)
    BY <1>1, LevelFacts
  <2>. QED
    BY <2>1, <2>2
<1>6. /\ \A key \in Key : row[key] = IF key = Running.key THEN returned
                                     ELSE IF key \in victims THEN 0
                                     ELSE pages[Running.level][key]
  OBVIOUS
<1>. HIDE DEF row
<1>7. /\ pages' \in [Level -> [Key -> 0..(LastLevel + 1)]]
      /\ \A level \in Level : pages'[level] = IF level = Running.level THEN row ELSE pages[level]
  BY <1>2, <1>4, <1>5 DEF TypeOK
<1>8. Running.key \notin Resident(Running.level)
  BY DEF Insert
<1>9. ASSUME NEW level \in Level, NEW key \in Key
      PROVE  pages'[level][key] =
               IF level # Running.level THEN pages[level][key]
               ELSE IF key = Running.key THEN returned
               ELSE IF key \in victims THEN 0 ELSE pages[level][key]
  BY <1>6, <1>7
<1>. QED
  BY <1>1, <1>2, <1>3, <1>7, <1>8, <1>9

\* A copy is stored.
LEMMA InsertControl ==
  ASSUME TypeOK, ControlInv, Insert
  PROVE  /\ TypeOK' /\ ControlInv'
         /\ frames' = Front(frames) /\ control' # "ask"
         /\ frames' = <<>> => stats_' = TotalStats(levelStats')
         /\ control' = "return" => Last(frames').key = Running.key /\ returned' = returned
<1>1. /\ control = "return" /\ returned \in 1..(LastLevel + 1)
      /\ pages' \in [Level -> [Key -> 0..(LastLevel + 1)]]
  BY InsertPages DEF Insert
<1>2. levelStats' = levelStats /\ levelStats' \in [Level -> Stats]
  BY DEF Insert, TypeOK
<1>3. /\ frames' = Front(frames) /\ frames' \in Seq(Frame)
      /\ control' \in {"user", "return", "throw"}
      /\ returned' \in 0..(LastLevel + 1)
      /\ stats_' \in Stats
      /\ ControlInv'
      /\ frames' = <<>> => stats_' = TotalStats(levelStats')
      /\ control' = "return" => Last(frames').key = Running.key /\ returned' = returned
  <2>1. EndFrame("return", returned) /\ returned \in 0..(LastLevel + 1) /\ returned # 0
    BY <1>1 DEF Insert
  <2>. QED
    BY <1>1, <1>2, <2>1, EndFrameFacts
<1>. QED
  BY <1>1, <1>2, <1>3 DEF TypeOK, Frame

\* A call that fails before it counts a hit or a miss, an insertion that fails,
\* and an exception that passes.
LEMMA FailControl ==
  ASSUME TypeOK, ControlInv, AskFails \/ InsertThrows \/ Unwind
  PROVE  /\ TypeOK' /\ ControlInv'
         /\ UNCHANGED pages
         /\ frames # <<>> /\ frames' = Front(frames)
         /\ control' # "ask" /\ control' # "return"
         /\ frames' = <<>> => stats_' = TotalStats(levelStats')
<1>1. control # "user" /\ EndFrame("throw", 0) /\ UNCHANGED pages
  BY DEF AskFails, InsertThrows, Unwind
<1>2. frames # <<>>
  BY <1>1 DEF ControlInv
<1>3. levelStats' \in [Level -> Stats] /\ 0 \in 0..(LastLevel + 1)
  <2>1. levelStats \in [Level -> Stats] /\ Running.level \in Level
    BY <1>2, RunningFacts DEF TypeOK
  <2>2. CASE AskFails
    <3>1. PICK counted \in {0, 1} :
            levelStats' = [levelStats EXCEPT ![Running.level].requests = @ + counted]
      BY <2>2 DEF AskFails
    <3>2. PICK level, after : level \in Level /\ level = Running.level /\ after = levelStats'
      BY <2>1
    <3>3. after = [levelStats EXCEPT ![level].requests = @ + counted]
      BY <3>1, <3>2
    <3>4. after \in [Level -> Stats]
      BY <2>1, <3>2, <3>3, FailureCounted
    <3>. QED
      BY <3>2, <3>4, LevelFacts
  <2>3. CASE InsertThrows \/ Unwind
    BY <2>1, <2>3, LevelFacts DEF InsertThrows, Unwind
  <2>. QED
    BY <2>2, <2>3
<1>4. /\ frames' = Front(frames) /\ frames' \in Seq(Frame)
      /\ control' \in {"user", "return", "throw"}
      /\ returned' \in 0..(LastLevel + 1)
      /\ stats_' \in Stats
      /\ ControlInv'
      /\ frames' = <<>> => stats_' = TotalStats(levelStats')
  BY <1>1, <1>3, EndFrameFacts
<1>5. control' # "return"
  BY <1>1 DEF EndFrame
<1>. QED
  BY <1>1, <1>2, <1>3, <1>4, <1>5 DEF TypeOK, Frame

-----------------------------------------------------------------------------
(***************************************************************************)
(* The counters, action by action.                                         *)
(***************************************************************************)

\* What the runner counts, and what is lost.
RunnerCounts ==
  /\ requestCount' = IF UserCalls THEN requestCount + 1 ELSE requestCount
  /\ memoryLoadCount' = IF LoaderStarts THEN memoryLoadCount + 1 ELSE memoryLoadCount
  /\ lost' = [stage \in Stage |->
                lost[stage] + (IF \/ CallLost /\ stage = Running.level
                                  \/ LoadLost /\ stage = LastLevel + 1 THEN 1 ELSE 0)]

\* A level is a stage of a call, and so is the loader, which is no level.
LEMMA StageFacts ==
  /\ Level \subseteq Stage /\ LastLevel + 1 \in Stage /\ LastLevel + 1 \notin Level
  /\ \A level \in Level : level \in Nat /\ (level < LastLevel => level + 1 \in Level)
BY LevelFacts DEF Stage

\* The counters are numbers.
LEMMA CountTypes ==
  ASSUME TypeOK, CountsInv
  PROVE  /\ \A level \in Level : /\ levelStats[level].requests \in Nat
                                 /\ levelStats[level].hits \in Nat
                                 /\ levelStats[level].misses \in Nat
                                 /\ lost[level] \in Nat /\ Settled(level) \in Nat
                                 /\ Uncounted(level) \in {0, 1}
         /\ SumOfHits(levelStats) \in Nat
         /\ lost[LastLevel + 1] \in Nat
         /\ requestCount \in Nat /\ memoryLoadCount \in Nat
<1>1. levelStats \in [Level -> Stats] /\ lost \in [Stage -> Nat]
  BY DEF TypeOK, CountsInv
<1>2. \A level \in Level : /\ levelStats[level].requests \in Nat
                           /\ levelStats[level].hits \in Nat
                           /\ levelStats[level].misses \in Nat
                           /\ lost[level] \in Nat
  BY <1>1, StageFacts DEF Stats
<1>3. SumOfHits(levelStats) \in Nat
  <2>1. DOMAIN levelStats = Level
    BY <1>1
  <2>. QED
    BY <1>1, <2>1, TotalStatsType DEF SumOfHits
<1>4. \A level \in Level : Settled(level) \in Nat /\ Uncounted(level) \in {0, 1}
  BY <1>2 DEF Settled, Uncounted
<1>5. requestCount \in Nat
  BY <1>4, LevelFacts DEF CountsInv
<1>. QED
  BY <1>1, <1>2, <1>3, <1>4, <1>5, StageFacts DEF CountsInv

\* What is lost in a step of a call: at its level, or at the loader.
LEMMA LostFacts ==
  ASSUME TypeOK, CountsInv, RunnerCounts
  PROVE  /\ lost' \in [Stage -> Nat]
         /\ \A level \in Level :
              lost'[level] = lost[level] + (IF CallLost /\ level = Running.level THEN 1 ELSE 0)
         /\ lost'[LastLevel + 1] =
              lost[LastLevel + 1]
                + (IF LoadLost \/ (CallLost /\ Running.level = LastLevel + 1) THEN 1 ELSE 0)
<1>1. lost \in [Stage -> Nat]
  BY DEF CountsInv
<1>. QED
  BY <1>1, StageFacts DEF RunnerCounts

\* A step between whose ends no call waits to be counted.
LEMMA QuietCounts ==
  ASSUME TypeOK, CountsInv, control # "ask", control' # "ask", levelStats' = levelStats,
         RunnerCounts, frames' = <<>> => stats_' = TotalStats(levelStats')
  PROVE  CountsInv'
<1>1. requestCount' = requestCount /\ memoryLoadCount' = memoryLoadCount
  BY DEF RunnerCounts, UserCalls, LoaderStarts
<1>2. lost' = lost
  <2>1. lost' = [stage \in Stage |-> lost[stage] + 0]
    BY DEF RunnerCounts, CallLost, LoadLost
  <2>. QED
    BY <2>1 DEF CountsInv
<1>3. \A level : Uncounted(level) = 0 /\ Uncounted(level)' = 0
  BY DEF Uncounted
<1>4. \A level : Settled(level)' = Settled(level)
  BY <1>2 DEF Settled
<1>. QED
  BY <1>1, <1>2, <1>3, <1>4 DEF CountsInv

\* A system call is counted outside before the first level counts it.
LEMMA RequestCounted ==
  ASSUME TypeOK, ControlInv, CountsInv, NEW key \in Key, Request(key), RunnerCounts
  PROVE  CountsInv'
<1>1. control = "user" /\ control' = "ask" /\ levelStats' = levelStats
  BY DEF Request
<1>2. frames' # <<>> /\ Running'.level = 1
  BY RequestControl DEF Running
<1>3. requestCount' = requestCount + 1 /\ memoryLoadCount' = memoryLoadCount
  BY <1>1 DEF RunnerCounts, UserCalls, LoaderStarts
<1>4. lost' = lost
  <2>1. lost' = [stage \in Stage |-> lost[stage] + 0]
    BY <1>1 DEF RunnerCounts, CallLost, LoadLost
  <2>. QED
    BY <2>1 DEF CountsInv
<1>5. Uncounted(1) = 0 /\ Uncounted(1)' = 1
  BY <1>1, <1>2 DEF Uncounted
<1>6. \A level \in Level : Uncounted(level + 1) = 0 /\ Uncounted(level + 1)' = 0
  BY <1>1, <1>2, LevelFacts DEF Uncounted
<1>7. \A level : Settled(level)' = Settled(level)
  BY <1>1, <1>4 DEF Settled
<1>8. requestCount' = Settled(1)' + Uncounted(1)'
  BY <1>3, <1>5, <1>7, CountTypes, LevelFacts DEF CountsInv
<1>9. ASSUME \A level \in Level : lost[level] = 0
      PROVE  SumOfHits(levelStats)' + levelStats'[LastLevel].misses + 1 = requestCount'
  <2>1. SumOfHits(levelStats) + levelStats[LastLevel].misses + 0 = requestCount
    BY <1>1, <1>9 DEF CountsInv
  <2>. QED
    BY <1>1, <1>3, <2>1, CountTypes, LevelFacts
<1>. QED
  BY <1>1, <1>2, <1>3, <1>4, <1>6, <1>7, <1>8, <1>9 DEF CountsInv

\* What the end of a call at a level makes of the other levels' counters: one more
\* call is settled there, and a miss may hand it on to the level below.
Settles(L, miss) ==
  /\ requestCount' = requestCount
  /\ \A level \in Level :
       /\ Settled(level)' = Settled(level) + (IF level = L THEN 1 ELSE 0)
       /\ levelStats'[level].misses = levelStats[level].misses + (IF level = L THEN miss ELSE 0)
       /\ Uncounted(level) = IF level = L THEN 1 ELSE 0
       /\ Uncounted(level)' = IF miss = 1 /\ L < LastLevel /\ level = L + 1 THEN 1 ELSE 0

\* So the calls that reach a level are those that are missed above it.
LEMMA Forwarded ==
  ASSUME TypeOK, CountsInv, NEW L \in Level, NEW miss \in {0, 1}, Settles(L, miss)
  PROVE  /\ \A level \in Level : level < LastLevel =>
              levelStats'[level].misses = Settled(level + 1)' + Uncounted(level + 1)'
         /\ requestCount' = Settled(1)' + Uncounted(1)'
<1>1. ASSUME NEW l \in Level, l < LastLevel
      PROVE  levelStats'[l].misses = Settled(l + 1)' + Uncounted(l + 1)'
  <2>1. l + 1 \in Level /\ l + 1 # l /\ l \in Nat /\ L \in Nat
    BY <1>1, StageFacts
  <2>2. levelStats[l].misses = Settled(l + 1) + Uncounted(l + 1)
    BY <1>1 DEF CountsInv
  <2>3. /\ Settled(l + 1)' = Settled(l + 1) + (IF l + 1 = L THEN 1 ELSE 0)
        /\ levelStats'[l].misses = levelStats[l].misses + (IF l = L THEN miss ELSE 0)
        /\ Uncounted(l + 1) = IF l + 1 = L THEN 1 ELSE 0
        /\ Uncounted(l + 1)' = IF miss = 1 /\ L < LastLevel /\ l = L THEN 1 ELSE 0
    BY <2>1 DEF Settles
  <2>4. Settled(l + 1) \in Nat /\ levelStats[l].misses \in Nat
    BY <2>1, CountTypes
  <2>5. CASE l = L
    BY <1>1, <2>1, <2>2, <2>3, <2>4, <2>5
  <2>6. CASE l + 1 = L
    BY <1>1, <2>1, <2>2, <2>3, <2>4, <2>6
  <2>7. CASE l # L /\ l + 1 # L
    BY <1>1, <2>1, <2>2, <2>3, <2>4, <2>7
  <2>. QED
    BY <2>5, <2>6, <2>7
<1>2. requestCount' = Settled(1)' + Uncounted(1)'
  <2>1. 1 \in Level /\ L \in Nat \ {0} /\ Settled(1) \in Nat
    BY CountTypes, LevelFacts
  <2>2. requestCount = Settled(1) + Uncounted(1)
    BY DEF CountsInv
  <2>3. /\ requestCount' = requestCount
        /\ Settled(1)' = Settled(1) + (IF 1 = L THEN 1 ELSE 0)
        /\ Uncounted(1) = IF 1 = L THEN 1 ELSE 0
        /\ Uncounted(1)' = IF miss = 1 /\ L < LastLevel /\ 1 = L + 1 THEN 1 ELSE 0
    BY <2>1 DEF Settles
  <2>. QED
    BY <2>1, <2>2, <2>3
<1>. QED
  BY <1>1, <1>2

\* A hit settles the call of its level.
LEMMA HitCounts ==
  ASSUME TypeOK, ControlInv, CountsInv, Hit, RunnerCounts
  PROVE  CountsInv'
<1>1. control = "ask" /\ frames # <<>>
  BY DEF Hit, ControlInv
<1>2. PICK L \in Level : L = Running.level
  BY <1>1, RunningFacts
<1>3. /\ frames' = Front(frames) /\ control' # "ask"
      /\ frames' = <<>> => stats_' = TotalStats(levelStats')
  BY HitControl
<1>4. frames' # frames
  <2>1. frames \in Seq(Frame)
    BY DEF TypeOK, Frame
  <2>2. Len(Front(frames)) = Len(frames) - 1 /\ Len(frames) \in Nat
    BY <1>1, <2>1, StackFacts
  <2>. QED
    BY <1>3, <2>2
<1>5. requestCount' = requestCount /\ memoryLoadCount' = memoryLoadCount
  BY <1>1, <1>4 DEF RunnerCounts, UserCalls, LoaderStarts
<1>6. PICK after \in [Level -> Stats] : after = levelStats'
  BY HitControl DEF TypeOK
<1>7. \A l \in Level :
        /\ after[l].requests = levelStats[l].requests + (IF l = L THEN 1 ELSE 0)
        /\ after[l].hits = levelStats[l].hits + (IF l = L THEN 1 ELSE 0)
        /\ after[l].misses = levelStats[l].misses
  <2>1. levelStats \in [Level -> Stats]
    BY DEF TypeOK
  <2>2. after = [levelStats EXCEPT ![L].requests = @ + 1, ![L].hits = @ + 1]
    BY <1>2, <1>6 DEF Hit
  <2>. QED
    BY <2>1, <2>2, HitCounted
<1>8. lost' = lost
  <2>1. after[L].hits # levelStats[L].hits
    BY <1>7, CountTypes
  <2>2. lost' = [stage \in Stage |-> lost[stage] + 0]
    BY <1>2, <1>4, <1>6, <2>1 DEF RunnerCounts, CallLost, LoadLost
  <2>. QED
    BY <2>2 DEF CountsInv
<1>9. Settles(L, 0)
  <2>1. /\ \A l \in Level : Uncounted(l) = IF l = L THEN 1 ELSE 0
        /\ \A l \in Level : Uncounted(l)' = 0
    BY <1>1, <1>2, <1>3 DEF Uncounted
  <2>2. \A l \in Level : Settled(l)' = Settled(l) + (IF l = L THEN 1 ELSE 0)
    BY <1>6, <1>7, <1>8, CountTypes DEF Settled
  <2>. QED
    BY <1>5, <1>6, <1>7, <2>1, <2>2, CountTypes DEF Settles
<1>10. SumOfHits(after) = SumOfHits(levelStats) + 1
  <2>1. DOMAIN levelStats = Level /\ DOMAIN after = Level /\ levelStats \in [Level -> Stats]
    BY DEF TypeOK
  <2>2. /\ [l \in Level |-> levelStats[l].hits] \in [Level -> Int]
        /\ [l \in Level |-> after[l].hits] \in [Level -> Int]
    BY <2>1 DEF Stats
  <2>3. PICK f \in [Level -> Int], g \in [Level -> Int] :
          /\ f = [l \in Level |-> levelStats[l].hits]
          /\ g = [l \in Level |-> after[l].hits]
    BY <2>2
  <2>4. SumOfHits(levelStats) = SumFunction(f) /\ SumOfHits(after) = SumFunction(g)
    BY <2>1, <2>3 DEF SumOfHits
  <2>5. PICK d \in Int : d = 1
    OBVIOUS
  <2>6. ChangesBy(f, g, Level, L, d)
    <3>1. \A l \in Level : /\ f[l] = levelStats[l].hits
                           /\ g[l] = levelStats[l].hits + (IF l = L THEN d ELSE 0)
      BY <1>7, <2>3, <2>5
    <3>. QED
      BY <3>1, <2>3 DEF ChangesBy
  <2>7. IsFiniteSet(Level)
    BY LevelFacts
  <2>8. SumFunction(g) = SumFunction(f) + d
    BY <2>2, <2>6, <2>7, SumChanged
  <2>. QED
    BY <2>4, <2>5, <2>8
<1>11. \A l \in Level : /\ after[l].hits + after[l].misses <= after[l].requests
                        /\ after[l].requests <= Settled(l)'
  <2>1. \A l \in Level :
          /\ levelStats[l].hits + levelStats[l].misses <= levelStats[l].requests
          /\ levelStats[l].requests <= Settled(l)
    BY DEF CountsInv
  <2>. QED
    BY <1>7, <1>9, <2>1, CountTypes DEF Settles
<1>12. ASSUME \A level \in Level : lost[level] = 0
       PROVE  SumOfHits(after) + after[LastLevel].misses + 0 = requestCount
  BY <1>1, <1>7, <1>10, <1>12, CountTypes, LevelFacts DEF CountsInv
<1>13. /\ lost' \in [Stage -> Nat] /\ memoryLoadCount' \in Nat
       /\ after[LastLevel].misses = memoryLoadCount' + lost'[LastLevel + 1]
  BY <1>5, <1>7, <1>8, LevelFacts DEF CountsInv
<1>. QED
  BY <1>3, <1>5, <1>6, <1>8, <1>9, <1>11, <1>12, <1>13, Forwarded DEF CountsInv

\* A miss hands the call on to the level below, or to the loader.
LEMMA MissCounts ==
  ASSUME TypeOK, ControlInv, CountsInv, Miss, RunnerCounts
  PROVE  CountsInv'
<1>1. control = "ask" /\ frames # <<>>
  BY DEF Miss, ControlInv
<1>2. PICK L \in Level : L = Running.level
  BY <1>1, RunningFacts
<1>3. /\ frames' # <<>>
      /\ L < LastLevel => control' = "ask" /\ Front(frames') = frames /\ Running'.level = L + 1
      /\ L = LastLevel => control' \in {"user", "throw"} /\ frames' = frames
      /\ L < LastLevel \/ L = LastLevel
  BY <1>2, MissControl, LevelFacts DEF Running
<1>4. PICK after \in [Level -> Stats] : after = levelStats'
  BY MissControl DEF TypeOK
<1>5. \A l \in Level :
        /\ after[l].requests = levelStats[l].requests + (IF l = L THEN 1 ELSE 0)
        /\ after[l].hits = levelStats[l].hits
        /\ after[l].misses = levelStats[l].misses + (IF l = L THEN 1 ELSE 0)
  <2>1. levelStats \in [Level -> Stats]
    BY DEF TypeOK
  <2>2. after = [levelStats EXCEPT ![L].requests = @ + 1, ![L].misses = @ + 1]
    BY <1>2, <1>4 DEF Miss
  <2>. QED
    BY <2>1, <2>2, MissCounted
<1>6. requestCount' = requestCount
  BY <1>1 DEF RunnerCounts, UserCalls
<1>7. /\ lost' \in [Stage -> Nat] /\ \A l \in Level : lost'[l] = lost[l]
      /\ lost'[LastLevel + 1] = lost[LastLevel + 1] + (IF LoadLost THEN 1 ELSE 0)
  <2>1. ~ CallLost
    BY <1>2, <1>4, <1>5, CountTypes DEF CallLost
  <2>. QED
    BY <2>1, LostFacts, CountTypes
<1>8. SumOfHits(after) = SumOfHits(levelStats)
  <2>1. DOMAIN levelStats = Level /\ DOMAIN after = Level
    BY DEF TypeOK
  <2>2. [l \in Level |-> levelStats[l].hits] = [l \in Level |-> after[l].hits]
    BY <1>5
  <2>. QED
    BY <2>1, <2>2 DEF SumOfHits
<1>9. Settles(L, 1)
  <2>1. /\ \A l \in Level : Uncounted(l) = IF l = L THEN 1 ELSE 0
        /\ \A l \in Level : Uncounted(l)' = IF L < LastLevel /\ l = L + 1 THEN 1 ELSE 0
    BY <1>1, <1>2, <1>3, LevelFacts DEF Uncounted
  <2>2. \A l \in Level : Settled(l)' = Settled(l) + (IF l = L THEN 1 ELSE 0)
    BY <1>4, <1>5, <1>7, CountTypes DEF Settled
  <2>. QED
    BY <1>4, <1>5, <1>6, <2>1, <2>2 DEF Settles
<1>10. \A l \in Level : /\ after[l].hits + after[l].misses <= after[l].requests
                        /\ after[l].requests <= Settled(l)'
  <2>1. \A l \in Level :
          /\ levelStats[l].hits + levelStats[l].misses <= levelStats[l].requests
          /\ levelStats[l].requests <= Settled(l)
    BY DEF CountsInv
  <2>. QED
    BY <1>5, <1>9, <2>1, CountTypes DEF Settles
<1>11. /\ memoryLoadCount' \in Nat
       /\ after[LastLevel].misses = memoryLoadCount' + lost'[LastLevel + 1]
  <2>1. /\ levelStats[LastLevel].misses = memoryLoadCount + lost[LastLevel + 1]
        /\ memoryLoadCount \in Nat /\ lost[LastLevel + 1] \in Nat /\ LastLevel \in Level
    BY CountTypes, LevelFacts DEF CountsInv
  <2>2. after[LastLevel].misses = levelStats[LastLevel].misses + (IF LastLevel = L THEN 1 ELSE 0)
    BY <1>5, <2>1
  <2>3. CASE L = LastLevel
    <3>1. \/ LoaderStarts /\ ~ LoadLost
          \/ LoadLost /\ ~ LoaderStarts
      BY <1>1, <1>3, <2>3 DEF LoaderStarts, LoadLost
    <3>2. memoryLoadCount' = IF LoaderStarts THEN memoryLoadCount + 1 ELSE memoryLoadCount
      BY DEF RunnerCounts
    <3>. QED
      BY <1>7, <2>1, <2>2, <2>3, <3>1, <3>2
  <2>4. CASE L < LastLevel
    <3>1. ~ LoaderStarts /\ ~ LoadLost /\ LastLevel # L
      BY <1>3, <2>4, LevelFacts DEF LoaderStarts, LoadLost
    <3>2. memoryLoadCount' = memoryLoadCount
      BY <3>1 DEF RunnerCounts
    <3>. QED
      BY <1>7, <2>1, <2>2, <3>1, <3>2
  <2>. QED
    BY <1>3, <2>3, <2>4
<1>12. ASSUME \A level \in Level : lost'[level] = 0
       PROVE  SumOfHits(after) + after[LastLevel].misses
                + (IF control' = "ask" THEN 1 ELSE 0) = requestCount
  <2>1. SumOfHits(levelStats) + levelStats[LastLevel].misses + 1 = requestCount
    BY <1>1, <1>7, <1>12 DEF CountsInv
  <2>2. after[LastLevel].misses =
          levelStats[LastLevel].misses + (IF control' = "ask" THEN 0 ELSE 1)
    <3>1. L < LastLevel => LastLevel # L
      BY LevelFacts
    <3>. QED
      BY <1>3, <1>5, <3>1, CountTypes, LevelFacts
  <2>. QED
    BY <1>8, <2>1, <2>2, CountTypes, LevelFacts
<1>. QED
  BY <1>3, <1>4, <1>6, <1>7, <1>9, <1>10, <1>11, <1>12, Forwarded DEF CountsInv

\* A call that fails before it counts a hit or a miss is lost.
LEMMA FailCounts ==
  ASSUME TypeOK, ControlInv, CountsInv, AskFails, RunnerCounts
  PROVE  CountsInv'
<1>1. control = "ask" /\ frames # <<>>
  BY DEF AskFails, ControlInv
<1>2. PICK L \in Level : L = Running.level
  BY <1>1, RunningFacts
<1>3. /\ frames' = Front(frames) /\ control' # "ask"
      /\ frames' = <<>> => stats_' = TotalStats(levelStats')
  BY FailControl
<1>4. frames' # frames
  <2>1. frames \in Seq(Frame)
    BY DEF TypeOK, Frame
  <2>2. Len(Front(frames)) = Len(frames) - 1 /\ Len(frames) \in Nat
    BY <1>1, <2>1, StackFacts
  <2>. QED
    BY <1>3, <2>2
<1>5. requestCount' = requestCount /\ memoryLoadCount' = memoryLoadCount
  BY <1>1, <1>4 DEF RunnerCounts, UserCalls, LoaderStarts
<1>6. PICK after \in [Level -> Stats] : after = levelStats'
  BY FailControl DEF TypeOK
<1>7. PICK counted \in {0, 1} :
        \A l \in Level :
          /\ after[l].requests = levelStats[l].requests + (IF l = L THEN counted ELSE 0)
          /\ after[l].hits = levelStats[l].hits
          /\ after[l].misses = levelStats[l].misses
  <2>1. levelStats \in [Level -> Stats]
    BY DEF TypeOK
  <2>2. PICK counted \in {0, 1} : after = [levelStats EXCEPT ![L].requests = @ + counted]
    BY <1>2, <1>6 DEF AskFails
  <2>. QED
    BY <2>1, <2>2, FailureCounted
<1>8. /\ lost' \in [Stage -> Nat]
      /\ \A l \in Level : lost'[l] = lost[l] + (IF l = L THEN 1 ELSE 0)
      /\ lost'[LastLevel + 1] = lost[LastLevel + 1]
  <2>1. CallLost /\ ~ LoadLost /\ L # LastLevel + 1
    BY <1>1, <1>2, <1>4, <1>6, <1>7, StageFacts DEF CallLost, LoadLost
  <2>2. /\ lost' \in [Stage -> Nat]
        /\ \A l \in Level : lost'[l] = lost[l] + (IF CallLost /\ l = Running.level THEN 1 ELSE 0)
        /\ lost'[LastLevel + 1] =
             lost[LastLevel + 1]
               + (IF LoadLost \/ (CallLost /\ Running.level = LastLevel + 1) THEN 1 ELSE 0)
    BY LostFacts
  <2>. QED
    BY <1>2, <2>1, <2>2, CountTypes
<1>9. Settles(L, 0)
  <2>1. /\ \A l \in Level : Uncounted(l) = IF l = L THEN 1 ELSE 0
        /\ \A l \in Level : Uncounted(l)' = 0
    BY <1>1, <1>2, <1>3 DEF Uncounted
  <2>2. \A l \in Level : Settled(l)' = Settled(l) + (IF l = L THEN 1 ELSE 0)
    BY <1>6, <1>7, <1>8, CountTypes DEF Settled
  <2>. QED
    BY <1>5, <1>6, <1>7, <2>1, <2>2, CountTypes DEF Settles
<1>10. \A l \in Level : /\ after[l].hits + after[l].misses <= after[l].requests
                        /\ after[l].requests <= Settled(l)'
  <2>1. \A l \in Level :
          /\ levelStats[l].hits + levelStats[l].misses <= levelStats[l].requests
          /\ levelStats[l].requests <= Settled(l)
    BY DEF CountsInv
  <2>. QED
    BY <1>7, <1>9, <2>1, CountTypes DEF Settles
<1>11. ~ \A level \in Level : lost'[level] = 0
  BY <1>8, CountTypes
<1>12. memoryLoadCount' \in Nat /\ after[LastLevel].misses = memoryLoadCount' + lost'[LastLevel + 1]
  BY <1>5, <1>7, <1>8, LevelFacts DEF CountsInv
<1>. QED
  BY <1>3, <1>5, <1>6, <1>8, <1>9, <1>10, <1>11, <1>12, Forwarded DEF CountsInv

-----------------------------------------------------------------------------
(***************************************************************************)
(* What the benchmarks check follows from the invariant.                   *)
(***************************************************************************)

\* The levels' counters as a list.
LEMMA LevelStatsList ==
  ASSUME TypeOK
  PROVE  levelStats \in Seq(Stats) /\ Len(levelStats) = LastLevel
<1>1. levelStats \in [1..LastLevel -> Stats] /\ LastLevel \in Nat
  BY LevelFacts DEF TypeOK
<1>. QED
  BY <1>1

\* The scripts read back the counters that were printed.
LEMMA ReadBack ==
  ASSUME TypeOK
  PROVE  LET printed == PrintedStatistics(levelStats, stats_)
         IN  /\ SubSeq(printed.levels, 1, LastLevel) = levelStats
             /\ \A level \in 1..3 : level > LastLevel => printed.levels[level] = Absent
             /\ printed.total = stats_
<1>1. PICK levels : levels = PrintedStatistics(levelStats, stats_).levels
  OBVIOUS
<1>2. levelStats \in Seq(Stats) /\ Len(levelStats) = LastLevel /\ LastLevel \in 1..3
  BY LevelStatsList, LevelFacts, RunnerAssumption
<1>3. levels = [level \in 1..3 |-> IF level <= LastLevel THEN levelStats[level] ELSE Absent]
  BY <1>1, <1>2 DEF PrintedStatistics
<1>4. Absent \in Stats
  BY DEF Absent, Stats
<1>5. \A level \in 1..3 : (IF level <= LastLevel THEN levelStats[level] ELSE Absent) \in Stats
  <2>1. \A level \in 1..LastLevel : levelStats[level] \in Stats
    BY <1>2
  <2>. QED
    BY <1>2, <1>4, <2>1
<1>6. levels \in [1..3 -> Stats]
  BY <1>3, <1>5
<1>7. levels \in Seq(Stats) /\ Len(levels) = 3
  <2>1. \E n \in Nat : levels \in [1..n -> Stats]
    BY <1>6, 3 \in Nat
  <2>2. levels \in Seq(Stats)
    BY <2>1
  <2>. QED
    BY <1>6, <2>2
<1>8. PICK present \in Seq(Stats) :
        /\ present = SubSeq(levels, 1, LastLevel)
        /\ Len(present) = LastLevel
        /\ \A i \in 1..LastLevel : present[i] = levels[i]
  <2>1. /\ SubSeq(levels, 1, LastLevel) \in Seq(Stats)
        /\ Len(SubSeq(levels, 1, LastLevel)) = IF 1 <= LastLevel THEN LastLevel - 1 + 1 ELSE 0
        /\ \A i \in 1..(LastLevel - 1 + 1) : SubSeq(levels, 1, LastLevel)[i] = levels[1 + i - 1]
    BY <1>2, <1>7, SubSeqProperties
  <2>2. PICK front \in Seq(Stats) : front = SubSeq(levels, 1, LastLevel)
    BY <2>1
  <2>3. /\ Len(front) = LastLevel
        /\ \A i \in 1..LastLevel : front[i] = levels[i]
    BY <1>2, <2>1, <2>2
  <2>. QED
    BY <2>2, <2>3
<1>9. present = levelStats
  BY <1>2, <1>3, <1>8, SeqEqual
<1>10. \A level \in 1..3 : level > LastLevel => levels[level] = Absent
  BY <1>2, <1>3
<1>11. PrintedStatistics(levelStats, stats_).total = stats_
  BY DEF PrintedStatistics
<1>. QED
  BY <1>1, <1>8, <1>9, <1>10, <1>11

\* Nobody asks: the counters and the lost calls add up.
LEMMA AccountsAddUp ==
  ASSUME TypeOK, CountsInv, control = "user"
  PROVE  /\ \A level \in Level : ExpectedRequests(levelStats, requestCount, level) = Settled(level)
         /\ (\A level \in Level : lost[level] = 0) =>
              SumOfHits(levelStats) + levelStats[LastLevel].misses = requestCount
<1>1. \A level : Uncounted(level) = 0
  BY DEF Uncounted
<1>2. ASSUME NEW level \in Level
      PROVE  ExpectedRequests(levelStats, requestCount, level) = Settled(level)
  <2>1. CASE level = 1
    BY <1>1, <2>1, CountTypes DEF ExpectedRequests, CountsInv
  <2>2. CASE level # 1
    <3>1. PICK above \in Level : above = level - 1 /\ above < LastLevel /\ above + 1 = level
      <4>1. level - 1 \in Level /\ level - 1 < LastLevel /\ (level - 1) + 1 = level
        BY <2>2, LevelFacts
      <4>. QED
        BY <4>1
    <3>2. levelStats[above].misses = Settled(level)
      BY <1>1, <3>1, CountTypes DEF CountsInv
    <3>. QED
      BY <2>2, <3>1, <3>2 DEF ExpectedRequests
  <2>. QED
    BY <2>1, <2>2
<1>3. ASSUME \A level \in Level : lost[level] = 0
      PROVE  SumOfHits(levelStats) + levelStats[LastLevel].misses = requestCount
  BY <1>3, CountTypes, LevelFacts DEF CountsInv
<1>. QED
  BY <1>2, <1>3

\* The comparisons that both checks make level by level.
LevelsPass ==
  \A level \in Level :
    /\ levelStats[level].requests = ExpectedRequests(levelStats, requestCount, level)
    /\ levelStats[level].hits + levelStats[level].misses = levelStats[level].requests

\* They fail at a level that has lost a call, and only there.
LEMMA LevelsPassUnlessLost ==
  ASSUME TypeOK, CountsInv, control = "user"
  PROVE  LevelsPass <=> \A level \in Level : lost[level] = 0
<1>1. \A level \in Level :
        /\ ExpectedRequests(levelStats, requestCount, level) = Settled(level)
        /\ levelStats[level].hits + levelStats[level].misses <= levelStats[level].requests
        /\ levelStats[level].requests <= Settled(level)
  BY AccountsAddUp DEF CountsInv
<1>. QED
  BY <1>1, CountTypes DEF LevelsPass, Settled

\* The counters that the inductive invariant relates pass the checks unless a
\* call was lost.
LEMMA InvAccepted ==
  ASSUME Inv
  PROVE  StatisticsAccepted
<1>1. TypeOK /\ ControlInv /\ CountsInv
  BY DEF Inv
<1>2. ASSUME control = "user"
      PROVE  /\ \A level \in Level :
                  LET expected == ExpectedRequests(levelStats, requestCount, level)
                  IN /\ expected =
                          levelStats[level].hits + levelStats[level].misses + lost[level]
                     /\ levelStats[level].requests <= expected
             /\ levelStats[LastLevel].misses = memoryLoadCount + lost[LastLevel + 1]
  <2>1. \A level \in Level :
          /\ ExpectedRequests(levelStats, requestCount, level) = Settled(level)
          /\ levelStats[level].requests <= Settled(level)
    BY <1>1, <1>2, AccountsAddUp DEF CountsInv
  <2>. QED
    BY <1>1, <2>1 DEF Settled, CountsInv
<1>3. LevelsAccounted
  <2>1. ASSUME NEW i \in DOMAIN frames, frames[i].level > 1
        PROVE  /\ i > 1
               /\ frames[i - 1] = [level |-> frames[i].level - 1, key |-> frames[i].key]
    <3>1. frames \in Seq(Frame) /\ DOMAIN frames = 1..Len(frames) /\ Len(frames) \in Nat
      BY <1>1 DEF TypeOK, Frame
    <3>2. frames[i].level \in Nat
      BY <3>1, FrameFacts
    <3>3. frames[i].level - 1 \in 1..frames[i].level
          /\ i - frames[i].level + (frames[i].level - 1) = i - 1
      BY <2>1, <3>1, <3>2
    <3>4. i - 1 \in DOMAIN frames
          /\ frames[i - 1] = [level |-> frames[i].level - 1, key |-> frames[i].key]
      BY <1>1, <3>3 DEF ControlInv, Chained
    <3>. QED
      BY <3>1, <3>4
  <2>2. ASSUME control = "user", NEW level \in Level
        PROVE  /\ levelStats[level].hits + levelStats[level].misses <= levelStats[level].requests
               /\ level < LastLevel => levelStats[level + 1].requests <= levelStats[level].misses
    <3>1. Uncounted(level + 1) = 0
      BY <2>2 DEF Uncounted
    <3>2. level < LastLevel =>
            /\ levelStats[level].misses = Settled(level + 1) + Uncounted(level + 1)
            /\ levelStats[level + 1].requests <= Settled(level + 1)
            /\ Settled(level + 1) \in Nat
      BY <1>1, StageFacts, CountTypes DEF CountsInv
    <3>. QED
      BY <1>1, <3>1, <3>2 DEF CountsInv
  <2>. QED
    BY <1>1, <2>1, <2>2 DEF LevelsAccounted
<1>4. ASSUME frames = <<>>
      PROVE  /\ CheckCacheStatistics(levelStats, stats_, requestCount, memoryLoadCount)
                  <=> \A stage \in Stage : lost[stage] = 0
             /\ CheckStatistics(PrintedStatistics(levelStats, stats_), requestCount, LastLevel)
                  <=> \A level \in Level : lost[level] = 0
  <2>1. control = "user"
    BY <1>1, <1>4 DEF ControlInv
  <2>2. /\ DOMAIN levelStats = Level
        /\ Last(levelStats) = levelStats[LastLevel]
    BY <1>1, LevelStatsList DEF TypeOK, Last
  <2>3. LevelsPass <=> \A level \in Level : lost[level] = 0
    BY <1>1, <2>1, LevelsPassUnlessLost
  <2>4. /\ stats_.requests = levelStats[1].requests
        /\ stats_.hits = SumOfHits(levelStats)
        /\ stats_.misses = levelStats[LastLevel].misses
    <3>1. stats_ = TotalStats(levelStats)
      BY <1>1, <1>4 DEF CountsInv
    <3>. QED
      BY <2>2, <3>1 DEF TotalStats, SumOfHits
  <2>5. /\ levelStats[LastLevel].misses = memoryLoadCount + lost[LastLevel + 1]
        /\ memoryLoadCount \in Nat /\ lost[LastLevel + 1] \in Nat
    BY <1>1, CountTypes DEF CountsInv
  <2>6. ASSUME \A level \in Level : lost[level] = 0
        PROVE  /\ levelStats[1].requests = requestCount
               /\ SumOfHits(levelStats) + levelStats[LastLevel].misses = requestCount
    <3>1. levelStats[1].requests = ExpectedRequests(levelStats, requestCount, 1)
      BY <2>3, <2>6, LevelFacts DEF LevelsPass
    <3>. QED
      BY <1>1, <2>1, <2>6, <3>1, AccountsAddUp DEF ExpectedRequests
  <2>7. (\A stage \in Stage : lost[stage] = 0)
          <=> (\A level \in Level : lost[level] = 0) /\ lost[LastLevel + 1] = 0
    BY LevelFacts DEF Stage
  <2>8. CheckCacheStatistics(levelStats, stats_, requestCount, memoryLoadCount)
          <=> \A stage \in Stage : lost[stage] = 0
    <3>1. ASSUME CheckCacheStatistics(levelStats, stats_, requestCount, memoryLoadCount)
          PROVE  (\A level \in Level : lost[level] = 0) /\ lost[LastLevel + 1] = 0
      <4>1. LevelsPass /\ levelStats[LastLevel].misses = memoryLoadCount
        BY <2>2, <3>1 DEF CheckCacheStatistics, LevelsPass
      <4>. QED
        BY <2>3, <2>5, <4>1
    <3>2. ASSUME \A level \in Level : lost[level] = 0, lost[LastLevel + 1] = 0
          PROVE  CheckCacheStatistics(levelStats, stats_, requestCount, memoryLoadCount)
      <4>1. LevelsPass /\ levelStats[LastLevel].misses = memoryLoadCount
        BY <2>3, <2>5, <3>2
      <4>2. /\ levelStats[1].requests = requestCount
            /\ SumOfHits(levelStats) + levelStats[LastLevel].misses = requestCount
        BY <2>6, <3>2
      <4>. QED
        BY <2>2, <2>4, <4>1, <4>2 DEF CheckCacheStatistics, LevelsPass
    <3>. QED
      BY <2>7, <3>1, <3>2
  <2>9. PICK printed : printed = PrintedStatistics(levelStats, stats_)
    OBVIOUS
  <2>10. /\ SubSeq(printed.levels, 1, LastLevel) = levelStats
         /\ \A level \in 1..3 : level > LastLevel => printed.levels[level] = Absent
         /\ printed.total = stats_
    BY <1>1, <2>9, ReadBack
  <2>11. CheckStatistics(printed, requestCount, LastLevel) <=> \A level \in Level : lost[level] = 0
    <3>1. ASSUME CheckStatistics(printed, requestCount, LastLevel) PROVE LevelsPass
      BY <2>2, <2>10, <3>1 DEF CheckStatistics, LevelsPass
    <3>2. ASSUME LevelsPass PROVE CheckStatistics(printed, requestCount, LastLevel)
      <4>1. /\ levelStats[1].requests = requestCount
            /\ SumOfHits(levelStats) + levelStats[LastLevel].misses = requestCount
        BY <2>3, <2>6, <3>2
      <4>. QED
        BY <2>2, <2>4, <2>10, <3>2, <4>1 DEF CheckStatistics, LevelsPass
    <3>. QED
      BY <2>3, <3>1, <3>2
  <2>. QED
    BY <2>8, <2>9, <2>11
<1>. QED
  BY <1>2, <1>3, <1>4 DEF StatisticsAccepted

-----------------------------------------------------------------------------
(***************************************************************************)
(* The copies of a page, action by action.                                 *)
(***************************************************************************)

\* The keys asked for while a call for them waits.
Reentering ==
  reentered' =
    reentered \cup {key \in Key : \E i, j \in DOMAIN frames' :
                                    /\ i # j
                                    /\ frames'[i] = [level |-> 1, key |-> key]
                                    /\ frames'[j] = frames'[i]}

\* Of two system calls for one key the key is noted.
LEMMA NotesCalls ==
  ASSUME TypeOK', Reentering
  PROVE  CallsNoted' /\ reentered \subseteq reentered'
<1>1. reentered \subseteq reentered'
  BY DEF Reentering
<1>2. ASSUME NEW i \in DOMAIN frames', NEW j \in DOMAIN frames',
             i # j, frames'[i] = frames'[j], frames'[i].level = 1
      PROVE  frames'[i].key \in reentered'
  <2>1. frames' \in Seq(Frame) /\ DOMAIN frames' = 1..Len(frames')
    BY DEF TypeOK, Frame
  <2>2. frames'[i] \in Frame
    BY <2>1
  <2>3. frames'[i].key \in Key /\ frames'[i] = [level |-> 1, key |-> frames'[i].key]
    BY <1>2, <2>2, FrameFacts
  <2>. QED
    BY <1>2, <2>3 DEF Reentering
<1>. QED
  BY <1>1, <1>2 DEF CallsNoted

\* A level works for a key twice only if the key has been asked for again.
LEMMA OneFramePerLevel ==
  ASSUME TypeOK, ControlInv, CallsNoted,
         NEW i \in DOMAIN frames, NEW j \in DOMAIN frames, i # j, frames[i] = frames[j]
  PROVE  frames[i].key \in reentered
<1>1. frames \in Seq(Frame) /\ DOMAIN frames = 1..Len(frames) /\ Len(frames) \in Nat
  BY DEF TypeOK, Frame
<1>2. PICK level \in Nat \ {0}, key \in Key : frames[i].level = level /\ frames[i].key = key
  <2>1. frames[i] \in Frame
    BY <1>1
  <2>. QED
    BY <2>1, FrameFacts
<1>3. 1 \in 1..level
  BY <1>2
<1>4. i - level + 1 \in DOMAIN frames /\ frames[i - level + 1] = [level |-> 1, key |-> key]
  BY <1>2, <1>3 DEF ControlInv, Chained
<1>5. j - level + 1 \in DOMAIN frames /\ frames[j - level + 1] = [level |-> 1, key |-> key]
  BY <1>2, <1>3 DEF ControlInv, Chained
<1>6. PICK p \in DOMAIN frames, q \in DOMAIN frames :
        /\ p = i - level + 1 /\ q = j - level + 1
        /\ frames[p] = [level |-> 1, key |-> key] /\ frames[q] = [level |-> 1, key |-> key]
  BY <1>4, <1>5
<1>7. p # q
  BY <1>1, <1>2, <1>6
<1>8. frames[p].level = 1 /\ frames[p].key = key
  BY <1>6
<1>. QED
  BY <1>2, <1>6, <1>7, <1>8 DEF CallsNoted

\* A step that changes no page keeps the copies in agreement.
LEMMA SamePagesAgree ==
  ASSUME CopiesAgree, pages' = pages, reentered \subseteq reentered'
  PROVE  CopiesAgree'
BY DEF CopiesAgree, Resident

\* The frames that a step leaves alone, if it changes no page.
LEMMA StaysClear ==
  ASSUME NEW i, frames'[i] = frames[i], Clear(i), pages' = pages, reentered \subseteq reentered'
  PROVE  Clear(i)'
BY DEF Clear, Resident

\* A system call stores nothing.
LEMMA RequestCopies ==
  ASSUME TypeOK, ControlInv, CopiesInv, Reentering, NEW key \in Key, Request(key)
  PROVE  CopiesInv'
<1>1. TypeOK'
  BY RequestControl
<1>2. CallsNoted' /\ reentered \subseteq reentered'
  BY <1>1, NotesCalls
<1>3. pages' = pages /\ control = "user" /\ control' = "ask"
  BY DEF Request
<1>4. CopiesAgree'
  BY <1>2, <1>3, SamePagesAgree DEF CopiesInv
<1>5. PICK n \in Nat : n = Len(frames)
  BY DEF TypeOK
<1>6. /\ DOMAIN frames = 1..n /\ DOMAIN frames' = 1..(n + 1) /\ Len(frames') = n + 1
      /\ \A i \in 1..n : frames'[i] = frames[i]
  BY <1>5 DEF Request, TypeOK
<1>7. ASSUME NEW i \in 1..(n + 1), i # n + 1
      PROVE  Clear(i)'
  <2>1. i \in 1..n
    BY <1>5, <1>7
  <2>2. Clear(i)
    BY <1>3, <1>6, <2>1 DEF CopiesInv, FramesClear
  <2>. QED
    BY <1>2, <1>3, <1>6, <2>1, <2>2, StaysClear
<1>8. FramesClear'
  BY <1>3, <1>6, <1>7 DEF FramesClear
<1>9. ReturnAgrees'
  BY <1>3 DEF ReturnAgrees
<1>. QED
  BY <1>2, <1>4, <1>8, <1>9 DEF CopiesInv

\* The frames below the one that ends.
LEMMA PopClear ==
  ASSUME TypeOK, ControlInv, CopiesInv, frames # <<>>, frames' = Front(frames),
         control' # "ask", pages' = pages, reentered \subseteq reentered'
  PROVE  FramesClear'
<1>1. PICK n \in Nat \ {0} : n = Len(frames)
  BY StackFacts DEF TypeOK, Frame
<1>2. /\ DOMAIN frames = 1..n /\ DOMAIN frames' = 1..(n - 1)
      /\ \A i \in 1..(n - 1) : frames'[i] = frames[i]
  BY <1>1, StackFacts DEF TypeOK, Frame
<1>3. ASSUME NEW i \in 1..(n - 1)
      PROVE  Clear(i)'
  <2>1. i \in 1..n /\ i # n
    BY <1>1
  <2>2. Clear(i)
    BY <1>1, <1>2, <2>1 DEF CopiesInv, FramesClear
  <2>. QED
    BY <1>2, <2>2, StaysClear
<1>. QED
  BY <1>2, <1>3 DEF FramesClear

\* A hit returns the copy of the level that has one.
LEMMA HitCopies ==
  ASSUME TypeOK, ControlInv, CopiesInv, Reentering, Hit
  PROVE  CopiesInv'
<1>1. /\ TypeOK' /\ frames' = Front(frames) /\ control' # "ask"
      /\ control' = "return" => /\ Last(frames').key = Running.key
                                /\ returned' = pages[Running.level][Running.key]
  BY HitControl
<1>2. CallsNoted' /\ reentered \subseteq reentered'
  BY <1>1, NotesCalls
<1>3. pages' = pages /\ frames # <<>>
  BY DEF Hit, ControlInv
<1>4. CopiesAgree'
  BY <1>2, <1>3, SamePagesAgree DEF CopiesInv
<1>5. FramesClear'
  BY <1>1, <1>2, <1>3, PopClear
<1>6. ReturnAgrees'
  <2>1. SUFFICES ASSUME control' = "return", Running.key \notin reentered',
                        NEW level \in Level
                 PROVE  pages[level][Running.key] \in {0, pages[Running.level][Running.key]}
    BY <1>1, <1>3 DEF ReturnAgrees, Running
  <2>2. Running.key \in Key \ reentered /\ Running.level \in Level
    BY <1>2, <1>3, <2>1, RunningFacts
  <2>3. Running.key \in Resident(Running.level)
    BY DEF Hit
  <2>4. CASE pages[level][Running.key] = 0
    BY <2>4
  <2>5. CASE pages[level][Running.key] # 0
    <3>1. Running.key \in Resident(level)
      BY <2>2, <2>5 DEF Resident
    <3>. QED
      BY <2>2, <2>3, <3>1 DEF CopiesInv, CopiesAgree
  <2>. QED
    BY <2>4, <2>5
<1>. QED
  BY <1>2, <1>4, <1>5, <1>6 DEF CopiesInv

\* A level that misses has no copy.
LEMMA MissCopies ==
  ASSUME TypeOK, ControlInv, CopiesInv, Reentering, Miss
  PROVE  CopiesInv'
<1>1. /\ TypeOK' /\ frames # <<>>
      /\ Running.level < LastLevel =>
           /\ control' = "ask"
           /\ frames' # <<>>
           /\ Front(frames') = frames
      /\ Running.level = LastLevel => control' \in {"user", "throw"} /\ frames' = frames
  BY MissControl
<1>2. CallsNoted' /\ reentered \subseteq reentered'
  BY <1>1, NotesCalls
<1>3. pages' = pages
  BY DEF Miss
<1>4. CopiesAgree'
  BY <1>2, <1>3, SamePagesAgree DEF CopiesInv
<1>5. PICK n \in Nat \ {0} : n = Len(frames)
  BY <1>1, StackFacts DEF TypeOK, Frame
<1>6. DOMAIN frames = 1..n /\ Running = frames[n]
  BY <1>1, <1>5, StackFacts DEF TypeOK, Frame, Running
<1>7. ASSUME NEW i \in 1..n
      PROVE  Clear(i)
  <2>1. CASE i = n
    BY <1>6, <2>1 DEF Miss, Clear
  <2>2. CASE i # n
    BY <1>5, <1>6, <2>2 DEF CopiesInv, FramesClear
  <2>. QED
    BY <2>1, <2>2
<1>8. control' # "return"
  BY <1>1, RunningFacts, LevelFacts
<1>9. FramesClear'
  <2>1. CASE Running.level < LastLevel
    <3>1. /\ DOMAIN frames' = 1..(n + 1) /\ Len(frames') = n + 1
          /\ \A i \in 1..n : frames'[i] = frames[i]
      <4>1. frames' \in Seq(Frame) /\ frames' # <<>> /\ Front(frames') = frames
        BY <1>1, <2>1 DEF TypeOK, Frame
      <4>2. /\ Len(frames') \in Nat \ {0} /\ Len(frames) = Len(frames') - 1
            /\ \A i \in 1..(Len(frames') - 1) : Front(frames')[i] = frames'[i]
            /\ DOMAIN frames' = 1..Len(frames')
        BY <4>1, StackFacts
      <4>3. Len(frames') = n + 1
        BY <1>5, <4>2
      <4>. QED
        BY <1>5, <4>1, <4>2, <4>3
    <3>2. ASSUME NEW i \in 1..(n + 1), i # n + 1
          PROVE  Clear(i)'
      <4>1. i \in 1..n
        BY <1>5, <3>2
      <4>. QED
        BY <1>2, <1>3, <1>7, <3>1, <4>1, StaysClear
    <3>. QED
      BY <1>1, <2>1, <3>1, <3>2 DEF FramesClear
  <2>2. CASE Running.level = LastLevel
    <3>1. ASSUME NEW i \in 1..n PROVE Clear(i)'
      BY <1>1, <1>2, <1>3, <1>7, <2>2, StaysClear
    <3>. QED
      BY <1>1, <1>6, <2>2, <3>1 DEF FramesClear
  <2>. QED
    BY <1>1, <2>1, <2>2, RunningFacts, LevelFacts
<1>. QED
  BY <1>2, <1>4, <1>8, <1>9 DEF CopiesInv, ReturnAgrees

\* A loader ends with no copy of its key anywhere, unless that was asked for again.
LEMMA LoadCopies ==
  ASSUME TypeOK, ControlInv, CopiesInv, Reentering, Load
  PROVE  CopiesInv'
<1>1. TypeOK' /\ control' # "ask" /\ control = "user" /\ frames # <<>>
  BY LoadControl DEF Load
<1>2. CallsNoted' /\ reentered \subseteq reentered'
  BY <1>1, NotesCalls
<1>3. pages' = pages /\ frames' = frames /\ Running' = Running
  BY DEF Load, Running
<1>4. CopiesAgree'
  BY <1>2, <1>3, SamePagesAgree DEF CopiesInv
<1>5. ASSUME NEW i \in DOMAIN frames PROVE Clear(i)
  BY <1>1 DEF CopiesInv, FramesClear
<1>6. FramesClear'
  <2>1. ASSUME NEW i \in DOMAIN frames PROVE Clear(i)'
    BY <1>2, <1>3, <1>5, StaysClear
  <2>. QED
    BY <1>3, <2>1 DEF FramesClear
<1>7. ReturnAgrees'
  <2>1. SUFFICES ASSUME Running.key \notin reentered', NEW level \in Level
                 PROVE  pages[level][Running.key] = 0
    BY <1>3 DEF ReturnAgrees
  <2>2. PICK n \in Nat \ {0} : n = Len(frames) /\ Running = frames[n] /\ n \in DOMAIN frames
    <3>1. frames \in Seq(Frame)
      BY DEF TypeOK, Frame
    <3>2. Len(frames) \in Nat \ {0} /\ Last(frames) = frames[Len(frames)]
      BY <1>1, <3>1, StackFacts
    <3>3. Len(frames) \in DOMAIN frames
      BY <3>1, <3>2
    <3>. QED
      BY <3>2, <3>3 DEF Running
  <2>3. Running.level = LastLevel /\ Running.key \in Key
    BY <1>1, RunningFacts DEF ControlInv
  <2>4. level \in 1..frames[n].level
    BY <2>2, <2>3, LevelFacts
  <2>5. PICK j \in DOMAIN frames : frames[j] = [level |-> level, key |-> Running.key]
    BY <2>2, <2>4 DEF ControlInv, Chained
  <2>6. frames[j].level = level /\ frames[j].key = Running.key
    BY <2>5
  <2>7. Running.key \notin Resident(level)
    BY <1>2, <1>5, <2>1, <2>6 DEF Clear
  <2>. QED
    BY <2>3, <2>7 DEF Resident
<1>. QED
  BY <1>2, <1>4, <1>6, <1>7 DEF CopiesInv

\* The copy stored is the one that is returned.
LEMMA InsertCopies ==
  ASSUME TypeOK, ControlInv, CopiesInv, Reentering, Insert
  PROVE  CopiesInv'
<1>1. /\ TypeOK' /\ frames' = Front(frames) /\ control = "return" /\ control' # "ask"
      /\ control' = "return" => Last(frames').key = Running.key /\ returned' = returned
  BY InsertControl DEF Insert
<1>2. CallsNoted' /\ reentered \subseteq reentered'
  BY <1>1, NotesCalls
<1>3. PICK victims \in SUBSET Resident(Running.level) :
        /\ frames # <<>> /\ Running.level \in Level /\ Running.key \in Key
        /\ \A level \in Level, key \in Key :
             pages'[level][key] =
               IF level # Running.level THEN pages[level][key]
               ELSE IF key = Running.key THEN returned
               ELSE IF key \in victims THEN 0 ELSE pages[level][key]
  BY InsertPages
<1>4. ASSUME NEW level \in Level, NEW key \in Key, key # Running.key \/ level # Running.level
      PROVE  pages'[level][key] \in {0, pages[level][key]}
  BY <1>3, <1>4
<1>5. ASSUME Running.key \notin reentered, NEW level \in Level
      PROVE  pages'[level][Running.key] \in {0, returned}
  <2>1. pages[level][Running.key] \in {0, returned}
    BY <1>1, <1>5 DEF CopiesInv, ReturnAgrees
  <2>. QED
    BY <1>3, <2>1
<1>6. CopiesAgree'
  <2>1. SUFFICES ASSUME NEW key \in Key, key \notin reentered',
                        NEW upper \in Level, NEW lower \in Level,
                        pages'[upper][key] # 0, pages'[lower][key] # 0
                 PROVE  pages'[upper][key] = pages'[lower][key]
    BY DEF CopiesAgree, Resident
  <2>2. key \notin reentered
    BY <1>2, <2>1
  <2>3. CASE key = Running.key
    BY <1>5, <2>1, <2>2, <2>3
  <2>4. CASE key # Running.key
    <3>1. pages'[upper][key] = pages[upper][key] /\ pages'[lower][key] = pages[lower][key]
      BY <1>4, <2>1, <2>4
    <3>2. key \in Resident(upper) \cap Resident(lower)
      BY <2>1, <3>1 DEF Resident
    <3>. QED
      BY <2>2, <3>1, <3>2 DEF CopiesInv, CopiesAgree
  <2>. QED
    BY <2>3, <2>4
<1>7. PICK n \in Nat \ {0} :
        /\ n = Len(frames) /\ Running = frames[n]
        /\ DOMAIN frames = 1..n /\ DOMAIN frames' = 1..(n - 1)
        /\ \A i \in 1..(n - 1) : frames'[i] = frames[i]
  BY <1>1, <1>3, StackFacts DEF TypeOK, Frame, Running
<1>8. FramesClear'
  <2>1. SUFFICES ASSUME NEW i \in 1..(n - 1), frames[i].key \notin reentered'
                 PROVE  pages'[frames[i].level][frames[i].key] = 0
    BY <1>1, <1>7 DEF FramesClear, Clear, Resident
  <2>2. i \in 1..n /\ i # n
    BY <1>7
  <2>3. frames[i] \in Frame
    <3>1. frames \in Seq(Frame)
      BY DEF TypeOK, Frame
    <3>. QED
      BY <1>7, <2>2, <3>1
  <2>4. frames[i].level \in Level /\ frames[i].key \in Key /\ frames[i].key \notin reentered
    BY <1>2, <2>1, <2>3, FrameFacts
  <2>5. pages[frames[i].level][frames[i].key] = 0
    BY <1>1, <1>7, <2>2, <2>4 DEF CopiesInv, FramesClear, Clear, Resident
  <2>6. frames[i] # frames[n]
    BY <1>7, <2>2, <2>4, OneFramePerLevel DEF CopiesInv
  <2>7. frames[i].level # Running.level \/ frames[i].key # Running.key
    <3>1. /\ frames[i] = [level |-> frames[i].level, key |-> frames[i].key]
          /\ Running = [level |-> Running.level, key |-> Running.key]
      BY <1>3, <2>3, FrameFacts, RunningFacts
    <3>. QED
      BY <1>7, <2>6, <3>1
  <2>. QED
    BY <1>4, <2>4, <2>5, <2>7
<1>9. ReturnAgrees'
  <2>1. SUFFICES ASSUME control' = "return", Running.key \notin reentered', NEW level \in Level
                 PROVE  pages'[level][Running.key] \in {0, returned}
    BY <1>1 DEF ReturnAgrees, Running
  <2>. QED
    BY <1>2, <1>5, <2>1
<1>. QED
  BY <1>2, <1>6, <1>8, <1>9 DEF CopiesInv

\* A failure stores nothing.
LEMMA FailCopies ==
  ASSUME TypeOK, ControlInv, CopiesInv, Reentering, AskFails \/ InsertThrows \/ Unwind
  PROVE  CopiesInv'
<1>1. /\ TypeOK' /\ pages' = pages /\ frames # <<>> /\ frames' = Front(frames)
      /\ control' # "ask" /\ control' # "return"
  BY FailControl
<1>2. CallsNoted' /\ reentered \subseteq reentered'
  BY <1>1, NotesCalls
<1>3. CopiesAgree'
  BY <1>1, <1>2, SamePagesAgree DEF CopiesInv
<1>4. FramesClear'
  BY <1>1, <1>2, PopClear
<1>. QED
  BY <1>1, <1>2, <1>3, <1>4 DEF CopiesInv, ReturnAgrees

-----------------------------------------------------------------------------
(***************************************************************************)
(* The room in the levels and the depth of the calls, action by action.    *)
(***************************************************************************)

\* A cache of a size takes a key in: another one leaves if there is no room.
TakesIn(old, new, key, size) ==
  IF Cardinality(old) < size
    THEN new = old \cup {key}
    ELSE \E victim \in old : new = (old \ {victim}) \cup {key}

\* The pages of each level, and those of a level that stores one.
LEMMA InsertResident ==
  ASSUME TypeOK, ControlInv, RoomInv, Insert
  PROVE  \E level \in Level, key \in Key :
           /\ level = Running.level /\ key = Running.key /\ key \notin Resident(level)
           /\ \A other \in Level : other # level => Resident(other)' = Resident(other)
           /\ TakesIn(Resident(level), Resident(level)', key, LevelSize[level])
<1>1. PICK L \in Level, k \in Key :
        L = Running.level /\ k = Running.key /\ returned # 0 /\ k \notin Resident(L)
  BY InsertPages
<1>2. PICK victims \in SUBSET Resident(L) :
        /\ Cardinality(victims) = IF Full(L) THEN 1 ELSE 0
        /\ \A level \in Level, key \in Key :
             pages'[level][key] =
               IF level # L THEN pages[level][key]
               ELSE IF key = k THEN returned
               ELSE IF key \in victims THEN 0 ELSE pages[level][key]
  BY <1>1, InsertPages
<1>3. \A level \in Level : level # L => Resident(level)' = Resident(level)
  BY <1>2 DEF Resident
<1>4. Resident(L)' = (Resident(L) \ victims) \cup {k}
  BY <1>1, <1>2 DEF Resident
<1>5. IsFiniteSet(victims) /\ Cardinality(Resident(L)) \in Nat /\ LevelSize[L] \in Nat
  BY FS_Subset, FS_CardinalityType, LevelFacts DEF RoomInv
<1>6. CASE Cardinality(Resident(L)) < LevelSize[L]
  <2>1. ~ Full(L)
    BY <1>5, <1>6 DEF Full
  <2>2. victims = {}
    BY <1>2, <1>5, <2>1, FS_EmptySet
  <2>3. Resident(L)' = Resident(L) \cup {k}
    BY <1>4, <2>2
  <2>4. TakesIn(Resident(L), Resident(L)', k, LevelSize[L])
    BY <1>6, <2>3 DEF TakesIn
  <2>. QED
    BY <1>1, <1>3, <2>4
<1>7. CASE ~ (Cardinality(Resident(L)) < LevelSize[L])
  <2>1. Full(L)
    BY <1>5, <1>7 DEF Full
  <2>2. PICK victim : victims = {victim}
    BY <1>2, <1>5, <2>1, FS_Singleton
  <2>3. victim \in Resident(L)
    BY <1>2, <2>2
  <2>4. Resident(L)' = (Resident(L) \ {victim}) \cup {k}
    BY <1>4, <2>2
  <2>5. TakesIn(Resident(L), Resident(L)', k, LevelSize[L])
    BY <1>7, <2>3, <2>4 DEF TakesIn
  <2>. QED
    BY <1>1, <1>3, <2>5
<1>. QED
  BY <1>6, <1>7

\* No level takes more pages than it has room for.
PagesFit ==
  \A level \in Level : /\ IsFiniteSet(Resident(level))
                       /\ Cardinality(Resident(level)) <= LevelSize[level]

\* A full level gives up a page for the one that it stores.
LEMMA InsertFits ==
  ASSUME TypeOK, ControlInv, RoomInv, Insert
  PROVE  PagesFit'
<1>1. PICK L \in Level, k \in Key :
        /\ k \notin Resident(L)
        /\ \A other \in Level : other # L => Resident(other)' = Resident(other)
        /\ TakesIn(Resident(L), Resident(L)', k, LevelSize[L])
  BY InsertResident
<1>2. PICK old, new : old = Resident(L) /\ new = Resident(L)'
  OBVIOUS
<1>3. /\ IsFiniteSet(old) /\ Cardinality(old) \in Nat /\ Cardinality(old) <= LevelSize[L]
      /\ LevelSize[L] \in Nat
  BY <1>2, FS_CardinalityType, LevelFacts DEF RoomInv
<1>4. IF Cardinality(old) < LevelSize[L] THEN new = old \cup {k}
      ELSE \E victim \in old : new = (old \ {victim}) \cup {k}
  BY <1>1, <1>2 DEF TakesIn
<1>5. k \notin old
  BY <1>1, <1>2
<1>6. IsFiniteSet(new) /\ Cardinality(new) <= LevelSize[L]
  <2>1. CASE Cardinality(old) < LevelSize[L]
    <3>1. Cardinality(old \cup {k}) = Cardinality(old) + 1 /\ IsFiniteSet(old \cup {k})
      BY <1>3, <1>5, FS_AddElement
    <3>2. new = old \cup {k}
      BY <1>4, <2>1
    <3>3. IsFiniteSet(new) /\ Cardinality(new) = Cardinality(old) + 1
      BY <3>1, <3>2
    <3>. QED
      BY <1>3, <2>1, <3>3
  <2>2. CASE ~ (Cardinality(old) < LevelSize[L])
    <3>1. PICK victim \in old : new = (old \ {victim}) \cup {k}
      BY <1>4, <2>2
    <3>2. IsFiniteSet(old \ {victim}) /\ Cardinality(old \ {victim}) = Cardinality(old) - 1
      BY <1>3, FS_RemoveElement
    <3>3. k \notin old \ {victim}
      BY <1>5
    <3>4. IsFiniteSet(new) /\ Cardinality(new) = Cardinality(old \ {victim}) + 1
      BY <3>1, <3>2, <3>3, FS_AddElement
    <3>5. PICK a \in Nat : a = Cardinality(old)
      BY <1>3
    <3>6. PICK b : b = Cardinality(old \ {victim}) /\ b = a - 1
      BY <3>2, <3>5
    <3>7. Cardinality(new) = a
      BY <3>4, <3>6
    <3>. QED
      BY <1>3, <3>4, <3>5, <3>7
  <2>. QED
    BY <2>1, <2>2
<1>7. ASSUME NEW level \in Level, level # L
      PROVE  IsFiniteSet(Resident(level)') /\ Cardinality(Resident(level)') <= LevelSize[level]
  <2>1. Resident(level)' = Resident(level)
    BY <1>1, <1>7
  <2>. QED
    BY <2>1, Zenon DEF RoomInv
<1>8. \A level \in Level : IsFiniteSet(Resident(level)') /\ Cardinality(Resident(level)') <= LevelSize[level]
  BY <1>2, <1>6, <1>7
<1>. QED
  BY <1>8 DEF PagesFit

\* The system calls on a stack.
UserCallsOf(stack) == {i \in DOMAIN stack : stack[i].level = 1}

\* They are as many as the depth of the calls.
LEMMA CallsFacts ==
  ASSUME NEW stack \in Seq(Frame)
  PROVE  /\ IsFiniteSet(UserCallsOf(stack)) /\ Cardinality(UserCallsOf(stack)) \in Nat
         /\ \A frame \in Frame :
              Cardinality(UserCallsOf(Append(stack, frame))) =
                Cardinality(UserCallsOf(stack)) + (IF frame.level = 1 THEN 1 ELSE 0)
         /\ stack # <<>> => Cardinality(UserCallsOf(Front(stack))) <= Cardinality(UserCallsOf(stack))
<1>1. PICK n \in Nat : n = Len(stack) /\ DOMAIN stack = 1..n
  OBVIOUS
<1>2. IsFiniteSet(1..n)
  BY FS_Interval
<1>3. IsFiniteSet(UserCallsOf(stack)) /\ Cardinality(UserCallsOf(stack)) \in Nat
  BY <1>1, <1>2, FS_Subset, FS_CardinalityType DEF UserCallsOf
<1>4. ASSUME NEW frame \in Frame
      PROVE  Cardinality(UserCallsOf(Append(stack, frame))) =
               Cardinality(UserCallsOf(stack)) + (IF frame.level = 1 THEN 1 ELSE 0)
  <2>1. PICK longer \in Seq(Frame) : longer = Append(stack, frame)
    BY AppendProperties
  <2>2. /\ DOMAIN longer = 1..(n + 1) /\ longer[n + 1] = frame
        /\ \A i \in 1..n : longer[i] = stack[i]
    BY <1>1, <2>1
  <2>3. CASE frame.level = 1
    <3>1. UserCallsOf(longer) = UserCallsOf(stack) \cup {n + 1} /\ n + 1 \notin UserCallsOf(stack)
      BY <1>1, <2>2, <2>3 DEF UserCallsOf
    <3>. QED
      BY <1>3, <2>1, <2>3, <3>1, FS_AddElement
  <2>4. CASE frame.level # 1
    <3>1. UserCallsOf(longer) = UserCallsOf(stack)
      BY <1>1, <2>2, <2>4 DEF UserCallsOf
    <3>. QED
      BY <1>3, <2>1, <2>4, <3>1
  <2>. QED
    BY <2>3, <2>4
<1>5. ASSUME stack # <<>>
      PROVE  Cardinality(UserCallsOf(Front(stack))) <= Cardinality(UserCallsOf(stack))
  <2>1. UserCallsOf(Front(stack)) \subseteq UserCallsOf(stack)
    BY <1>1, <1>5, StackFacts DEF UserCallsOf
  <2>. QED
    BY <1>3, <2>1, FS_Subset
<1>. QED
  BY <1>3, <1>4, <1>5

\* No action takes more room or depth than there is.
LEMMA RoomStep ==
  ASSUME TypeOK, ControlInv, RoomInv, Next
  PROVE  RoomInv'
<1>1. Depth = Cardinality(UserCallsOf(frames)) /\ Depth' = Cardinality(UserCallsOf(frames'))
  BY DEF Depth, UserCallsOf
<1>2. frames \in Seq(Frame) /\ Depth <= MaxDepth /\ PagesFit /\ MaxDepth \in Nat
  BY BoundsAssumption DEF TypeOK, Frame, RoomInv, PagesFit
<1>3. ASSUME pages' = pages PROVE PagesFit'
  <2>1. \A level \in Level : Resident(level)' = Resident(level)
    BY <1>3 DEF Resident
  <2>. QED
    BY <1>2, <2>1, Zenon DEF PagesFit
<1>4. ASSUME frames # <<>>, frames' = Front(frames) PROVE Depth' <= MaxDepth
  <2>1. Cardinality(UserCallsOf(frames')) <= Cardinality(UserCallsOf(frames))
    BY <1>2, <1>4, CallsFacts
  <2>2. frames' \in Seq(Frame)
    BY <1>2, <1>4, StackFacts
  <2>. QED
    BY <1>1, <1>2, <2>1, <2>2, CallsFacts
<1>5. CASE \E key \in Key : Request(key)
  <2>1. PICK key \in Key : Request(key)
    BY <1>5
  <2>2. PICK frame \in Frame : frame = [level |-> 1, key |-> key]
    BY LevelFacts DEF Frame
  <2>3. frames' = Append(frames, frame) /\ frame.level = 1 /\ pages' = pages /\ Depth < MaxDepth
    BY <2>1, <2>2 DEF Request
  <2>4. Depth' = Depth + 1 /\ Depth \in Nat
    BY <1>1, <1>2, <2>3, CallsFacts
  <2>. QED
    BY <1>2, <1>3, <2>3, <2>4 DEF RoomInv, PagesFit
<1>6. CASE Hit
  BY <1>3, <1>4, <1>6, HitControl DEF RoomInv, PagesFit, Hit, ControlInv
<1>7. CASE Miss
  <2>1. frames # <<>> /\ pages' = pages
    BY <1>7, MissControl DEF Miss
  <2>2. CASE Running.level < LastLevel
    <3>1. PICK frame \in Frame : frame = [level |-> Running.level + 1, key |-> Running.key]
      <4>1. Running.level + 1 \in Level /\ Running.key \in Key
        BY <2>1, <2>2, RunningFacts, LevelFacts
      <4>2. [level |-> Running.level + 1, key |-> Running.key] \in Frame
        BY <4>1 DEF Frame
      <4>. QED
        BY <4>2
    <3>2. frames' = Append(frames, frame)
      BY <1>7, <2>2, <3>1 DEF Miss
    <3>3. frame.level # 1
      BY <2>1, <3>1, RunningFacts
    <3>4. Depth' = Depth
      BY <1>1, <1>2, <3>2, <3>3, CallsFacts
    <3>. QED
      BY <1>2, <1>3, <2>1, <3>4 DEF RoomInv, PagesFit
  <2>3. CASE Running.level = LastLevel
    <3>1. frames' = frames
      BY <1>7, <2>3, MissControl
    <3>. QED
      BY <1>1, <1>2, <1>3, <2>1, <3>1 DEF RoomInv, PagesFit
  <2>. QED
    BY <2>1, <2>2, <2>3, RunningFacts, LevelFacts
<1>8. CASE Load
  <2>1. frames' = frames /\ pages' = pages
    BY <1>8 DEF Load
  <2>. QED
    BY <1>1, <1>2, <1>3, <2>1 DEF RoomInv, PagesFit
<1>9. CASE Insert
  <2>1. frames # <<>> /\ frames' = Front(frames)
    BY <1>9, InsertControl, InsertPages
  <2>. QED
    BY <1>4, <1>9, <2>1, InsertFits DEF RoomInv, PagesFit
<1>10. CASE AskFails \/ InsertThrows \/ Unwind
  <2>1. frames # <<>> /\ frames' = Front(frames) /\ pages' = pages
    BY <1>10, FailControl
  <2>. QED
    BY <1>3, <1>4, <2>1 DEF RoomInv, PagesFit
<1>. QED
  BY <1>5, <1>6, <1>7, <1>8, <1>9, <1>10 DEF Next

-----------------------------------------------------------------------------
(***************************************************************************)
(* The inductive invariant holds, and what follows from it.                *)
(***************************************************************************)

\* Nothing is cached, counted or called at first.
LEMMA InitInv == HistoryInit => Inv
<1>. SUFFICES ASSUME HistoryInit PROVE Inv
  OBVIOUS
<1>1. /\ pages = [level \in Level |-> [key \in Key |-> 0]]
      /\ levelStats = [level \in Level |-> [requests |-> 0, hits |-> 0, misses |-> 0]]
      /\ stats_ = [requests |-> 0, hits |-> 0, misses |-> 0]
      /\ frames = <<>> /\ control = "user" /\ returned = 0
      /\ reentered = {} /\ requestCount = 0 /\ memoryLoadCount = 0
      /\ lost = [stage \in Stage |-> 0]
  BY DEF HistoryInit, Init
<1>2. LastLevel \in Nat \ {0} /\ 1 \in Level /\ LastLevel \in Level
  BY LevelFacts
<1>3. TypeOK
  BY <1>1, <1>2 DEF TypeOK, Stats
<1>4. ControlInv
  BY <1>1 DEF ControlInv, Chained, Nested
<1>5. \A level \in Level : levelStats[level].requests = 0 /\ levelStats[level].hits = 0
                          /\ levelStats[level].misses = 0
  BY <1>1
<1>6. SumFunction([level \in Level |-> levelStats[level].hits]) = 0
  <2>1. [level \in Level |-> levelStats[level].hits] = [level \in Level |-> 0]
    BY <1>5
  <2>. QED
    BY <2>1, LevelFacts, SumOfZeros
<1>7. SumOfHits(levelStats) = 0
  BY <1>1, <1>6 DEF SumOfHits
<1>8. stats_ = TotalStats(levelStats)
  BY <1>1, <1>2, <1>5, <1>6 DEF TotalStats
<1>9. \A level \in Level : level < LastLevel => level + 1 \in Level
  BY LevelFacts
<1>10. CountsInv
  <2>1. /\ lost \in [Stage -> Nat] /\ lost[LastLevel + 1] = 0
        /\ \A level \in Level : lost[level] = 0 /\ Settled(level) = 0
    <3>1. LastLevel + 1 \in Stage /\ \A level \in Level : level \in Stage
      BY LevelFacts DEF Stage
    <3>2. lost[LastLevel + 1] = 0 /\ \A level \in Level : lost[level] = 0
      BY <1>1, <3>1
    <3>3. \A level \in Level : Settled(level) = 0
      BY <1>5, <3>2 DEF Settled
    <3>. QED
      BY <1>1, <3>2, <3>3
  <2>2. \A level : Uncounted(level) = 0
    BY <1>1 DEF Uncounted
  <2>3. \A level \in Level : levelStats[level].hits + levelStats[level].misses = 0
    BY <1>5
  <2>4. SumOfHits(levelStats) + levelStats[LastLevel].misses + 0 = requestCount
    BY <1>1, <1>2, <1>5, <1>7
  <2>. QED
    BY <1>1, <1>2, <1>5, <1>8, <1>9, <2>1, <2>2, <2>3, <2>4 DEF CountsInv
<1>11. \A level \in Level : Resident(level) = {}
  BY <1>1 DEF Resident
<1>12. RoomInv
  <2>1. Depth = 0 /\ MaxDepth \in Nat
    <3>1. {i \in DOMAIN frames : frames[i].level = 1} = {}
      BY <1>1
    <3>. QED
      BY <3>1, FS_EmptySet, BoundsAssumption DEF Depth
  <2>2. \A level \in Level : IsFiniteSet(Resident(level)) /\ Cardinality(Resident(level)) = 0
    BY <1>11, FS_EmptySet
  <2>3. \A level \in Level : 0 <= LevelSize[level]
    BY LevelFacts
  <2>. QED
    BY <2>1, <2>2, <2>3 DEF RoomInv
<1>13. CopiesInv
  BY <1>1, <1>11 DEF CopiesInv, CallsNoted, FramesClear, ReturnAgrees, CopiesAgree
<1>. QED
  BY <1>3, <1>4, <1>10, <1>12, <1>13 DEF Inv

\* Every action preserves it.
LEMMA NextInv == Inv /\ HistoryNext => Inv'
<1>. SUFFICES ASSUME Inv, HistoryNext PROVE Inv'
  OBVIOUS
<1>1. /\ TypeOK /\ ControlInv /\ CountsInv /\ RoomInv /\ CopiesInv
      /\ Next /\ Reentering /\ RunnerCounts
  BY DEF Inv, HistoryNext, Reentering, RunnerCounts
<1>2. RoomInv'
  BY <1>1, RoomStep
<1>3. TypeOK' /\ ControlInv' /\ CountsInv' /\ CopiesInv'
  <2>1. CASE \E key \in Key : Request(key)
    BY <1>1, <2>1, RequestControl, RequestCounted, RequestCopies
  <2>2. CASE Hit
    BY <1>1, <2>2, HitControl, HitCounts, HitCopies
  <2>3. CASE Miss
    BY <1>1, <2>3, MissControl, MissCounts, MissCopies
  <2>4. CASE Load
    <3>1. control = "user" /\ levelStats' = levelStats /\ stats_' = stats_ /\ frames' = frames
      BY <2>4 DEF Load
    <3>2. frames' # <<>>
      BY <2>4, <3>1 DEF Load
    <3>. QED
      BY <1>1, <2>4, <3>1, <3>2, LoadControl, LoadCopies, QuietCounts
  <2>5. CASE Insert
    <3>1. control = "return" /\ levelStats' = levelStats
      BY <2>5 DEF Insert
    <3>. QED
      BY <1>1, <2>5, <3>1, InsertControl, InsertCopies, QuietCounts
  <2>6. CASE AskFails
    BY <1>1, <2>6, FailControl, FailCopies, FailCounts
  <2>7. CASE InsertThrows \/ Unwind
    <3>1. control # "ask" /\ levelStats' = levelStats
      BY <2>7 DEF InsertThrows, Unwind
    <3>. QED
      BY <1>1, <2>7, <3>1, FailControl, FailCopies, QuietCounts
  <2>. QED
    BY <1>1, <2>1, <2>2, <2>3, <2>4, <2>5, <2>6, <2>7 DEF Next
<1>. QED
  BY <1>2, <1>3 DEF Inv

\* A step that changes nothing preserves it.
LEMMA QuietInv == Inv /\ UNCHANGED historyVars => Inv'
<1>. SUFFICES ASSUME Inv, UNCHANGED historyVars PROVE Inv'
  OBVIOUS
<1>1. /\ pages' = pages /\ levelStats' = levelStats /\ stats_' = stats_ /\ frames' = frames
      /\ control' = control /\ returned' = returned /\ reentered' = reentered
      /\ requestCount' = requestCount /\ memoryLoadCount' = memoryLoadCount /\ lost' = lost
  BY DEF historyVars, vars
<1>2. TypeOK'
  BY <1>1 DEF Inv, TypeOK
<1>3. ControlInv'
  BY <1>1 DEF Inv, ControlInv, Running
<1>4. CountsInv'
  BY <1>1 DEF Inv, CountsInv, Uncounted, Settled, Running
<1>5. RoomInv'
  <2>1. Depth' = Depth
    BY <1>1 DEF Depth
  <2>2. \A level \in Level : Resident(level)' = Resident(level)
    BY <1>1 DEF Resident
  <2>. QED
    BY <2>1, <2>2, Zenon DEF Inv, RoomInv
<1>6. CopiesInv'
  BY <1>1 DEF Inv, CopiesInv, CallsNoted, FramesClear, Clear, ReturnAgrees, CopiesAgree,
              Resident, Running
<1>. QED
  BY <1>2, <1>3, <1>4, <1>5, <1>6 DEF Inv

\* The inductive invariant holds in every reachable state.
LEMMA Invariant == HistorySpec => []Inv
<1>. QED
  BY InitInv, NextInv, QuietInv, PTL DEF HistorySpec

\* Between system calls checkCacheStatistics of the runner accepts the counters
\* exactly when no call failed before a level had counted a hit or a miss or, the
\* miss counted, before the loader was called; check_statistics of the scripts
\* does exactly when none failed before a level had counted a hit or a miss.
\* Whenever the user runs, the counters of the levels and those calls account for
\* each other, whichever loads and insertions failed and whatever loaders called.
THEOREM CountersAreAccepted == HistorySpec => []StatisticsAccepted
<1>. QED
  BY Invariant, InvAccepted, PTL

\* No two levels hold different pages of one key, unless a loader asked the
\* system for its own key.
THEOREM OneLoadPerKey == HistorySpec => []CopiesAgree
<1>1. Inv => CopiesAgree
  BY DEF Inv, CopiesInv
<1>. QED
  BY <1>1, Invariant, PTL

\* The levels keep to their sizes.
THEOREM LevelsFit == HistorySpec => []PagesFit
<1>1. Inv => PagesFit
  BY DEF Inv, RoomInv, PagesFit
<1>. QED
  BY <1>1, Invariant, PTL

-----------------------------------------------------------------------------
(***************************************************************************)
(* Each level implements the contract of a cache.  The theorem speaks of   *)
(* one level, whichever it is.                                             *)
(***************************************************************************)

CONSTANT watched  \* a level

Contract ==
  INSTANCE Cache WITH Capacity <- LevelSize[watched],
                      resident <- Resident(watched),
                      calls <- WaitingAt(watched)

\* The frames of the watched level on a stack, and their keys.
OwnFrames(stack) == {i \in DOMAIN stack : stack[i] \in [level : {watched}, key : Key]}

OwnKeys(stack) ==
  LET own == Among(stack, [level : {watched}, key : Key])
  IN [i \in DOMAIN own |-> own[i].key]

\* They are a list of keys, as long as there are frames of the level.
LEMMA OwnKeysFacts ==
  ASSUME watched \in Level, NEW stack \in Seq(Frame)
  PROVE  /\ OwnKeys(stack) \in Seq(Key)
         /\ IsFiniteSet(OwnFrames(stack)) /\ Len(OwnKeys(stack)) = Cardinality(OwnFrames(stack))
<1>. DEFINE T == [level : {watched}, key : Key]
<1>1. PICK own : own = Among(stack, T)
  OBVIOUS
<1>2. own \in Seq(Frame)
  BY <1>1, AmongType
<1>3. OwnKeys(stack) = [i \in 1..Len(own) |-> own[i].key] /\ Len(own) \in Nat
  BY <1>1, <1>2 DEF OwnKeys
<1>4. \A i \in 1..Len(own) : own[i].key \in Key
  BY <1>2, FrameFacts
<1>5. OwnKeys(stack) \in Seq(Key) /\ Len(OwnKeys(stack)) = Len(own)
  BY <1>3, <1>4
<1>6. IsFiniteSet(OwnFrames(stack)) /\ Len(own) = Cardinality(OwnFrames(stack))
  BY <1>1, AmongLength DEF OwnFrames
<1>. QED
  BY <1>5, <1>6

\* A frame above them.
LEMMA OwnKeysAppend ==
  ASSUME watched \in Level, NEW stack \in Seq(Frame), NEW frame \in Frame
  PROVE  OwnKeys(Append(stack, frame)) =
           IF frame.level = watched THEN Append(OwnKeys(stack), frame.key) ELSE OwnKeys(stack)
<1>1. frame.level \in Level /\ frame.key \in Key /\ frame = [level |-> frame.level, key |-> frame.key]
  BY FrameFacts
<1>2. PICK T : T = [level : {watched}, key : Key] /\ (frame \in T <=> frame.level = watched)
  <2>1. frame \in [level : {watched}, key : Key] <=> frame.level = watched
    BY <1>1
  <2>. QED
    BY <2>1
<1>3. PICK own \in Seq(Frame) : own = Among(stack, T)
  BY AmongType
<1>4. Among(Append(stack, frame), T) = IF frame \in T THEN Append(own, frame) ELSE own
  <2>1. Among(Append(stack, frame), T) =
          IF frame \in T THEN Append(Among(stack, T), frame) ELSE Among(stack, T)
    BY AmongAppend
  <2>. QED
    BY <1>3, <2>1
<1>5. OwnKeys(stack) = [i \in 1..Len(own) |-> own[i].key] /\ Len(own) \in Nat
  BY <1>2, <1>3 DEF OwnKeys
<1>6. CASE frame.level = watched
  <2>1. PICK longer \in Seq(Frame) : longer = Append(own, frame)
    BY AppendProperties
  <2>2. /\ Len(longer) = Len(own) + 1 /\ longer[Len(own) + 1] = frame
        /\ \A i \in 1..Len(own) : longer[i] = own[i]
    BY <2>1
  <2>3. Among(Append(stack, frame), T) = longer
    BY <1>2, <1>6, <1>4, <2>1
  <2>4. DOMAIN longer = 1..(Len(own) + 1)
    BY <2>1, <2>2
  <2>5. OwnKeys(Append(stack, frame)) = [i \in 1..(Len(own) + 1) |-> longer[i].key]
    BY <1>2, <2>3, <2>4 DEF OwnKeys
  <2>6. PICK keys : keys = OwnKeys(stack)
    OBVIOUS
  <2>7. keys \in Seq(Key) /\ keys = [i \in 1..Len(own) |-> own[i].key]
    BY <1>5, <2>6, OwnKeysFacts
  <2>8. Append(keys, frame.key) = [i \in 1..(Len(own) + 1) |-> longer[i].key]
    <3>1. PICK more \in Seq(Key) : more = Append(keys, frame.key)
      BY <1>1, <2>7, AppendProperties
    <3>2. Len(keys) = Len(own)
      BY <1>5, <2>7
    <3>3. /\ Len(more) = Len(keys) + 1 /\ more[Len(keys) + 1] = frame.key
          /\ \A i \in 1..Len(keys) : more[i] = keys[i]
      BY <1>1, <2>7, <3>1, AppendProperties
    <3>4. \A i \in 1..Len(own) : keys[i] = own[i].key
      BY <2>7
    <3>5. /\ Len(more) = Len(own) + 1
          /\ \A i \in 1..Len(own) : more[i] = own[i].key
          /\ more[Len(own) + 1] = frame.key
      BY <3>2, <3>3, <3>4
    <3>6. \A i \in 1..(Len(own) + 1) : more[i] = longer[i].key
      BY <1>5, <2>2, <3>5
    <3>7. more = [i \in 1..(Len(own) + 1) |-> longer[i].key]
      BY <3>1, <3>5, <3>6
    <3>. QED
      BY <3>1, <3>7
  <2>. QED
    BY <1>6, <2>5, <2>6, <2>8
<1>7. CASE frame.level # watched
  BY <1>2, <1>3, <1>7, <1>4 DEF OwnKeys
<1>. QED
  BY <1>6, <1>7

\* A level is not on the stack more often than the system has been called.
LEMMA OwnFramesFew ==
  ASSUME watched \in Level, TypeOK, ControlInv
  PROVE  Cardinality(OwnFrames(frames)) <= Depth
<1>1. PICK stack \in Seq(Frame) : stack = frames
  BY DEF TypeOK, Frame
<1>2. IsFiniteSet(OwnFrames(stack)) /\ IsFiniteSet(UserCallsOf(stack))
  BY OwnKeysFacts, CallsFacts
<1>. DEFINE bottom == [i \in OwnFrames(stack) |-> i - watched + 1]
<1>3. ASSUME NEW i \in OwnFrames(stack) PROVE i \in Int /\ i - watched + 1 \in UserCallsOf(stack)
  <2>1. i \in DOMAIN stack /\ stack[i].level = watched /\ watched \in Int /\ i \in Int
    BY LevelFacts DEF OwnFrames
  <2>2. 1 \in 1..stack[i].level
    BY <2>1, LevelFacts
  <2>3. Chained(stack)
    BY <1>1 DEF ControlInv
  <2>4. /\ i - stack[i].level + 1 \in DOMAIN stack
        /\ stack[i - stack[i].level + 1] = [level |-> 1, key |-> stack[i].key]
    BY <2>1, <2>2, <2>3 DEF Chained
  <2>. QED
    BY <2>1, <2>4 DEF UserCallsOf
<1>4. bottom \in Injection(OwnFrames(stack), UserCallsOf(stack))
  <2>1. watched \in Int
    BY LevelFacts
  <2>. QED
    BY <1>3, <2>1 DEF Injection, IsInjective
<1>5. Cardinality(OwnFrames(stack)) <= Cardinality(UserCallsOf(stack))
  BY <1>2, <1>4, FS_Injection
<1>. QED
  BY <1>1, <1>5 DEF Depth, UserCallsOf

\* The calls that wait, after a frame has been put on the stack or taken off.
LEMMA WaitingPushed ==
  ASSUME watched \in Level, NEW stack \in Seq(Frame), stack # <<>>
  PROVE  /\ OwnKeys(Front(stack)) \in Seq(Key)
         /\ Last(stack).key \in Key
         /\ OwnKeys(stack) = IF Last(stack).level = watched
                               THEN Append(OwnKeys(Front(stack)), Last(stack).key)
                               ELSE OwnKeys(Front(stack))
<1>1. PICK front \in Seq(Frame), frame \in Frame :
        front = Front(stack) /\ frame = Last(stack) /\ frame.key \in Key
  BY StackFacts
<1>2. stack = Append(front, frame)
  <2>1. PICK longer \in Seq(Frame) : longer = Append(front, frame)
    BY AppendProperties
  <2>2. /\ Len(stack) \in Nat \ {0} /\ Len(front) = Len(stack) - 1 /\ frame = stack[Len(stack)]
        /\ \A i \in 1..(Len(stack) - 1) : front[i] = stack[i]
    BY <1>1, StackFacts
  <2>3. Len(longer) = Len(stack) /\ \A i \in 1..Len(stack) : longer[i] = stack[i]
    BY <2>1, <2>2
  <2>4. longer = stack
    BY <2>3, SeqEqual
  <2>. QED
    BY <2>1, <2>4
<1>. QED
  BY <1>1, <1>2, OwnKeysFacts, OwnKeysAppend, ZenonT(40)

\* The contract's operators on sets and lists are those of this module.
LEMMA SameProtocol ==
  /\ \A list : Contract!Front(list) = Front(list) /\ Contract!Last(list) = Last(list)
  /\ \A S : Contract!Cardinality(S) = Cardinality(S)
<1>1. \A list : Contract!Front(list) = Front(list) /\ Contract!Last(list) = Last(list)
  BY DEF Contract!Last, Contract!Front, Last, Front
<1>2. \A S : Contract!Cardinality(S) = Cardinality(S)
  BY DEF Contract!Cardinality, Cardinality
<1>. QED
  BY <1>1, <1>2

\* What waits at the watched level.
LEMMA WaitingKeys ==
  /\ WaitingAt(watched) = OwnKeys(Waiting)
  /\ WaitingAt(watched)' = OwnKeys(Waiting')
BY DEF WaitingAt, OwnKeys

\* The keys below the last one, when a call has begun and when it has ended.
LEMMA CallBegins ==
  ASSUME watched \in Level, TypeOK, ControlInv, RoomInv, Miss
  PROVE  IF Running.level = watched
           THEN /\ Len(WaitingAt(watched)) < MaxDepth
                /\ WaitingAt(watched)' = Append(WaitingAt(watched), Running.key)
           ELSE WaitingAt(watched)' = WaitingAt(watched)
<1>1. PICK stack \in Seq(Frame) : stack = frames /\ stack # <<>> /\ Running = Last(stack)
  BY MissControl DEF TypeOK, Frame, Running
<1>2. Waiting = Front(stack) /\ Waiting' = stack
  <2>1. control = "ask"
    BY DEF Miss
  <2>2. Running.level \in Level
    BY <1>1, StackFacts
  <2>3. \/ control' = "ask" /\ Front(frames') = frames
        \/ control' # "ask" /\ frames' = frames
    BY <2>2, MissControl, LevelFacts
  <2>. QED
    BY <1>1, <2>1, <2>3 DEF Waiting
<1>3. /\ WaitingAt(watched) = OwnKeys(Front(stack))
      /\ WaitingAt(watched)' = OwnKeys(stack)
  BY <1>2, WaitingKeys
<1>4. ASSUME Running.level = watched PROVE Len(WaitingAt(watched)) < MaxDepth
  <2>1. OwnKeys(stack) = Append(OwnKeys(Front(stack)), Running.key)
    BY <1>1, <1>4, WaitingPushed
  <2>2. Len(OwnKeys(stack)) = Len(OwnKeys(Front(stack))) + 1 /\ Len(OwnKeys(Front(stack))) \in Nat
    BY <1>1, <2>1, WaitingPushed
  <2>3. Len(OwnKeys(stack)) = Cardinality(OwnFrames(stack))
    BY OwnKeysFacts
  <2>4. Cardinality(OwnFrames(stack)) <= Depth /\ Depth <= MaxDepth
    BY <1>1, OwnFramesFew DEF RoomInv
  <2>5. Depth \in Nat /\ MaxDepth \in Nat
    BY <1>1, CallsFacts, BoundsAssumption DEF Depth, UserCallsOf
  <2>. QED
    BY <1>3, <2>2, <2>3, <2>4, <2>5
<1>. QED
  BY <1>1, <1>3, <1>4, WaitingPushed

\* A call of the watched level ends with its frame.
LEMMA CallEnded ==
  ASSUME watched \in Level, TypeOK, control # "ask", control' # "ask",
         frames # <<>>, frames' = Front(frames)
  PROVE  IF Running.level = watched
           THEN Contract!Leave(Running.key)
           ELSE WaitingAt(watched)' = WaitingAt(watched)
<1>1. PICK stack \in Seq(Frame) : stack = frames /\ stack # <<>> /\ Running = Last(stack)
  BY DEF TypeOK, Frame, Running
<1>2. PICK old, new : /\ old = WaitingAt(watched) /\ old = OwnKeys(stack)
                      /\ new = WaitingAt(watched)' /\ new = OwnKeys(Front(stack))
  <2>1. Waiting = stack /\ Waiting' = Front(stack)
    BY <1>1 DEF Waiting
  <2>. QED
    BY <2>1, WaitingKeys
<1>3. new \in Seq(Key) /\ Running.key \in Key
      /\ old = IF Running.level = watched THEN Append(new, Running.key) ELSE new
  BY <1>1, <1>2, WaitingPushed
<1>4. CASE Running.level = watched
  <2>1. old # <<>> /\ Front(old) = new /\ Last(old) = Running.key
    BY <1>3, <1>4, FrontOfAppend
  <2>. QED
    BY <1>2, <1>4, <2>1, SameProtocol DEF Contract!Leave
<1>5. CASE Running.level # watched
  BY <1>2, <1>3, <1>5
<1>. QED
  BY <1>4, <1>5

\* The contract holds of the level at first.
LEMMA ContractInit == ASSUME watched \in Level PROVE HistoryInit => Contract!Init
<1>. SUFFICES ASSUME Init PROVE Contract!Init
  BY DEF HistoryInit
<1>1. Resident(watched) = {}
  BY DEF Init, Resident
<1>2. WaitingAt(watched) = <<>>
  <2>1. PICK stack \in Seq(Frame) : stack = <<>> /\ stack = Waiting
    <3>1. Waiting = <<>> /\ <<>> \in Seq(Frame)
      BY DEF Waiting, Init
    <3>. QED
      BY <3>1
  <2>2. OwnFrames(stack) = {}
    BY <2>1 DEF OwnFrames
  <2>3. OwnKeys(stack) \in Seq(Key) /\ Len(OwnKeys(stack)) = 0
    BY <2>2, OwnKeysFacts, FS_EmptySet
  <2>. QED
    BY <2>1, <2>3, WaitingKeys, EmptySeq
<1>. QED
  BY <1>1, <1>2 DEF Contract!Init

\* A step of the system is one of the level, or leaves it as it is.
LEMMA ContractNext ==
  ASSUME watched \in Level, Inv, Next
  PROVE  Contract!Next \/ UNCHANGED Contract!vars
<1>1. TypeOK /\ ControlInv /\ RoomInv
  BY DEF Inv
<1>2. frames # <<>> => Running.key \in Key
  BY <1>1, RunningFacts
<1>3. ASSUME pages' = pages PROVE Resident(watched)' = Resident(watched)
  BY <1>3 DEF Resident
<1>4. ASSUME pages' = pages, WaitingAt(watched)' = WaitingAt(watched)
      PROVE  UNCHANGED Contract!vars
  BY <1>3, <1>4 DEF Contract!vars
<1>5. CASE \E key \in Key : Request(key)
  <2>1. PICK key \in Key : Request(key)
    BY <1>5
  <2>2. Waiting' = Waiting /\ pages' = pages
    BY <1>1, <2>1, RequestControl DEF Request, Waiting
  <2>. QED
    BY <1>4, <2>2, WaitingKeys
<1>6. CASE Hit
  <2>1. Waiting' = Waiting /\ pages' = pages
    BY <1>1, <1>6, HitControl DEF Hit, Waiting
  <2>. QED
    BY <1>4, <2>1, WaitingKeys
<1>7. CASE Miss
  <2>1. pages' = pages /\ Running.key \notin Resident(Running.level) /\ frames # <<>>
    BY <1>1, <1>7, MissControl DEF Miss
  <2>2. CASE Running.level = watched
    <3>1. Contract!Miss(Running.key)
      BY <1>1, <1>3, <1>7, <2>1, <2>2, CallBegins DEF Contract!Miss, Contract!Enter
    <3>. QED
      BY <1>2, <2>1, <3>1 DEF Contract!Next
  <2>3. CASE Running.level # watched
    BY <1>1, <1>4, <1>7, <2>1, <2>3, CallBegins
  <2>. QED
    BY <2>2, <2>3
<1>8. CASE Load
  <2>1. Waiting' = Waiting /\ pages' = pages
    BY <1>1, <1>8, LoadControl DEF Load, Waiting
  <2>. QED
    BY <1>4, <2>1, WaitingKeys
<1>9. CASE Insert
  <2>1. control = "return" /\ control' # "ask" /\ frames # <<>> /\ frames' = Front(frames)
    BY <1>1, <1>9, InsertControl DEF Insert, ControlInv
  <2>2. PICK L \in Level, k \in Key :
          /\ L = Running.level /\ k = Running.key /\ k \notin Resident(L)
          /\ \A other \in Level : other # L => Resident(other)' = Resident(other)
          /\ TakesIn(Resident(L), Resident(L)', k, LevelSize[L])
    BY <1>1, <1>9, InsertResident
  <2>3. CASE L = watched
    <3>1. Contract!Leave(k)
      BY <1>1, <2>1, <2>2, <2>3, CallEnded
    <3>2. Contract!Insert(k)
      <4>1. k \notin Resident(watched)
        BY <2>2, <2>3
      <4>2. TakesIn(Resident(watched), Resident(watched)', k, LevelSize[watched])
        BY <2>2, <2>3
      <4>. QED
        BY <3>1, <4>1, <4>2, SameProtocol, Zenon DEF Contract!Insert, TakesIn
    <3>. QED
      BY <3>2 DEF Contract!Next
  <2>4. CASE L # watched
    <3>1. WaitingAt(watched)' = WaitingAt(watched) /\ Resident(watched)' = Resident(watched)
      BY <1>1, <2>1, <2>2, <2>4, CallEnded
    <3>. QED
      BY <3>1 DEF Contract!vars
  <2>. QED
    BY <2>3, <2>4
<1>10. CASE AskFails
  <2>1. Waiting' = Waiting /\ pages' = pages
    BY <1>1, <1>10, FailControl DEF AskFails, Waiting
  <2>. QED
    BY <1>4, <2>1, WaitingKeys
<1>11. CASE InsertThrows \/ Unwind
  <2>1. /\ pages' = pages /\ frames # <<>> /\ frames' = Front(frames)
        /\ control # "ask" /\ control' # "ask"
    BY <1>1, <1>11, FailControl DEF InsertThrows, Unwind
  <2>2. CASE Running.level = watched
    <3>1. Contract!Fail(Running.key)
      BY <1>1, <1>3, <2>1, <2>2, CallEnded DEF Contract!Fail
    <3>. QED
      BY <1>2, <2>1, <3>1 DEF Contract!Next
  <2>3. CASE Running.level # watched
    BY <1>1, <1>4, <2>1, <2>3, CallEnded
  <2>. QED
    BY <2>2, <2>3
<1>. QED
  BY <1>5, <1>6, <1>7, <1>8, <1>9, <1>10, <1>11 DEF Next

\* Every level, whichever is watched, is a cache by itself: it implements the
\* specification that every policy implements, whatever the other levels do and
\* whichever calls fail above or below it.
THEOREM LevelIsCache == ASSUME watched \in Level PROVE HistorySpec => Contract!Spec
<1>1. Inv /\ HistoryNext => Contract!Next \/ UNCHANGED Contract!vars
  BY ContractNext DEF HistoryNext
<1>2. UNCHANGED historyVars => UNCHANGED Contract!vars
  BY DEF historyVars, vars, Contract!vars, Resident, WaitingAt, Waiting
<1>3. HistorySpec => [][Contract!Next]_Contract!vars
  BY <1>1, <1>2, Invariant, PTL DEF HistorySpec
<1>. QED
  BY <1>3, ContractInit, PTL DEF HistorySpec, Contract!Spec

-----------------------------------------------------------------------------
(***************************************************************************)
(* The files of a case.                                                    *)
(***************************************************************************)

\* What generate has still to write does not exist yet, unless it is forced.
GeneratorInv ==
  \E arguments \in CaseArguments, force \in BOOLEAN, written \in 0..3 :
    /\ caseCommand =
         [kind |-> "generate", arguments |-> arguments, force |-> force, written |-> written]
    /\ force \/ \A i \in (written + 1)..4 : ~ caseFiles[FILES[i]].exists

\* run or compare has these fields.
IsReader ==
  /\ caseCommand.kind \in {"run", "compare"}
  /\ caseCommand =
       [kind |-> caseCommand.kind, arguments |-> caseCommand.arguments,
        state |-> caseCommand.state, manifest |-> caseCommand.manifest,
        edited |-> caseCommand.edited, checked |-> caseCommand.checked,
        late |-> caseCommand.late, config |-> caseCommand.config]

CaseInv ==
  /\ DOMAIN caseFiles = ToSet(FILES)
  /\ caseCommand = NoCommand \/ GeneratorInv \/ IsReader

\* The four files of a case have four names.
LEMMA FileNames ==
  /\ Len(FILES) = 4
  /\ ToSet(FILES) = {FILES[1], FILES[2], FILES[3], FILES[4]}
  /\ \A i, j \in 1..4 : FILES[i] = FILES[j] => i = j
BY DEF FILES, ToSet

\* At first no command runs in the folder of a case.
LEMMA CaseInitInv == CaseInit => CaseInv
BY DEF CaseInit, CaseInv

\* The file that generate writes is one it has not written.
LEMMA NextNameFacts ==
  ASSUME CaseInv, Generating
  PROVE  /\ GeneratorInv
         /\ NextName \in ToSet(FILES)
         /\ caseCommand.force \/ ~ caseFiles[NextName].exists
<1>1. GeneratorInv
  <2>1. caseCommand # NoCommand /\ ~ IsReader
    BY DEF Generating, NoCommand, IsReader
  <2>. QED
    BY <2>1 DEF CaseInv
<1>2. PICK arguments \in CaseArguments, force \in BOOLEAN, written \in 0..3 :
        /\ caseCommand =
             [kind |-> "generate", arguments |-> arguments, force |-> force, written |-> written]
        /\ force \/ \A i \in (written + 1)..4 : ~ caseFiles[FILES[i]].exists
  BY <1>1 DEF GeneratorInv
<1>3. /\ caseCommand.written = written
      /\ caseCommand.force = force
      /\ written + 1 \in 1..4
  BY <1>2
<1>4. NextName = FILES[written + 1]
  BY <1>3 DEF NextName
<1>. QED
  BY <1>1, <1>2, <1>3, <1>4, FileNames

\* run and compare change no file, and begin when no command runs.
LEMMA ReaderKeepsFiles ==
  ASSUME CaseInv,
         \/ RunCase
         \/ \E arguments \in CompareArguments : CompareCase(arguments)
         \/ CheckFile \/ ReadRequests \/ ReadConfig \/ ReadInput \/ StopReading
  PROVE  /\ UNCHANGED <<caseFiles, manifestEdited>>
         /\ ~ Generating
         /\ caseCommand' = NoCommand \/ IsReader'
<1>1. ASSUME NEW kind \in {"run", "compare"}, NEW arguments, ReadManifest(kind, arguments)
      PROVE  /\ UNCHANGED <<caseFiles, manifestEdited>>
             /\ ~ Generating
             /\ caseCommand' = NoCommand \/ IsReader'
  <2>1. UNCHANGED <<caseFiles, manifestEdited>> /\ ~ Generating
    BY <1>1 DEF ReadManifest, Generating, NoCommand
  <2>2. CASE caseCommand' = caseCommand
    BY <1>1, <2>1, <2>2 DEF ReadManifest
  <2>3. CASE caseCommand' # caseCommand
    <3>1. caseCommand' =
            [kind |-> kind, arguments |-> arguments, state |-> "hashes",
             manifest |-> Manifest, edited |-> manifestEdited,
             checked |-> 0, late |-> {}, config |-> <<>>]
      BY <1>1, <2>3 DEF ReadManifest
    <3>2. IsReader'
      BY <3>1 DEF IsReader
    <3>. QED
      BY <2>1, <3>2
  <2>. QED
    BY <2>2, <2>3
<1>2. ASSUME NEW state, Reading(state) PROVE IsReader /\ ~ Generating
  BY <1>2 DEF Reading, CaseInv, NoCommand, GeneratorInv, Generating
<1>3. CASE CheckFile
  <2>1. IsReader /\ ~ Generating /\ UNCHANGED <<caseFiles, manifestEdited>>
    BY <1>2, <1>3 DEF CheckFile
  <2>2. CASE caseCommand' = NoCommand
    BY <2>1, <2>2
  <2>3. CASE caseCommand' # NoCommand
    <3>1. PICK state : caseCommand' = [caseCommand EXCEPT !.checked = @ + 1, !.state = state]
      BY <1>3, <2>3 DEF CheckFile, EndsWith
    <3>2. IsReader'
      BY <2>1, <3>1 DEF IsReader
    <3>. QED
      BY <2>1, <3>2
  <2>. QED
    BY <2>2, <2>3
<1>4. CASE ReadRequests
  <2>1. IsReader /\ ~ Generating /\ UNCHANGED <<caseFiles, manifestEdited>>
    BY <1>2, <1>4 DEF ReadRequests
  <2>2. CASE caseCommand' = NoCommand
    BY <2>1, <2>2
  <2>3. CASE caseCommand' # NoCommand
    <3>1. caseCommand' = [caseCommand EXCEPT !.state = "config"]
      BY <1>4, <2>3 DEF ReadRequests, EndsWith
    <3>2. IsReader'
      BY <2>1, <3>1 DEF IsReader
    <3>. QED
      BY <2>1, <3>2
  <2>. QED
    BY <2>2, <2>3
<1>5. CASE ReadConfig
  <2>1. IsReader /\ ~ Generating /\ UNCHANGED <<caseFiles, manifestEdited>>
    BY <1>2, <1>5 DEF ReadConfig
  <2>2. IsReader'
    <3>1. PICK config : caseCommand' = [caseCommand EXCEPT !.config = config, !.state = "input"]
      BY <1>5 DEF ReadConfig
    <3>. QED
      BY <2>1, <3>1 DEF IsReader
  <2>. QED
    BY <2>1, <2>2
<1>6. CASE ReadInput
  BY <1>2, <1>6 DEF ReadInput, EndsWith
<1>7. CASE StopReading
  BY <1>7 DEF StopReading, EndsWith, Generating
<1>8. RunCase => ReadManifest("run", NoArguments)
  BY DEF RunCase
<1>9. ASSUME NEW arguments \in CompareArguments, CompareCase(arguments)
      PROVE  ReadManifest("compare", arguments)
  BY <1>9 DEF CompareCase
<1>. QED
  BY <1>1, <1>3, <1>4, <1>5, <1>6, <1>7, <1>8, <1>9

\* A step of the commands in the folder keeps the invariant, and has the property.
LEMMA CaseStep ==
  ASSUME CaseInv, CaseNext
  PROVE  /\ CaseInv'
         /\ \A name \in ToSet(FILES) :
              Generating /\ caseFiles[name].exists /\ caseFiles'[name] # caseFiles[name] =>
                caseCommand.force
<1>. DEFINE Kept ==
       \A name \in ToSet(FILES) :
         Generating /\ caseFiles[name].exists /\ caseFiles'[name] # caseFiles[name] =>
           caseCommand.force
<1>1. ASSUME NEW arguments \in CaseArguments, NEW force \in BOOLEAN, Generate(arguments, force)
      PROVE  CaseInv' /\ Kept
  <2>1. /\ caseFiles' = caseFiles
        /\ caseCommand' =
             [kind |-> "generate", arguments |-> arguments, force |-> force, written |-> 0]
        /\ force \/ \A name \in ToSet(FILES) : ~ caseFiles[name].exists
    BY <1>1 DEF Generate, MayGenerate
  <2>2. force \/ \A i \in (0 + 1)..4 : ~ caseFiles'[FILES[i]].exists
    BY <2>1, FileNames
  <2>3. GeneratorInv'
    BY <2>1, <2>2 DEF GeneratorInv
  <2>. QED
    BY <2>1, <2>3 DEF CaseInv
<1>2. CASE WriteCaseFile
  <2>1. Generating /\ GeneratorInv
    BY <1>2, NextNameFacts DEF WriteCaseFile
  <2>2. PICK arguments \in CaseArguments, force \in BOOLEAN, written \in 0..3 :
          /\ caseCommand =
               [kind |-> "generate", arguments |-> arguments, force |-> force, written |-> written]
          /\ force \/ \A i \in (written + 1)..4 : ~ caseFiles[FILES[i]].exists
    BY <2>1 DEF GeneratorInv
  <2>3. /\ caseCommand.written = written
        /\ written + 1 \in 1..4
        /\ NextName = FILES[written + 1]
    BY <2>2 DEF NextName
  <2>4. /\ DOMAIN caseFiles' = ToSet(FILES)
        /\ \A name \in ToSet(FILES) \ {NextName} : caseFiles'[name] = caseFiles[name]
    BY <1>2 DEF CaseInv, WriteCaseFile
  <2>5. Kept
    BY <2>1, <2>4, NextNameFacts
  <2>6. CASE written + 1 = 4
    <3>1. caseCommand' = NoCommand
      BY <1>2, <2>3, <2>6, FileNames DEF WriteCaseFile
    <3>. QED
      BY <2>4, <2>5, <3>1 DEF CaseInv
  <2>7. CASE written + 1 # 4
    <3>1. caseCommand' = [caseCommand EXCEPT !.written = written + 1]
      BY <1>2, <2>3, <2>7, FileNames DEF WriteCaseFile
    <3>2. caseCommand' =
            [kind |-> "generate", arguments |-> arguments, force |-> force,
             written |-> written + 1]
      BY <2>2, <3>1
    <3>3. written + 1 \in 0..3
      BY <2>3, <2>7
    <3>4. ASSUME NEW i \in (written + 2)..4
          PROVE  caseFiles'[FILES[i]] = caseFiles[FILES[i]]
      BY <2>3, <2>4, FileNames
    <3>5. force \/ \A i \in ((written + 1) + 1)..4 : ~ caseFiles'[FILES[i]].exists
      BY <2>2, <3>4
    <3>6. GeneratorInv'
      BY <3>2, <3>3, <3>5 DEF GeneratorInv
    <3>. QED
      BY <2>4, <2>5, <3>6 DEF CaseInv
  <2>. QED
    BY <2>6, <2>7
<1>3. CASE StopGenerate
  <2>1. caseCommand' = NoCommand /\ Generating
    BY <1>3 DEF StopGenerate
  <2>2. CASE UNCHANGED caseFiles
    BY <2>1, <2>2 DEF CaseInv
  <2>3. CASE caseFiles' # caseFiles
    <3>1. PICK part : caseFiles' = [caseFiles EXCEPT ![NextName] = File(part)]
      BY <1>3, <2>3 DEF StopGenerate
    <3>2. /\ DOMAIN caseFiles' = ToSet(FILES)
          /\ \A name \in ToSet(FILES) \ {NextName} : caseFiles'[name] = caseFiles[name]
      BY <3>1 DEF CaseInv
    <3>. QED
      BY <2>1, <3>2, NextNameFacts DEF CaseInv
  <2>. QED
    BY <2>2, <2>3
<1>4. CASE EditCase
  <2>1. ~ Generating /\ DOMAIN caseFiles' = DOMAIN caseFiles
    BY <1>4 DEF EditCase
  <2>2. CASE caseCommand = NoCommand
    BY <1>4, <2>1, <2>2 DEF EditCase, CaseInv
  <2>3. CASE caseCommand # NoCommand
    <3>1. IsReader
      BY <2>1, <2>3 DEF CaseInv, GeneratorInv, Generating
    <3>2. PICK late : caseCommand' = [caseCommand EXCEPT !.late = late]
      BY <1>4, <2>3 DEF EditCase
    <3>3. IsReader'
      BY <3>1, <3>2 DEF IsReader
    <3>. QED
      BY <2>1, <3>3 DEF CaseInv
  <2>. QED
    BY <2>2, <2>3
<1>5. CASE EditManifest
  <2>1. caseCommand = NoCommand /\ caseCommand' = NoCommand
    BY <1>5 DEF EditManifest
  <2>2. DOMAIN caseFiles' = DOMAIN caseFiles
    BY <1>5 DEF EditManifest
  <2>. QED
    BY <2>1, <2>2 DEF CaseInv, Generating, NoCommand
<1>6. ASSUME \/ RunCase
             \/ \E arguments \in CompareArguments : CompareCase(arguments)
             \/ CheckFile \/ ReadRequests \/ ReadConfig \/ ReadInput \/ StopReading
      PROVE  CaseInv' /\ Kept
  <2>1. UNCHANGED caseFiles /\ ~ Generating /\ (caseCommand' = NoCommand \/ IsReader')
    BY <1>6, ReaderKeepsFiles
  <2>. QED
    BY <2>1 DEF CaseInv
<1>. QED
  BY <1>1, <1>2, <1>3, <1>4, <1>5, <1>6 DEF CaseNext

-----------------------------------------------------------------------------
(***************************************************************************)
(* The parser.                                                             *)
(***************************************************************************)

\* The parser holds what the last configuration and the last accepted input say.
ParserInv ==
  /\ lastConfig \in Seq(SomeToken)
  /\ configParsed_ \in BOOLEAN
  /\ configParsed_ <=> IsConfig(lastConfig)
  /\ configParsed_ => ConfigOf(cacheSysParams_, lastConfig)
  /\ inputCall # NotCalled => configParsed_ /\ inputCall.tokens \in Seq(SomeToken)
  /\ inputCall # NotCalled =>
       (inputCall.outcome = "parsed" <=> IsInput(inputCall.tokens, Len(lastConfig) - 1))
  /\ inputCall.outcome = "parsed" =>
       InputOf(cacheSysParams_, reqList_, cacheSysParams_, inputCall.tokens)

\* The parser begins with nothing.
LEMMA ParserInitInv == ParserInit => ParserInv
<1>. SUFFICES ASSUME ParserInit PROVE ParserInv
  OBVIOUS
<1>1. lastConfig = <<>> /\ configParsed_ = FALSE /\ inputCall = NotCalled
  BY DEF ParserInit
<1>2. ~ IsConfig(<<>>)
  BY DEF IsConfig, maxCacheLevel
<1>3. inputCall.outcome # "parsed"
  BY <1>1 DEF NotCalled
<1>4. ~ IsConfig(lastConfig) /\ ~ configParsed_ /\ configParsed_ \in BOOLEAN
  BY <1>1, <1>2
<1>5. lastConfig \in Seq(SomeToken)
  BY <1>1
<1>. QED
  BY <1>1, <1>3, <1>4, <1>5 DEF ParserInv

\* parseConfig accepts the grammar, and keeps what the invariant says.
LEMMA ParseConfigInv ==
  ASSUME NEW tokens \in ConfigTokens, ParseConfig(tokens) PROVE ParserInv'
<1>1. tokens \in Seq(SomeToken)
  BY TokensAssumption, SomeTokens
<1>2. /\ cacheSysParams_' = ParsedConfig(tokens).levels
      /\ configParsed_' = ParsedConfig(tokens).parsed
      /\ lastConfig' = tokens
      /\ inputCall' = NotCalled
  BY DEF ParseConfig
<1>3. /\ configParsed_' \in BOOLEAN
      /\ configParsed_' <=> IsConfig(tokens)
      /\ configParsed_' => ConfigOf(cacheSysParams_', tokens)
  BY <1>1, <1>2, ConfigParses
<1>4. inputCall'.outcome # "parsed"
  BY <1>2 DEF NotCalled
<1>5. /\ (configParsed_ <=> IsConfig(lastConfig))'
      /\ (configParsed_ => ConfigOf(cacheSysParams_, lastConfig))'
  BY <1>2, <1>3 DEF ConfigOf, IsConfig
<1>. QED
  BY <1>1, <1>2, <1>3, <1>4, <1>5 DEF ParserInv

\* parseInput does too.
LEMMA ParseInputInv ==
  ASSUME ParserInv, NEW tokens \in InputTokens, ParseInput(tokens) PROVE ParserInv'
<1>1. tokens \in Seq(SomeToken)
  BY TokensAssumption, SomeTokens
<1>2. configParsed_ /\ lastConfig \in Seq(SomeToken) /\ IsConfig(lastConfig)
      /\ ConfigOf(cacheSysParams_, lastConfig)
  BY DEF ParserInv, ParseInput
<1>3. PICK configured \in Seq(LevelParams) : configured = cacheSysParams_
  BY <1>2 DEF ConfigOf
<1>4. PICK result : result = ParsedInput(configured, tokens)
  OBVIOUS
<1>5. /\ cacheSysParams_' = result.levels
      /\ reqList_' = result.requests
      /\ inputCall' = [outcome |-> IF result.parsed THEN "parsed" ELSE "thrown",
                       tokens  |-> tokens]
      /\ configParsed_' = configParsed_
      /\ lastConfig' = lastConfig
  BY <1>3, <1>4 DEF ParseInput
<1>6. /\ result.parsed \in BOOLEAN
      /\ result.parsed <=> IsInput(tokens, Len(configured))
      /\ result.parsed => InputOf(result.levels, result.requests, configured, tokens)
  BY <1>1, <1>4, InputParses
<1>7. PICK levels \in Seq(LevelParams) :
        /\ levels = result.levels
        /\ Len(levels) = Len(configured)
        /\ \A i \in 1..Len(configured) : levels[i].strategy = configured[i].strategy
  BY <1>1, <1>4, InputKeepsLevels
<1>8. /\ Len(lastConfig) = Len(levels) + 1
      /\ lastConfig[1] = INT(Len(levels))
      /\ \A i \in 1..Len(levels) : lastConfig[i + 1] = IDENTIFIER(levels[i].strategy)
  BY <1>2, <1>3, <1>7 DEF ConfigOf
<1>9. ConfigOf(levels, lastConfig)
  BY <1>8 DEF ConfigOf
<1>10. ConfigOf(cacheSysParams_, lastConfig)'
  BY <1>5, <1>7, <1>9 DEF ConfigOf
<1>11. inputCall'.tokens = tokens /\ (inputCall'.outcome = "parsed" <=> result.parsed)
  BY <1>5
<1>12. Len(lastConfig') - 1 = Len(configured)
  BY <1>5, <1>7, <1>8
<1>13. inputCall'.outcome = "parsed" <=> IsInput(inputCall'.tokens, Len(lastConfig') - 1)
  BY <1>6, <1>11, <1>12
<1>14. ASSUME result.parsed PROVE InputOf(levels, reqList_', levels, tokens)
  <2>1. InputOf(levels, reqList_', configured, tokens)
    BY <1>5, <1>6, <1>7, <1>14
  <2>. QED
    BY <2>1 DEF InputOf
<1>15. (inputCall.outcome = "parsed" =>
          InputOf(cacheSysParams_, reqList_, cacheSysParams_, inputCall.tokens))'
  BY <1>5, <1>7, <1>11, <1>14 DEF InputOf
<1>16. (IsConfig(lastConfig) /\ configParsed_)'
  BY <1>2, <1>5 DEF IsConfig
<1>17. (inputCall.outcome = "parsed" <=> IsInput(inputCall.tokens, Len(lastConfig) - 1))'
  BY <1>13 DEF IsInput
<1>18. /\ configParsed_' \in BOOLEAN
       /\ lastConfig' \in Seq(SomeToken) /\ inputCall'.tokens \in Seq(SomeToken)
  BY <1>1, <1>2, <1>5, <1>11 DEF ParserInv
<1>. QED
  BY <1>10, <1>15, <1>16, <1>17, <1>18 DEF ParserInv

\* Commands that do not parse leave the parser alone.
LEMMA UntouchedParser == ASSUME ParserInv, UNCHANGED parserVars PROVE ParserInv'
BY DEF ParserInv, parserVars, NotCalled, IsConfig, ConfigOf, IsInput, InputOf

\* Every call of the parser keeps the invariant.
LEMMA ParserStep == ASSUME ParserInv, ParserNext PROVE ParserInv'
BY ParseConfigInv, ParseInputInv DEF ParserNext

\* What the parser holds is what the files it was given last say.
LEMMA ParserIsForgetful == ASSUME ParserInv PROVE ParserForgets
<1>1. ASSUME inputCall.outcome = "parsed"
      PROVE  LET names == [i \in DOMAIN cacheSysParams_ |-> cacheSysParams_[i].strategy]
                 sizes == [i \in DOMAIN cacheSysParams_ |-> cacheSysParams_[i].size]
             IN /\ lastConfig = ConfigFile(names)
                /\ inputCall.tokens = InputFile(sizes, reqList_)
  <2>1. NotCalled.outcome # "parsed"
    BY DEF NotCalled
  <2>2. /\ lastConfig \in Seq(SomeToken) /\ inputCall.tokens \in Seq(SomeToken)
        /\ ConfigOf(cacheSysParams_, lastConfig)
        /\ InputOf(cacheSysParams_, reqList_, cacheSysParams_, inputCall.tokens)
    BY <1>1, <2>1 DEF ParserInv
  <2>. QED
    BY <2>2, ConfigIsFile, InputIsFile
<1>. QED
  BY <1>1 DEF ParserInv, ParserForgets

\* So does every step of any command.
LEMMA OtherPlacesParser ==
  ASSUME ParserInv, [CommandsNext]_commandsVars PROVE ParserInv'
<1>1. CASE UNCHANGED parserVars
  BY <1>1, UntouchedParser
<1>2. CASE ParserNext
  BY <1>2, ParserStep
<1>. QED
  BY <1>1, <1>2 DEF CommandsNext, commandsVars

\* The parser forgets what it was given before the last configuration and the
\* last input, whatever it threw in between (cacheParser.h).
THEOREM ParserForgetsAll == CommandsSpec => []ParserForgets
<1>1. CommandsInit => ParserInv
  BY ParserInitInv DEF CommandsInit
<1>2. ParserInv /\ [CommandsNext]_commandsVars => ParserInv'
  BY OtherPlacesParser
<1>. QED
  BY <1>1, <1>2, ParserIsForgetful, PTL DEF CommandsSpec

-----------------------------------------------------------------------------
(***************************************************************************)
(* What the commands in the folder of a case report.                       *)
(***************************************************************************)

\* A case that generate accepts is one that the runner takes.
LEMMA ValidIsRunnable ==
  ASSUME NEW case \in CaseArguments, ValidCase(case)
  PROVE  /\ Runnable(case.strategies, case.capacities, RequestsOf(case))
         /\ RequestsOf(case) \in Seq(Nat)
         /\ Len(RequestsOf(case)) = case.requests
<1>1. /\ case.requests \in Int /\ case.requests >= 1
      /\ case.capacities \in Seq(Int)
      /\ case.strategies \in Seq(strategyNames)
  BY CaseAssumption DEF ValidCase
<1>2. RequestsOf(case) \in Seq(Nat) /\ Len(RequestsOf(case)) = case.requests
  BY <1>1, CaseAssumption DEF RequestsOf
<1>3. PICK n \in 1..3 : /\ n = Len(case.capacities) /\ n = Len(case.strategies)
                        /\ DOMAIN case.strategies = 1..n
  BY <1>1 DEF ValidCase, valid_strategies
<1>4. \A i \in 1..n :
        case.capacities[i] >= IF case.strategies[i] \in {"2Q", "LIRS"} THEN 2 ELSE 1
  BY <1>3 DEF ValidCase, valid_strategies
<1>5. case.capacities \in Seq(Nat)
  <2>1. PICK capacities \in Seq(Int) : capacities = case.capacities /\ Len(capacities) = n
    BY <1>1, <1>3
  <2>2. \A i \in 1..n : capacities[i] \in Int /\ capacities[i] >= 1
    <3>. TAKE i \in 1..n
    <3>1. capacities[i] \in Int
      BY <2>1
    <3>2. capacities[i] >= IF case.strategies[i] \in {"2Q", "LIRS"} THEN 2 ELSE 1
      BY <1>4, <2>1
    <3>. QED
      BY <3>1, <3>2
  <2>3. \A i \in 1..n : capacities[i] \in Nat
    BY <2>2
  <2>4. capacities \in Seq(Nat)
    BY <2>1, <2>3
  <2>. QED
    BY <2>1, <2>4
<1>6. \A i \in 1..n : case.strategies[i] = "REF" => n = 1
  BY <1>3 DEF ValidCase, ToSet
<1>7. RequestsOf(case) # <<>>
  BY <1>1, <1>2
<1>. QED
  BY <1>1, <1>2, <1>3, <1>4, <1>5, <1>6, <1>7 DEF Runnable

\* The tokens of integers have these values.
LEMMA ValuesOfInts == ASSUME NEW requests \in Seq(Nat) PROVE Values(Ints(requests)) = requests
<1>1. PICK k \in Nat : k = Len(requests) /\ DOMAIN requests = 1..k
  OBVIOUS
<1>2. Ints(requests) = [i \in 1..k |-> INT(requests[i])]
  BY <1>1 DEF Ints
<1>3. \A i \in 1..k : Ints(requests)[i].value = requests[i]
  BY <1>2 DEF INT
<1>4. requests = [i \in 1..k |-> requests[i]]
  BY <1>1
<1>. QED
  BY <1>2, <1>3, <1>4 DEF Values

\* A manifest that reads is of a valid case, unless it was edited; then it still
\* has the hash of the requests of one.
WholeManifest(manifest, changed) ==
  manifest.schema = 1 =>
    /\ \E case \in ValidCases : manifest.file_sha256["requests.txt"] = Ints(RequestsOf(case))
    /\ ~ changed => \E case \in ValidCases : manifest = Metadata(case)

\* The manifest of a valid case is whole.
LEMMA MetadataIsWhole ==
  ASSUME NEW case \in ValidCases, NEW changed
  PROVE  /\ WholeManifest(Metadata(case), changed)
         /\ Metadata(case).case = case
         /\ Metadata(case).file_sha256 = Contents(case)
         /\ DOMAIN Contents(case) = {"requests.txt", "input.txt", "config.txt"}
         /\ Contents(case)["requests.txt"] = Ints(RequestsOf(case))
         /\ Contents(case)["input.txt"] = InputFile(case.capacities, RequestsOf(case))
         /\ Contents(case)["config.txt"] = ConfigFile(case.strategies)
<1>1. Metadata(case).case = case /\ Metadata(case).file_sha256 = Contents(case)
  BY DEF Metadata
<1>2. /\ DOMAIN Contents(case) = {"requests.txt", "input.txt", "config.txt"}
      /\ Contents(case)["requests.txt"] = Ints(RequestsOf(case))
      /\ Contents(case)["input.txt"] = InputFile(case.capacities, RequestsOf(case))
      /\ Contents(case)["config.txt"] = ConfigFile(case.strategies)
  BY DEF Contents
<1>. QED
  BY <1>1, <1>2 DEF WholeManifest

\* generate makes the files of a valid case, and so is what there is of a manifest.
ManifestInv ==
  /\ Generating => caseCommand.arguments \in ValidCases
  /\ caseFiles["manifest.json"].exists => WholeManifest(Manifest, manifestEdited)

\* A broken manifest does not read.
LEMMA TornIsWhole == ASSUME NEW changed PROVE WholeManifest(TornManifest, changed)
BY DEF WholeManifest, TornManifest

\* An edited manifest still has the hash of the requests of a valid case.
LEMMA EditedIsWhole ==
  ASSUME Describes(Manifest), WholeManifest(Manifest, FALSE), NEW manifest \in EditedManifests
  PROVE  WholeManifest(manifest, TRUE)
<1>1. PICK case \in ValidCases : Manifest = Metadata(case)
  BY DEF Describes, WholeManifest
<1>2. Manifest = [schema |-> 1, case |-> case, file_sha256 |-> Contents(case)]
  BY <1>1 DEF Metadata
<1>3. CASE manifest \in {Metadata(other) : other \in ValidCases}
  BY <1>3, MetadataIsWhole
<1>4. ASSUME NEW other, manifest = [Manifest EXCEPT !.case = other]
      PROVE  WholeManifest(manifest, TRUE)
  <2>1. manifest.file_sha256 = Contents(case)
    BY <1>2, <1>4
  <2>. QED
    BY <2>1, MetadataIsWhole DEF WholeManifest
<1>5. ASSUME NEW name \in {"requests.txt", "input.txt", "config.txt"}, NEW other \in ValidCases,
             manifest = [Manifest EXCEPT !.file_sha256[name] = Contents(other)[name]]
      PROVE  WholeManifest(manifest, TRUE)
  <2>1. manifest.file_sha256 = [Contents(case) EXCEPT ![name] = Contents(other)[name]]
    BY <1>2, <1>5
  <2>2. \/ manifest.file_sha256["requests.txt"] = Contents(case)["requests.txt"]
        \/ manifest.file_sha256["requests.txt"] = Contents(other)["requests.txt"]
    BY <2>1, MetadataIsWhole
  <2>. QED
    BY <2>2, MetadataIsWhole DEF WholeManifest
<1>6. \/ manifest \in {Metadata(other) : other \in ValidCases}
      \/ \E other : manifest = [Manifest EXCEPT !.case = other]
      \/ \E name \in {"requests.txt", "input.txt", "config.txt"}, other \in ValidCases :
           manifest = [Manifest EXCEPT !.file_sha256[name] = Contents(other)[name]]
  BY DEF EditedManifests
<1>. QED
  BY <1>3, <1>4, <1>5, <1>6

\* The commands in a folder write whole manifests of valid cases only.
LEMMA ManifestStep ==
  ASSUME CaseInv, ManifestInv, CaseNext
  PROVE  ManifestInv'
<1>1. "manifest.json" \in ToSet(FILES) /\ DOMAIN caseFiles = ToSet(FILES)
  BY DEF CaseInv, FILES, ToSet
<1>2. ASSUME UNCHANGED <<caseFiles, manifestEdited>>, ~ Generating'
      PROVE  ManifestInv'
  BY <1>2 DEF ManifestInv, Manifest
<1>3. ASSUME NEW arguments \in CaseArguments, NEW force \in BOOLEAN, Generate(arguments, force)
      PROVE  ManifestInv'
  <2>1. /\ UNCHANGED <<caseFiles, manifestEdited>>
        /\ arguments \in ValidCases
        /\ caseCommand'.arguments = arguments
    BY <1>3 DEF Generate, MayGenerate, ValidCases
  <2>. QED
    BY <2>1 DEF ManifestInv, Manifest
<1>4. CASE WriteCaseFile
  <2>1. PICK case \in ValidCases : caseCommand.arguments = case
    BY <1>4 DEF WriteCaseFile, ManifestInv
  <2>2. Generating' => caseCommand'.arguments \in ValidCases
    <3>1. GeneratorInv
      BY <1>4, NextNameFacts DEF WriteCaseFile
    <3>2. PICK arguments \in CaseArguments, force \in BOOLEAN, written \in 0..3 :
            caseCommand = [kind |-> "generate", arguments |-> arguments, force |-> force,
                           written |-> written]
      BY <3>1 DEF GeneratorInv
    <3>3. \/ caseCommand' = NoCommand
          \/ caseCommand' = [caseCommand EXCEPT !.written = caseCommand.written + 1]
      BY <1>4 DEF WriteCaseFile
    <3>. QED
      BY <2>1, <3>2, <3>3 DEF Generating, NoCommand
  <2>3. /\ caseFiles' = [caseFiles EXCEPT ![NextName] = File(NextContents)]
        /\ manifestEdited' = (manifestEdited /\ NextName # "manifest.json")
    BY <1>4 DEF WriteCaseFile
  <2>4. CASE NextName = "manifest.json"
    <3>1. NextContents = Metadata(case)
      BY <2>1, <2>4 DEF NextContents
    <3>2. Manifest' = Metadata(case)
      BY <1>1, <2>3, <2>4, <3>1 DEF File, Manifest
    <3>. QED
      BY <2>2, <3>2, MetadataIsWhole DEF ManifestInv
  <2>5. CASE NextName # "manifest.json"
    <3>1. /\ caseFiles'["manifest.json"] = caseFiles["manifest.json"]
          /\ manifestEdited' <=> manifestEdited
      BY <1>1, <2>3, <2>5
    <3>. QED
      BY <2>2, <3>1 DEF ManifestInv, Manifest, WholeManifest
  <2>. QED
    BY <2>4, <2>5
<1>5. CASE StopGenerate
  <2>1. caseCommand' = NoCommand /\ ~ Generating'
    BY <1>5 DEF StopGenerate, Generating, NoCommand
  <2>2. CASE UNCHANGED <<caseFiles, manifestEdited>>
    BY <1>2, <2>1, <2>2
  <2>3. CASE NextName = "manifest.json" /\ ~ UNCHANGED <<caseFiles, manifestEdited>>
    <3>1. caseFiles' = [caseFiles EXCEPT !["manifest.json"] = File(TornManifest)]
      BY <1>5, <2>3 DEF StopGenerate
    <3>2. Manifest' = TornManifest
      BY <1>1, <3>1 DEF File, Manifest
    <3>. QED
      BY <2>1, <3>2, TornIsWhole DEF ManifestInv
  <2>4. CASE NextName # "manifest.json" /\ ~ UNCHANGED <<caseFiles, manifestEdited>>
    <3>1. /\ \E part : caseFiles' = [caseFiles EXCEPT ![NextName] = File(part)]
          /\ manifestEdited' <=> manifestEdited
      BY <1>5, <2>4 DEF StopGenerate
    <3>2. caseFiles'["manifest.json"] = caseFiles["manifest.json"]
      BY <1>1, <2>4, <3>1
    <3>. QED
      BY <2>1, <3>1, <3>2 DEF ManifestInv, Manifest, WholeManifest
  <2>. QED
    BY <2>2, <2>3, <2>4
<1>6. CASE EditCase
  <2>1. PICK name \in ToSet(FILES) \ {"manifest.json"} :
          \E file : caseFiles' = [caseFiles EXCEPT ![name] = file]
    BY <1>6 DEF EditCase
  <2>2. /\ caseFiles'["manifest.json"] = caseFiles["manifest.json"]
        /\ UNCHANGED manifestEdited
    BY <1>1, <1>6, <2>1 DEF EditCase
  <2>3. ~ Generating'
    <3>1. CASE caseCommand = NoCommand
      BY <1>6, <3>1 DEF EditCase, Generating, NoCommand
    <3>2. CASE caseCommand # NoCommand
      <4>1. IsReader
        BY <1>6, <3>2 DEF EditCase, CaseInv, GeneratorInv, Generating
      <4>2. PICK late : caseCommand' = [caseCommand EXCEPT !.late = late]
        BY <1>6, <3>2 DEF EditCase
      <4>. QED
        BY <4>1, <4>2 DEF IsReader, Generating
    <3>. QED
      BY <3>1, <3>2
  <2>. QED
    BY <2>2, <2>3 DEF ManifestInv, Manifest
<1>7. CASE EditManifest
  <2>1. /\ caseCommand' = NoCommand /\ manifestEdited' = TRUE
        /\ caseFiles["manifest.json"].exists /\ ~ manifestEdited /\ Describes(Manifest)
    BY <1>7 DEF EditManifest
  <2>2. PICK file \in {NoFile} \cup {File(manifest) : manifest \in EditedManifests \ {Manifest}} :
          caseFiles' = [caseFiles EXCEPT !["manifest.json"] = file]
    BY <1>7 DEF EditManifest
  <2>3. caseFiles'["manifest.json"] = file
    BY <1>1, <2>2
  <2>4. WholeManifest(Manifest, FALSE)
    BY <2>1 DEF ManifestInv, WholeManifest
  <2>5. ASSUME NEW manifest \in EditedManifests, file = File(manifest)
        PROVE  WholeManifest(Manifest', TRUE)
    <3>1. Manifest' = manifest
      BY <2>3, <2>5 DEF File, Manifest
    <3>2. WholeManifest(manifest, TRUE)
      BY <2>1, <2>4, EditedIsWhole
    <3>. QED
      BY <3>1, <3>2
  <2>6. file.exists => WholeManifest(Manifest', TRUE)
    <3>1. file = NoFile \/ \E manifest \in EditedManifests : file = File(manifest)
      BY <2>2
    <3>2. ~ NoFile.exists
      BY DEF NoFile
    <3>. QED
      BY <2>5, <3>1, <3>2
  <2>. QED
    BY <2>1, <2>3, <2>6 DEF ManifestInv, Generating, NoCommand
<1>8. ASSUME \/ RunCase
             \/ \E arguments \in CompareArguments : CompareCase(arguments)
             \/ CheckFile \/ ReadRequests \/ ReadConfig \/ ReadInput \/ StopReading
      PROVE  ManifestInv'
  BY <1>2, <1>8, ReaderKeepsFiles DEF Generating, NoCommand, IsReader
<1>. QED
  BY <1>3, <1>4, <1>5, <1>6, <1>7, <1>8 DEF CaseNext

\* What a command that reads has found: the files it has checked have the hashes of
\* its manifest, but for those that were edited afterwards.
Found(command, files) ==
  /\ WholeManifest(command.manifest, command.edited)
  /\ Describes(command.manifest)
  /\ command.checked \in IF command.state = "hashes" THEN 0..2 ELSE {3}
  /\ command.kind = "compare" =>
       command.arguments \in CompareArguments /\ MayCompare(command.arguments)
  /\ \A i \in 1..command.checked :
       \/ FILES[i] \in command.late
       \/ files[FILES[i]] = File(command.manifest.file_sha256[FILES[i]])
  /\ command.state = "input" =>
       \/ "config.txt" \in command.late
       \/ command.config = command.manifest.file_sha256["config.txt"]

ReaderInv == caseCommand.kind \in {"run", "compare"} => Found(caseCommand, caseFiles)

\* A command that reads is one.
LEMMA ReaderFacts ==
  ASSUME CaseInv, ReaderInv, caseCommand.kind \in {"run", "compare"}
  PROVE  IsReader /\ Found(caseCommand, caseFiles)
BY DEF CaseInv, ReaderInv, GeneratorInv, NoCommand

\* The names of the files in the order in which they are checked.
LEMMA CheckedNames ==
  FILES[1] = "requests.txt" /\ FILES[2] = "input.txt" /\ FILES[3] = "config.txt" /\ Len(FILES) = 4
BY DEF FILES

\* A step of the commands in a folder keeps what is found.
LEMMA ReaderStep ==
  ASSUME CaseInv, ManifestInv, ReaderInv, CaseNext
  PROVE  ReaderInv'
<1>1. ASSUME caseCommand' = NoCommand PROVE ReaderInv'
  BY <1>1 DEF ReaderInv, NoCommand
<1>2. ASSUME NEW arguments \in CaseArguments, NEW force \in BOOLEAN, Generate(arguments, force)
      PROVE  ReaderInv'
  BY <1>2 DEF Generate, ReaderInv
<1>3. CASE WriteCaseFile
  <2>1. GeneratorInv
    BY <1>3, NextNameFacts DEF WriteCaseFile
  <2>2. \/ caseCommand' = NoCommand
        \/ caseCommand' = [caseCommand EXCEPT !.written = caseCommand.written + 1]
    BY <1>3 DEF WriteCaseFile
  <2>. QED
    BY <2>1, <2>2 DEF GeneratorInv, ReaderInv, NoCommand
<1>4. CASE StopGenerate
  BY <1>1, <1>4 DEF StopGenerate
<1>5. ASSUME NEW kind, NEW arguments, ReadManifest(kind, arguments),
             kind = "compare" => arguments \in CompareArguments /\ MayCompare(arguments)
      PROVE  ReaderInv'
  <2>1. CASE caseCommand' = caseCommand
    BY <1>1, <1>5, <2>1 DEF ReadManifest
  <2>2. CASE caseCommand' # caseCommand
    <3>1. /\ caseFiles["manifest.json"].exists /\ Describes(Manifest)
          /\ caseCommand' =
               [kind |-> kind, arguments |-> arguments, state |-> "hashes",
                manifest |-> Manifest, edited |-> manifestEdited,
                checked |-> 0, late |-> {}, config |-> <<>>]
      BY <1>5, <2>2 DEF ReadManifest
    <3>2. WholeManifest(Manifest, manifestEdited)
      BY <3>1 DEF ManifestInv
    <3>. QED
      BY <1>5, <3>1, <3>2 DEF ReaderInv, Found
  <2>. QED
    BY <2>1, <2>2
<1>6. RunCase => ReaderInv'
  <2>1. RunCase => ReadManifest("run", NoArguments)
    BY DEF RunCase
  <2>. QED
    BY <1>5, <2>1
<1>7. ASSUME NEW arguments \in CompareArguments, CompareCase(arguments) PROVE ReaderInv'
  BY <1>5, <1>7 DEF CompareCase
<1>8. CASE CheckFile
  <2>1. IsReader /\ Found(caseCommand, caseFiles) /\ caseCommand.state = "hashes"
    BY <1>8, ReaderFacts DEF CheckFile, Reading
  <2>2. UNCHANGED caseFiles
    BY <1>8 DEF CheckFile
  <2>3. PICK n \in 0..2 : caseCommand.checked = n
    BY <2>1 DEF Found
  <2>4. CASE caseCommand' # NoCommand
    <3>1. PICK state :
            /\ state = IF n + 2 = 4 THEN "requests" ELSE caseCommand.state
            /\ caseCommand' = [caseCommand EXCEPT !.checked = n + 1, !.state = state]
            /\ HashFits(FILES[n + 1])
      BY <1>8, <2>3, <2>4, CheckedNames DEF CheckFile, EndsWith, NextToCheck
    <3>2. PICK command : command = caseCommand'
      OBVIOUS
    <3>3. /\ command.kind = caseCommand.kind /\ command.arguments = caseCommand.arguments
          /\ command.manifest = caseCommand.manifest /\ command.edited = caseCommand.edited
          /\ command.late = caseCommand.late
          /\ command.checked = n + 1 /\ command.state = state
      BY <2>1, <3>1, <3>2 DEF IsReader
    <3>4. command.checked \in IF command.state = "hashes" THEN 0..2 ELSE {3}
      BY <2>1, <3>1, <3>3
    <3>5. command.state # "input"
      BY <2>1, <3>1, <3>3
    <3>6. ASSUME NEW i \in 1..(n + 1)
          PROVE  \/ FILES[i] \in command.late
                 \/ caseFiles[FILES[i]] = File(command.manifest.file_sha256[FILES[i]])
      <4>1. CASE i = n + 1
        BY <3>1, <3>3, <4>1 DEF HashFits
      <4>2. CASE i \in 1..n
        BY <2>1, <2>3, <3>3, <4>2 DEF Found
      <4>. QED
        BY <4>1, <4>2
    <3>7. Found(command, caseFiles)
      BY <2>1, <3>3, <3>4, <3>5, <3>6 DEF Found
    <3>. QED
      BY <2>2, <3>2, <3>7 DEF ReaderInv
  <2>. QED
    BY <1>1, <2>4
<1>9. CASE ReadRequests
  <2>1. IsReader /\ Found(caseCommand, caseFiles) /\ caseCommand.state = "requests"
    BY <1>9, ReaderFacts DEF ReadRequests, Reading
  <2>2. UNCHANGED caseFiles
    BY <1>9 DEF ReadRequests
  <2>3. CASE caseCommand' # NoCommand
    <3>1. caseCommand' = [caseCommand EXCEPT !.state = "config"]
      BY <1>9, <2>3 DEF ReadRequests, EndsWith
    <3>2. PICK command : command = caseCommand'
      OBVIOUS
    <3>3. /\ command.kind = caseCommand.kind /\ command.arguments = caseCommand.arguments
          /\ command.manifest = caseCommand.manifest /\ command.edited = caseCommand.edited
          /\ command.late = caseCommand.late
          /\ command.checked = caseCommand.checked /\ command.state = "config"
      BY <2>1, <3>1, <3>2 DEF IsReader
    <3>4. Found(command, caseFiles)
      BY <2>1, <3>3 DEF Found
    <3>. QED
      BY <2>2, <3>2, <3>4 DEF ReaderInv
  <2>. QED
    BY <1>1, <2>3
<1>10. CASE ReadConfig
  <2>1. IsReader /\ Found(caseCommand, caseFiles) /\ caseCommand.state = "config"
    BY <1>10, ReaderFacts DEF ReadConfig, Reading
  <2>2. /\ UNCHANGED caseFiles
        /\ caseCommand' =
             [caseCommand EXCEPT !.config = ReadByRunner("config.txt"), !.state = "input"]
    BY <1>10 DEF ReadConfig
  <2>3. PICK command : command = caseCommand'
    OBVIOUS
  <2>4. /\ command.kind = caseCommand.kind /\ command.arguments = caseCommand.arguments
        /\ command.manifest = caseCommand.manifest /\ command.edited = caseCommand.edited
        /\ command.late = caseCommand.late /\ command.config = ReadByRunner("config.txt")
        /\ command.checked = caseCommand.checked /\ command.state = "input"
    BY <2>1, <2>2, <2>3 DEF IsReader
  <2>5. /\ caseCommand.checked = 3
        /\ \/ "config.txt" \in caseCommand.late
           \/ caseFiles["config.txt"] = File(caseCommand.manifest.file_sha256["config.txt"])
    BY <2>1, CheckedNames DEF Found
  <2>6. \/ "config.txt" \in command.late
        \/ command.config = command.manifest.file_sha256["config.txt"]
    BY <2>4, <2>5 DEF ReadByRunner, File
  <2>7. Found(command, caseFiles)
    BY <2>1, <2>4, <2>6 DEF Found
  <2>. QED
    BY <2>2, <2>3, <2>7 DEF ReaderInv
<1>11. CASE ReadInput
  BY <1>1, <1>11 DEF ReadInput, EndsWith
<1>12. CASE StopReading
  BY <1>1, <1>12 DEF StopReading, EndsWith
<1>13. CASE EditCase
  <2>1. CASE caseCommand = NoCommand
    BY <1>1, <1>13, <2>1 DEF EditCase
  <2>2. CASE caseCommand # NoCommand
    <3>1. IsReader
      BY <1>13, <2>2 DEF EditCase, CaseInv, GeneratorInv, Generating
    <3>2. Found(caseCommand, caseFiles)
      BY <3>1 DEF IsReader, ReaderInv
    <3>3. PICK name, file :
            /\ caseFiles' = [caseFiles EXCEPT ![name] = file]
            /\ caseCommand' =
                 [caseCommand EXCEPT !.late = caseCommand.late \cup ({name} \cap Checked)]
      BY <1>13, <2>2 DEF EditCase
    <3>4. PICK command : command = caseCommand'
      OBVIOUS
    <3>5. /\ command.kind = caseCommand.kind /\ command.arguments = caseCommand.arguments
          /\ command.manifest = caseCommand.manifest /\ command.edited = caseCommand.edited
          /\ command.late = caseCommand.late \cup ({name} \cap Checked)
          /\ command.config = caseCommand.config
          /\ command.checked = caseCommand.checked /\ command.state = caseCommand.state
      BY <3>1, <3>3, <3>4 DEF IsReader
    <3>6. ASSUME NEW i \in 1..command.checked
          PROVE  \/ FILES[i] \in command.late
                 \/ caseFiles'[FILES[i]] = File(command.manifest.file_sha256[FILES[i]])
      <4>1. FILES[i] \in Checked
        BY <3>5, <3>6 DEF Checked
      <4>2. FILES[i] # name => caseFiles'[FILES[i]] = caseFiles[FILES[i]]
        BY <3>3
      <4>3. \/ FILES[i] \in caseCommand.late
            \/ caseFiles[FILES[i]] = File(caseCommand.manifest.file_sha256[FILES[i]])
        BY <3>2, <3>5, <3>6 DEF Found
      <4>. QED
        BY <3>5, <4>1, <4>2, <4>3
    <3>7. Found(command, caseFiles')
      BY <3>2, <3>5, <3>6 DEF Found
    <3>. QED
      BY <3>4, <3>7 DEF ReaderInv
  <2>. QED
    BY <2>1, <2>2
<1>14. CASE EditManifest
  BY <1>1, <1>14 DEF EditManifest
<1>. QED
  BY <1>2, <1>3, <1>4, <1>6, <1>7, <1>8, <1>9, <1>10, <1>11, <1>12, <1>13, <1>14 DEF CaseNext

\* What run prints is of the files that have the hashes; and of the case of its
\* manifest.
LEMMA RunTruthful ==
  ASSUME CaseInv, ReaderInv, ReadInput
  PROVE  CaseTruthful'
<1>1. /\ IsReader /\ Found(caseCommand, caseFiles)
      /\ caseCommand.state = "input" /\ caseCommand.checked = 3
  BY ReaderFacts DEF ReadInput, Reading, Found
<1>2. PICK manifest, hashed, config :
        /\ manifest = caseCommand.manifest
        /\ hashed = manifest.file_sha256
        /\ config = caseCommand.config
  OBVIOUS
<1>3. PICK measured, kind :
        /\ measured = RunExperiment(config, ReadByRunner("input.txt"))
        /\ kind = IF measured = NoExperiment THEN "runner failed"
                  ELSE IF CountersAccepted(measured, manifest.case.requests,
                                           Len(manifest.case.capacities))
                    THEN "counters"
                  ELSE "incorrect statistics"
  OBVIOUS
<1>4. PICK report : report = caseReport'
  OBVIOUS
<1>5. report = [kind |-> kind, manifest |-> manifest, edited |-> caseCommand.edited,
                late |-> caseCommand.late, measured |-> measured]
  BY <1>2, <1>3, <1>4 DEF ReadInput, EndsWith
<1>6. /\ report.kind = kind /\ report.manifest = manifest /\ report.measured = measured
      /\ report.edited = caseCommand.edited /\ report.late = caseCommand.late
      /\ report.kind # "comparison"
  BY <1>3, <1>5
<1>7. ASSUME report.late \cap {"input.txt", "config.txt"} = {}
      PROVE  OfHashes(report) /\ (~ report.edited => OfCase(report))
  <2>1. "input.txt" \notin caseCommand.late /\ "config.txt" \notin caseCommand.late
    BY <1>6, <1>7
  <2>2. config = hashed["config.txt"]
    BY <1>1, <1>2, <2>1 DEF Found
  <2>3. caseFiles["input.txt"] = File(hashed["input.txt"])
    BY <1>1, <1>2, <2>1, CheckedNames DEF Found
  <2>4. measured = RunExperiment(hashed["config.txt"], hashed["input.txt"])
    <3>1. ReadByRunner("input.txt") = hashed["input.txt"]
      BY <2>3 DEF ReadByRunner, File
    <3>. QED
      BY <1>3, <2>2, <3>1
  <2>5. OfHashes(report)
    BY <1>2, <1>6, <2>4 DEF OfHashes
  <2>6. ASSUME ~ report.edited PROVE OfCase(report)
    <3>1. PICK case \in ValidCases : manifest = Metadata(case)
      BY <1>1, <1>2, <1>6, <2>6 DEF Found, Describes, WholeManifest
    <3>2. /\ manifest.case = case
          /\ hashed["config.txt"] = ConfigFile(case.strategies)
          /\ hashed["input.txt"] = InputFile(case.capacities, RequestsOf(case))
      BY <1>2, <3>1, MetadataIsWhole
    <3>3. /\ Runnable(case.strategies, case.capacities, RequestsOf(case))
          /\ Len(RequestsOf(case)) = case.requests
      BY <3>1, ValidIsRunnable DEF ValidCases
    <3>4. /\ measured = Intended(case.strategies, case.capacities, RequestsOf(case))
          /\ measured # NoExperiment
          /\ CountersAccepted(measured, Len(RequestsOf(case)), Len(case.capacities))
      BY <2>4, <3>2, <3>3, RunsAsIntended
    <3>5. CountersAccepted(measured, manifest.case.requests, Len(manifest.case.capacities))
      BY <3>2, <3>3, <3>4
    <3>6. kind = "counters"
      BY <1>3, <3>4, <3>5
    <3>. QED
      BY <1>6, <3>2, <3>4, <3>6 DEF OfCase, IntendedCase
  <2>. QED
    BY <2>5, <2>6
<1>. QED
  BY <1>4, <1>6, <1>7 DEF CaseTruthful

\* A comparison has one row of each strategy, as it is intended.
LEMMA ComparisonIsIntended ==
  ASSUME NEW arguments \in CompareArguments, MayCompare(arguments),
         NEW requests \in Seq(Nat), requests # <<>>,
         NEW rows, rows = Comparison(arguments, requests)
  PROVE  /\ ToSet(rows) = {Intended(<<strategy>>, <<arguments.capacity>>, requests) :
                             strategy \in ToSet(arguments.strategies)}
         /\ Len(rows) = Cardinality(ToSet(arguments.strategies))
<1>1. PICK strategies : strategies = FromKeys(arguments.strategies)
  OBVIOUS
<1>2. /\ arguments.capacity \in Int /\ arguments.capacity >= 1
      /\ arguments.strategies \in Seq(strategyNames)
  BY CaseAssumption DEF MayCompare
<1>3. /\ strategies \in Seq(strategyNames)
      /\ ToSet(strategies) = ToSet(arguments.strategies)
      /\ Len(strategies) = Cardinality(ToSet(arguments.strategies))
  BY <1>1, <1>2, FromKeysFacts
<1>4. PICK n \in Nat : n = Len(strategies) /\ DOMAIN strategies = 1..n
  BY <1>3
<1>5. rows = [i \in 1..n |-> RunExperiment(ConfigFile(<<strategies[i]>>),
                                           InputFile(<<arguments.capacity>>, requests))]
  BY <1>1, <1>4 DEF Comparison
<1>6. ASSUME NEW i \in 1..n
      PROVE  RunExperiment(ConfigFile(<<strategies[i]>>),
                           InputFile(<<arguments.capacity>>, requests))
               = Intended(<<strategies[i]>>, <<arguments.capacity>>, requests)
  <2>1. strategies[i] \in strategyNames /\ strategies[i] \in ToSet(arguments.strategies)
    <3>1. strategies[i] \in ToSet(strategies)
      BY <1>4 DEF ToSet
    <3>2. strategies[i] \in strategyNames
      BY <1>3, <1>4
    <3>. QED
      BY <1>3, <3>1, <3>2
  <2>2. strategies[i] \in {"2Q", "LIRS"} => arguments.capacity >= 2
    BY <2>1 DEF MayCompare
  <2>3. PICK one \in Seq(strategyNames) : one = <<strategies[i]>> /\ Len(one) = 1
                                   /\ one[1] = strategies[i] /\ ToSet(one) = {strategies[i]}
    <3>1. <<strategies[i]>> \in Seq(strategyNames) /\ Len(<<strategies[i]>>) = 1
          /\ <<strategies[i]>>[1] = strategies[i]
      BY <2>1
    <3>2. ToSet(<<strategies[i]>>) = {strategies[i]}
      BY <3>1 DEF ToSet
    <3>. QED
      BY <3>1, <3>2
  <2>4. PICK size \in Seq(Nat) : size = <<arguments.capacity>> /\ Len(size) = 1
                                 /\ size[1] = arguments.capacity
    <3>1. PICK capacity \in Nat : capacity = arguments.capacity
      BY <1>2
    <3>2. <<capacity>> \in Seq(Nat) /\ Len(<<capacity>>) = 1 /\ <<capacity>>[1] = capacity
      OBVIOUS
    <3>. QED
      BY <3>1, <3>2
  <2>5. ASSUME NEW j \in 1..Len(one)
        PROVE  /\ size[j] >= IF one[j] \in {"2Q", "LIRS"} THEN 2 ELSE 1
               /\ one[j] = "REF" => Len(one) = 1
    <3>1. j = 1
      BY <2>3
    <3>. QED
      BY <1>2, <2>2, <2>3, <2>4, <3>1
  <2>6. Runnable(one, size, requests)
    BY <1>2, <2>1, <2>3, <2>4, <2>5 DEF Runnable
  <2>. QED
    BY <2>3, <2>4, <2>6, RunsAsIntended
<1>7. rows = [i \in 1..n |-> Intended(<<strategies[i]>>, <<arguments.capacity>>, requests)]
  BY <1>5, <1>6
<1>8. Len(rows) = n /\ DOMAIN rows = 1..n
  BY <1>7
<1>9. ToSet(rows) = {rows[i] : i \in 1..n}
  BY <1>8 DEF ToSet
<1>10. ToSet(arguments.strategies) = {strategies[i] : i \in 1..n}
  BY <1>3, <1>4 DEF ToSet
<1>11. ToSet(rows) = {Intended(<<strategy>>, <<arguments.capacity>>, requests) :
                        strategy \in ToSet(arguments.strategies)}
  <2>. DEFINE Row(strategy) == Intended(<<strategy>>, <<arguments.capacity>>, requests)
  <2>1. \A i \in 1..n : rows[i] = Row(strategies[i])
    BY <1>7
  <2>. HIDE DEF Row
  <2>2. ToSet(rows) = {Row(strategy) : strategy \in ToSet(arguments.strategies)}
    BY <1>9, <1>10, <2>1
  <2>. QED
    BY <2>2 DEF Row
<1>12. Len(rows) = Cardinality(ToSet(arguments.strategies))
  BY <1>3, <1>4, <1>8
<1>. QED
  BY <1>11, <1>12

\* What compare prints is on the requests that have the hash; and on those of the
\* case of its manifest.
LEMMA CompareTruthful ==
  ASSUME CaseInv, ReaderInv, ReadRequests, caseCommand' = NoCommand
  PROVE  CaseTruthful'
<1>1. CASE caseReport' = Refused
  BY <1>1 DEF CaseTruthful, Refused
<1>2. CASE caseReport' # Refused
  <2>1. /\ Found(caseCommand, caseFiles)
        /\ caseCommand.state = "requests" /\ caseCommand.checked = 3
    BY ReaderFacts DEF ReadRequests, Reading, Found
  <2>2. caseCommand.kind = "compare"
    <3>1. caseCommand.kind \in {"run", "compare"} /\ IsReader
      BY ReaderFacts DEF ReadRequests, Reading
    <3>2. caseCommand.kind = "run" => caseCommand' = [caseCommand EXCEPT !.state = "config"]
      BY <1>2 DEF ReadRequests, EndsWith
    <3>3. [caseCommand EXCEPT !.state = "config"].kind = caseCommand.kind
      BY <3>1 DEF IsReader
    <3>. QED
      BY <3>1, <3>2, <3>3 DEF NoCommand
  <2>3. PICK manifest, hashed :
          manifest = caseCommand.manifest /\ hashed = manifest.file_sha256
    OBVIOUS
  <2>4. PICK arguments \in CompareArguments :
          arguments = caseCommand.arguments /\ MayCompare(arguments)
    BY <2>1, <2>2 DEF Found
  <2>5. PICK rows : rows = Comparison(arguments, Values(caseFiles["requests.txt"].contents))
    OBVIOUS
  <2>6. PICK report : report = caseReport'
    OBVIOUS
  <2>7. report = [kind |-> "comparison", manifest |-> manifest, edited |-> caseCommand.edited,
                  late |-> caseCommand.late, arguments |-> arguments, rows |-> rows]
    BY <1>2, <2>2, <2>3, <2>4, <2>5, <2>6 DEF ReadRequests, EndsWith
  <2>8. /\ report.kind = "comparison" /\ report.manifest = manifest
        /\ report.edited = caseCommand.edited /\ report.late = caseCommand.late
        /\ report.arguments = arguments /\ report.rows = rows
    BY <2>7
  <2>9. ASSUME report.late \cap {"requests.txt"} = {}
        PROVE  OfHashes(report) /\ (~ report.edited => OfCase(report))
    <3>1. caseFiles["requests.txt"] = File(hashed["requests.txt"])
      BY <2>1, <2>3, <2>8, <2>9, CheckedNames DEF Found
    <3>2. PICK case \in ValidCases : hashed["requests.txt"] = Ints(RequestsOf(case))
      BY <2>1, <2>3 DEF Found, Describes, WholeManifest
    <3>3. PICK requests \in Seq(Nat) : requests = RequestsOf(case) /\ requests # <<>>
      BY ValidIsRunnable DEF Runnable, ValidCases
    <3>4. Values(hashed["requests.txt"]) = requests
      BY <3>2, <3>3, ValuesOfInts
    <3>5. rows = Comparison(arguments, requests)
      BY <2>5, <3>1, <3>4 DEF File
    <3>6. ComparesEachOnce(report, requests)
      <4>1. /\ ToSet(rows) = {Intended(<<strategy>>, <<arguments.capacity>>, requests) :
                                strategy \in ToSet(arguments.strategies)}
            /\ Len(rows) = Cardinality(ToSet(arguments.strategies))
        BY <2>4, <3>3, <3>5, ComparisonIsIntended
      <4>. QED
        BY <2>8, <4>1 DEF ComparesEachOnce
    <3>7. OfHashes(report)
      BY <2>3, <2>8, <3>4, <3>6 DEF OfHashes
    <3>8. ASSUME ~ report.edited PROVE OfCase(report)
      <4>1. PICK own \in ValidCases : manifest = Metadata(own)
        BY <2>1, <2>3, <2>8, <3>8 DEF Found, Describes, WholeManifest
      <4>2. manifest.case = own /\ hashed["requests.txt"] = Ints(RequestsOf(own))
        BY <2>3, <4>1, MetadataIsWhole
      <4>3. RequestsOf(own) \in Seq(Nat)
        BY ValidIsRunnable DEF ValidCases
      <4>4. RequestsOf(own) = requests
        BY <3>4, <4>2, <4>3, ValuesOfInts
      <4>. QED
        BY <2>8, <3>6, <4>2, <4>4 DEF OfCase
    <3>. QED
      BY <3>7, <3>8
  <2>. QED
    BY <2>6, <2>8, <2>9 DEF CaseTruthful
<1>. QED
  BY <1>1, <1>2

\* Every step of the commands in a folder prints what is true.
LEMMA TruthfulStep ==
  ASSUME CaseInv, ReaderInv, CaseTruthful, CaseNext
  PROVE  CaseTruthful'
<1>1. ASSUME caseReport' = caseReport PROVE CaseTruthful'
  BY <1>1 DEF CaseTruthful
<1>2. ASSUME caseReport' \in {NoReport, Refused} PROVE CaseTruthful'
  <2>1. caseReport'.kind \in {"none", "refused"}
    BY <1>2 DEF NoReport, Refused
  <2>. QED
    BY <2>1 DEF CaseTruthful
<1>3. ASSUME \/ \E arguments \in CaseArguments, force \in BOOLEAN : Generate(arguments, force)
             \/ EditCase \/ EditManifest \/ StopReading
      PROVE  caseReport' = NoReport
  BY <1>3 DEF Generate, EditCase, EditManifest, StopReading, EndsWith
<1>4. WriteCaseFile \/ StopGenerate \/ ReadConfig => caseReport' = caseReport
  BY DEF WriteCaseFile, StopGenerate, ReadConfig
<1>5. RunCase \/ (\E arguments \in CompareArguments : CompareCase(arguments))
        => caseReport' \in {NoReport, Refused}
  BY DEF RunCase, CompareCase, ReadManifest
<1>6. CheckFile => caseReport' \in {caseReport, Refused}
  BY DEF CheckFile, EndsWith
<1>7. ReadRequests => caseCommand' = NoCommand \/ caseReport' = caseReport
  BY DEF ReadRequests, EndsWith
<1>8. ReadRequests => CaseTruthful'
  BY <1>1, <1>7, CompareTruthful
<1>9. ReadInput => CaseTruthful'
  BY RunTruthful
<1>10. CheckFile => CaseTruthful'
  BY <1>1, <1>2, <1>6
<1>. QED
  BY <1>1, <1>2, <1>3, <1>4, <1>5, <1>8, <1>9, <1>10 DEF CaseNext

\* At first there is no manifest, and nothing is printed.
LEMMA TruthfulInit == CaseInit => ManifestInv /\ ReaderInv /\ CaseTruthful
<1>. SUFFICES ASSUME CaseInit PROVE ManifestInv /\ ReaderInv /\ CaseTruthful
  OBVIOUS
<1>1. ~ caseFiles["manifest.json"].exists
  BY DEF CaseInit, NoFile, FILES, ToSet
<1>2. caseCommand.kind = "none" /\ caseReport.kind = "none"
  BY DEF CaseInit, NoCommand, NoReport
<1>. QED
  BY <1>1, <1>2 DEF ManifestInv, ReaderInv, CaseTruthful, Generating

\* Whatever was regenerated over, broken off or edited before, what run and compare
\* print is of the files that their manifest has the hashes of, if none of those
\* was edited between its check and its use; of the case that generate was called
\* with, if the manifest was not edited either; and then the runner and the check of
\* its counters refuse no case that read_case accepts (read_case, run_case,
\* compare_case).
THEOREM CaseReportsTruthful == CommandsSpec => []CaseTruthful
<1>. DEFINE WholeInv == CaseInv /\ ManifestInv /\ ReaderInv /\ CaseTruthful
<1>1. CommandsInit => WholeInv
  BY CaseInitInv, TruthfulInit DEF CommandsInit
<1>2. WholeInv /\ [CommandsNext]_commandsVars => WholeInv'
  <2>. SUFFICES ASSUME WholeInv, [CommandsNext]_commandsVars PROVE WholeInv'
    OBVIOUS
  <2>1. CASE CaseNext
    BY <2>1, CaseStep, ManifestStep, ReaderStep, TruthfulStep
  <2>2. CASE UNCHANGED caseVars
    <3>1. CaseInv'
      BY <2>2 DEF caseVars, CaseInv, GeneratorInv, IsReader
    <3>2. ManifestInv' /\ ReaderInv' /\ CaseTruthful'
      BY <2>2 DEF caseVars, ManifestInv, Generating, Manifest, ReaderInv, CaseTruthful
    <3>. QED
      BY <3>1, <3>2
  <2>. QED
    BY <2>1, <2>2 DEF CommandsNext, commandsVars
<1>. QED
  BY <1>1, <1>2, PTL DEF CommandsSpec

-----------------------------------------------------------------------------
(***************************************************************************)
(* The original benchmark: what a command is to do.                        *)
(***************************************************************************)

\* A strategy for every level of a layout.
ConfigurationType ==
  {configuration \in [strategies : Seq(strategyNames), capacities : ToSet(LEVEL_CAPACITIES)] :
     Len(configuration.strategies) = Len(configuration.capacities)}

\* The pattern and the seed of a run.
TraceNames(seeds) ==
  {[pattern |-> pattern, seed |-> seed] :
     pattern \in ToSet(REQUEST_PATTERNS), seed \in ToSet(seeds)}

\* Capacities are numbers.
LEMMA LayoutFacts ==
  ASSUME NEW capacities \in ToSet(LEVEL_CAPACITIES)
  PROVE  capacities \in Seq(Nat)
BY BenchmarkAssumption DEF ToSet

\* create_cache_configurations makes configurations.
LEMMA ConfigurationsFacts ==
  create_cache_configurations \in Seq(ConfigurationType)
<1>1. PICK n \in Nat : n = Len(LEVEL_CAPACITIES) /\ DOMAIN LEVEL_CAPACITIES = 1..n
  BY BenchmarkAssumption
<1>2. PICK lists : lists = [i \in DOMAIN LEVEL_CAPACITIES |->
        LET products == Products(CACHE_STRATEGIES, Len(LEVEL_CAPACITIES[i]))
        IN [k \in DOMAIN products |->
              [strategies |-> Reverse(products[k]), capacities |-> LEVEL_CAPACITIES[i]]]]
  OBVIOUS
<1>3. ASSUME NEW i \in 1..n PROVE lists[i] \in Seq(ConfigurationType)
  <2>1. PICK capacities \in ToSet(LEVEL_CAPACITIES) : capacities = LEVEL_CAPACITIES[i]
    BY <1>1 DEF ToSet
  <2>2. PICK levels \in Nat : levels = Len(capacities)
    BY LayoutFacts
  <2>3. PICK products : products = Products(CACHE_STRATEGIES, levels)
    OBVIOUS
  <2>4. products \in Seq({chosen \in Seq(strategyNames) : Len(chosen) = levels})
    BY <2>3, BenchmarkAssumption, ProductsFacts
  <2>5. PICK m \in Nat : m = Len(products) /\ DOMAIN products = 1..m
    BY <2>4
  <2>6. lists[i] = [k \in 1..m |-> [strategies |-> Reverse(products[k]), capacities |-> capacities]]
    BY <1>1, <1>2, <2>1, <2>2, <2>3, <2>5
  <2>7. ASSUME NEW k \in 1..m
        PROVE  [strategies |-> Reverse(products[k]), capacities |-> capacities]
                 \in ConfigurationType
    <3>1. PICK chosen \in Seq(strategyNames) : chosen = products[k] /\ Len(chosen) = levels
      BY <2>4, <2>5
    <3>2. Reverse(chosen) = [j \in 1..levels |-> chosen[(levels - j) + 1]]
      BY <3>1 DEF Reverse
    <3>3. ASSUME NEW j \in 1..levels PROVE chosen[(levels - j) + 1] \in strategyNames
      <4>1. (levels - j) + 1 \in 1..levels
        OBVIOUS
      <4>. QED
        BY <3>1, <4>1
    <3>4. Reverse(chosen) \in Seq(strategyNames) /\ Len(Reverse(chosen)) = levels
      BY <3>2, <3>3
    <3>. QED
      BY <2>2, <3>1, <3>4 DEF ConfigurationType
  <2>8. lists[i] \in [1..m -> ConfigurationType]
    BY <2>6, <2>7
  <2>. QED
    BY <2>8
<1>4. lists \in Seq(Seq(ConfigurationType))
  <2>1. lists \in [1..n -> Seq(ConfigurationType)]
    BY <1>1, <1>2, <1>3
  <2>. QED
    BY <2>1
<1>5. create_cache_configurations = FlattenSeq(lists)
  BY <1>2 DEF create_cache_configurations, Combined
<1>. QED
  BY <1>4, <1>5, FlattenItems

\* REF64 is one too.
LEMMA ReferenceFacts == REF64 \in ConfigurationType
<1>1. LEVEL_CAPACITIES[1] \in ToSet(LEVEL_CAPACITIES) /\ Len(LEVEL_CAPACITIES[1]) = 1
  <2>1. LEVEL_CAPACITIES \in Seq(Seq(Nat)) /\ LEVEL_CAPACITIES # <<>>
    BY BenchmarkAssumption, LayoutAssumption
  <2>2. 1 \in DOMAIN LEVEL_CAPACITIES
    BY <2>1
  <2>. QED
    BY <2>2, LayoutAssumption DEF ToSet
<1>2. <<"REF">> \in Seq(strategyNames) /\ Len(<<"REF">>) = 1
  <2>1. "REF" \in strategyNames
    BY DEF strategyNames
  <2>. QED
    BY <2>1
<1>. QED
  BY <1>1, <1>2 DEF REF64, ConfigurationType

\* What a command tries: every configuration, and REF64.
Tried == ToSet(create_cache_configurations) \cup {REF64}

LEMMA TriedFacts == Tried \subseteq ConfigurationType
<1>1. ASSUME NEW configuration \in ToSet(create_cache_configurations)
      PROVE  configuration \in ConfigurationType
  BY ConfigurationsFacts DEF ToSet
<1>. QED
  BY <1>1, ReferenceFacts DEF Tried

\* Every pattern comes with every seed.
LEMMA TracesFacts ==
  ASSUME NEW seeds \in RandomSeeds
  PROVE  /\ TracesOf(seeds) \in Seq(TraceNames(seeds))
         /\ ToSet(TracesOf(seeds)) = TraceNames(seeds)
         /\ TraceNames(seeds) # {}
<1>1. PICK n \in Nat, m \in Nat : /\ n = Len(REQUEST_PATTERNS) /\ DOMAIN REQUEST_PATTERNS = 1..n
                                  /\ m = Len(seeds) /\ DOMAIN seeds = 1..m
                                  /\ n # 0 /\ m # 0
  <2>1. REQUEST_PATTERNS \in Seq(STRING) \ {<<>>} /\ seeds \in Seq(Int) \ {<<>>}
    BY BenchmarkAssumption
  <2>. QED
    BY <2>1
<1>2. PICK lists : lists = [i \in DOMAIN REQUEST_PATTERNS |->
        [j \in DOMAIN seeds |-> [pattern |-> REQUEST_PATTERNS[i], seed |-> seeds[j]]]]
  OBVIOUS
<1>3. ASSUME NEW i \in 1..n
      PROVE  /\ lists[i] \in Seq(TraceNames(seeds))
             /\ ToSet(lists[i])
                  = {[pattern |-> REQUEST_PATTERNS[i], seed |-> seed] : seed \in ToSet(seeds)}
  <2>1. lists[i] = [j \in 1..m |-> [pattern |-> REQUEST_PATTERNS[i], seed |-> seeds[j]]]
    BY <1>1, <1>2
  <2>2. \A j \in 1..m :
          [pattern |-> REQUEST_PATTERNS[i], seed |-> seeds[j]] \in TraceNames(seeds)
    <3>. SUFFICES ASSUME NEW j \in 1..m
                  PROVE  [pattern |-> REQUEST_PATTERNS[i], seed |-> seeds[j]] \in TraceNames(seeds)
      OBVIOUS
    <3>1. REQUEST_PATTERNS[i] \in ToSet(REQUEST_PATTERNS) /\ seeds[j] \in ToSet(seeds)
      BY <1>1 DEF ToSet
    <3>. QED
      BY <3>1 DEF TraceNames
  <2>3. lists[i] \in [1..m -> TraceNames(seeds)]
    BY <2>1, <2>2
  <2>4. DOMAIN lists[i] = 1..m /\ ToSet(seeds) = {seeds[j] : j \in 1..m}
    BY <1>1, <2>1 DEF ToSet
  <2>5. ToSet(lists[i]) = {lists[i][j] : j \in 1..m}
    BY <2>4 DEF ToSet
  <2>. QED
    BY <2>1, <2>3, <2>4, <2>5
<1>4. lists \in Seq(Seq(TraceNames(seeds))) /\ Len(lists) = n
  <2>1. lists \in [1..n -> Seq(TraceNames(seeds))]
    BY <1>1, <1>2, <1>3
  <2>. QED
    BY <2>1
<1>5. TracesOf(seeds) = FlattenSeq(lists)
  BY <1>2 DEF TracesOf, Combined
<1>6. /\ TracesOf(seeds) \in Seq(TraceNames(seeds))
      /\ ToSet(TracesOf(seeds)) = UNION {ToSet(lists[i]) : i \in 1..n}
  BY <1>4, <1>5, FlattenItems
<1>7. ToSet(REQUEST_PATTERNS) = {REQUEST_PATTERNS[i] : i \in 1..n}
  BY <1>1 DEF ToSet
<1>8. ASSUME NEW run \in TraceNames(seeds)
      PROVE  run \in UNION {ToSet(lists[i]) : i \in 1..n}
  <2>1. PICK pattern \in ToSet(REQUEST_PATTERNS), seed \in ToSet(seeds) :
          run = [pattern |-> pattern, seed |-> seed]
    BY <1>8 DEF TraceNames
  <2>2. PICK i \in 1..n : pattern = REQUEST_PATTERNS[i]
    BY <1>7
  <2>3. run \in ToSet(lists[i])
    BY <1>3, <2>1, <2>2
  <2>. QED
    BY <2>3
<1>9. ASSUME NEW run \in UNION {ToSet(lists[i]) : i \in 1..n}
      PROVE  run \in TraceNames(seeds)
  <2>1. PICK i \in 1..n : run \in ToSet(lists[i])
    BY <1>9
  <2>2. PICK seed \in ToSet(seeds) : run = [pattern |-> REQUEST_PATTERNS[i], seed |-> seed]
    BY <1>3, <2>1
  <2>3. REQUEST_PATTERNS[i] \in ToSet(REQUEST_PATTERNS)
    BY <1>7
  <2>. QED
    BY <2>2, <2>3 DEF TraceNames
<1>10. UNION {ToSet(lists[i]) : i \in 1..n} = TraceNames(seeds)
  BY <1>8, <1>9
<1>11. REQUEST_PATTERNS[1] \in ToSet(REQUEST_PATTERNS) /\ seeds[1] \in ToSet(seeds)
  BY <1>1 DEF ToSet
<1>12. [pattern |-> REQUEST_PATTERNS[1], seed |-> seeds[1]] \in TraceNames(seeds)
  BY <1>11 DEF TraceNames
<1>13. TraceNames(seeds) # {}
  BY <1>12
<1>. QED
  BY <1>6, <1>10, <1>13

\* The files of a command: a configuration of everything it tries, and an input
\* of every trace and layout.
ConfigFiles ==
  {[path |-> get_config_path(configuration), tokens |-> ConfigFile(configuration.strategies)] :
     configuration \in Tried}

InputFileOf(run, requests, capacities) ==
  [path   |-> get_input_path(run.pattern, run.seed, capacities),
   tokens |-> InputFile(capacities, Trace(run.pattern, run.seed, requests))]

InputFiles(arguments) ==
  {InputFileOf(run, arguments.requests, capacities) :
     run \in TraceNames(arguments.seeds), capacities \in ToSet(LEVEL_CAPACITIES)}

\* The inputs are written trace by trace.
LEMMA InputFilesFacts ==
  ASSUME NEW arguments \in BenchmarkArguments,
         NEW inputs,
         inputs = FlattenSeq([j \in DOMAIN TracesOf(arguments.seeds) |->
                    [i \in DOMAIN LEVEL_CAPACITIES |->
                       InputFileOf(TracesOf(arguments.seeds)[j], arguments.requests,
                                   LEVEL_CAPACITIES[i])]])
  PROVE  inputs \in Seq(InputFiles(arguments)) /\ ToSet(inputs) = InputFiles(arguments)
<1>1. arguments.seeds \in RandomSeeds
  BY DEF BenchmarkArguments
<1>2. PICK runs \in Seq(TraceNames(arguments.seeds)) :
        runs = TracesOf(arguments.seeds) /\ ToSet(runs) = TraceNames(arguments.seeds)
  BY <1>1, TracesFacts
<1>3. PICK n \in Nat, k \in Nat : /\ n = Len(runs) /\ DOMAIN runs = 1..n
                                  /\ k = Len(LEVEL_CAPACITIES) /\ DOMAIN LEVEL_CAPACITIES = 1..k
  BY BenchmarkAssumption
<1>4. PICK lists : lists = [j \in 1..n |->
        [i \in 1..k |-> InputFileOf(runs[j], arguments.requests, LEVEL_CAPACITIES[i])]]
  OBVIOUS
<1>5. /\ ToSet(runs) = {runs[j] : j \in 1..n}
      /\ ToSet(LEVEL_CAPACITIES) = {LEVEL_CAPACITIES[i] : i \in 1..k}
  BY <1>3 DEF ToSet
<1>6. ASSUME NEW j \in 1..n
      PROVE  /\ lists[j] \in Seq(InputFiles(arguments))
             /\ ToSet(lists[j]) = {InputFileOf(runs[j], arguments.requests, capacities) :
                                     capacities \in ToSet(LEVEL_CAPACITIES)}
  <2>1. runs[j] \in TraceNames(arguments.seeds)
    BY <1>2, <1>3
  <2>2. ASSUME NEW i \in 1..k
        PROVE  InputFileOf(runs[j], arguments.requests, LEVEL_CAPACITIES[i])
                 \in InputFiles(arguments)
    <3>1. LEVEL_CAPACITIES[i] \in ToSet(LEVEL_CAPACITIES)
      BY <1>5
    <3>. QED
      BY <2>1, <3>1 DEF InputFiles
  <2>3. lists[j] \in [1..k -> InputFiles(arguments)]
    BY <1>4, <2>2
  <2>4. ToSet(lists[j]) = {lists[j][i] : i \in 1..k}
    BY <2>3 DEF ToSet
  <2>5. \A i \in 1..k :
          lists[j][i] = InputFileOf(runs[j], arguments.requests, LEVEL_CAPACITIES[i])
    BY <1>4
  <2>. QED
    BY <1>5, <2>3, <2>4, <2>5
<1>7. lists \in Seq(Seq(InputFiles(arguments))) /\ Len(lists) = n
  <2>1. lists \in [1..n -> Seq(InputFiles(arguments))]
    BY <1>4, <1>6
  <2>. QED
    BY <2>1
<1>8. inputs = FlattenSeq(lists)
  BY <1>2, <1>3, <1>4
<1>9. /\ inputs \in Seq(InputFiles(arguments))
      /\ ToSet(inputs) = UNION {ToSet(lists[j]) : j \in 1..n}
  BY <1>7, <1>8, FlattenItems
<1>10. ASSUME NEW file \in InputFiles(arguments)
       PROVE  file \in UNION {ToSet(lists[j]) : j \in 1..n}
  <2>1. PICK run \in TraceNames(arguments.seeds), capacities \in ToSet(LEVEL_CAPACITIES) :
          file = InputFileOf(run, arguments.requests, capacities)
    BY <1>10 DEF InputFiles
  <2>2. PICK j \in 1..n : run = runs[j]
    BY <1>2, <1>5
  <2>3. file \in ToSet(lists[j])
    BY <1>6, <2>1, <2>2
  <2>. QED
    BY <2>3
<1>11. UNION {ToSet(lists[j]) : j \in 1..n} \subseteq InputFiles(arguments)
  <2>1. ASSUME NEW j \in 1..n PROVE ToSet(lists[j]) \subseteq InputFiles(arguments)
    BY <1>6 DEF ToSet
  <2>. QED
    BY <2>1
<1>. QED
  BY <1>9, <1>10, <1>11

\* The files generate_benchmark_files writes.
LEMMA FilesFacts ==
  ASSUME NEW arguments \in BenchmarkArguments,
         NEW toWrite, toWrite = generate_benchmark_files[arguments]
  PROVE  /\ toWrite \in Seq(ConfigFiles \cup InputFiles(arguments))
         /\ ToSet(toWrite) = ConfigFiles \cup InputFiles(arguments)
         /\ Len(toWrite) > 0
<1>1. PICK all : all = Append(create_cache_configurations, REF64)
  OBVIOUS
<1>2. PICK configs : configs = [i \in DOMAIN all |->
        [path |-> get_config_path(all[i]), tokens |-> ConfigFile(all[i].strategies)]]
  OBVIOUS
<1>3. PICK inputs : inputs = FlattenSeq([j \in DOMAIN TracesOf(arguments.seeds) |->
                    [i \in DOMAIN LEVEL_CAPACITIES |->
                       InputFileOf(TracesOf(arguments.seeds)[j], arguments.requests,
                                   LEVEL_CAPACITIES[i])]])
  OBVIOUS
<1>4. toWrite = configs \o inputs
  BY <1>1, <1>2, <1>3 DEF generate_benchmark_files, Combined, InputFileOf
<1>5. all \in Seq(Tried) /\ ToSet(all) = Tried
  <2>1. create_cache_configurations \in Seq(ConfigurationType)
    BY ConfigurationsFacts
  <2>2. create_cache_configurations \in Seq(Tried)
    <3>1. PICK n \in Nat : /\ n = Len(create_cache_configurations)
                           /\ create_cache_configurations \in [1..n -> ConfigurationType]
      BY <2>1
    <3>2. \A i \in 1..n : create_cache_configurations[i] \in Tried
      BY <3>1 DEF Tried, ToSet
    <3>3. create_cache_configurations \in [1..n -> Tried]
      BY <3>1, <3>2
    <3>. QED
      BY <3>3
  <2>3. REF64 \in Tried
    BY DEF Tried
  <2>4. all \in Seq(Tried)
    BY <1>1, <2>2, <2>3
  <2>5. ToSet(all) = ToSet(create_cache_configurations) \cup {REF64}
    BY <1>1, <2>2, <2>3, AppendItems
  <2>. QED
    BY <2>4, <2>5 DEF Tried
<1>6. PICK n \in Nat : n = Len(all) /\ DOMAIN all = 1..n /\ n > 0
  <2>1. PICK n \in Nat : n = Len(all) /\ DOMAIN all = 1..n
    BY <1>5
  <2>2. REF64 \in ToSet(all)
    BY <1>5 DEF Tried
  <2>3. n # 0
    BY <2>1, <2>2 DEF ToSet
  <2>. QED
    BY <2>1, <2>3
<1>7. configs \in Seq(ConfigFiles) /\ Len(configs) = n /\ ToSet(configs) = ConfigFiles
  <2>1. ASSUME NEW i \in 1..n
        PROVE  [path |-> get_config_path(all[i]), tokens |-> ConfigFile(all[i].strategies)]
                 \in ConfigFiles
    <3>1. all[i] \in Tried
      BY <1>5, <1>6
    <3>. QED
      BY <3>1 DEF ConfigFiles
  <2>2. configs \in [1..n -> ConfigFiles]
    BY <1>2, <1>6, <2>1
  <2>3. ToSet(configs) = {configs[i] : i \in 1..n} /\ Tried = {all[i] : i \in 1..n}
    BY <1>5, <1>6, <2>2 DEF ToSet
  <2>4. \A i \in 1..n : configs[i]
          = [path |-> get_config_path(all[i]), tokens |-> ConfigFile(all[i].strategies)]
    BY <1>2, <1>6
  <2>5. ToSet(configs) = ConfigFiles
    BY <2>3, <2>4, ZenonT(40) DEF ConfigFiles
  <2>. QED
    BY <2>2, <2>5
<1>8. inputs \in Seq(InputFiles(arguments)) /\ ToSet(inputs) = InputFiles(arguments)
  BY <1>3, InputFilesFacts
<1>9. PICK U : U = ConfigFiles \cup InputFiles(arguments)
  OBVIOUS
<1>10. configs \in Seq(U) /\ inputs \in Seq(U)
  BY <1>7, <1>8, <1>9
<1>11. toWrite \in Seq(U) /\ Len(toWrite) = Len(configs) + Len(inputs)
  BY <1>4, <1>10, ConcatProperties
<1>12. ToSet(toWrite) = ToSet(configs) \cup ToSet(inputs)
  BY <1>4, <1>10, ConcatItems
<1>13. Len(inputs) \in Nat
  BY <1>8
<1>. QED
  BY <1>6, <1>7, <1>8, <1>9, <1>11, <1>12, <1>13

\* The runs of a command.
RunNames(seeds) ==
  {[pattern |-> run.pattern, seed |-> run.seed, configuration |-> configuration] :
     run \in TraceNames(seeds), configuration \in Tried}

\* For every trace, a command runs everything it tries.
LEMMA RunsFacts ==
  ASSUME NEW arguments \in BenchmarkArguments, NEW runs, runs = RunsOf[arguments]
  PROVE  runs \in Seq(RunNames(arguments.seeds)) /\ Len(runs) > 0
<1>1. arguments.seeds \in RandomSeeds
  BY DEF BenchmarkArguments
<1>2. PICK traces \in Seq(TraceNames(arguments.seeds)) :
        /\ traces = TracesOf(arguments.seeds)
        /\ ToSet(traces) = TraceNames(arguments.seeds)
  BY <1>1, TracesFacts
<1>3. PICK all : all = <<REF64>> \o create_cache_configurations
  OBVIOUS
<1>4. all \in Seq(Tried) /\ Len(all) > 0
  <2>1. PICK n \in Nat : /\ n = Len(create_cache_configurations)
                         /\ create_cache_configurations \in [1..n -> ConfigurationType]
    BY ConfigurationsFacts
  <2>2. \A i \in 1..n : create_cache_configurations[i] \in Tried
    BY <2>1 DEF Tried, ToSet
  <2>3. create_cache_configurations \in [1..n -> Tried]
    BY <2>1, <2>2
  <2>4. create_cache_configurations \in Seq(Tried) /\ Len(create_cache_configurations) = n
    BY <2>1, <2>3
  <2>5. REF64 \in Tried
    BY DEF Tried
  <2>6. <<REF64>> \in Seq(Tried) /\ Len(<<REF64>>) = 1
    BY <2>5
  <2>7. /\ <<REF64>> \o create_cache_configurations \in Seq(Tried)
        /\ Len(<<REF64>> \o create_cache_configurations)
             = Len(<<REF64>>) + Len(create_cache_configurations)
    BY <2>4, <2>6, ConcatProperties
  <2>. QED
    BY <1>3, <2>4, <2>6, <2>7
<1>5. PICK n \in Nat, k \in Nat : /\ n = Len(traces) /\ DOMAIN traces = 1..n
                                  /\ k = Len(all) /\ DOMAIN all = 1..k /\ k > 0
  BY <1>4
<1>6. PICK lists : lists = [j \in 1..n |->
        [i \in 1..k |-> [pattern |-> traces[j].pattern, seed |-> traces[j].seed,
                         configuration |-> all[i]]]]
  OBVIOUS
<1>7. runs = FlattenSeq(lists)
  BY <1>2, <1>3, <1>5, <1>6 DEF RunsOf, Combined
<1>8. ASSUME NEW j \in 1..n
      PROVE  lists[j] \in Seq(RunNames(arguments.seeds)) /\ Len(lists[j]) = k
  <2>1. traces[j] \in TraceNames(arguments.seeds)
    BY <1>2, <1>5
  <2>2. \A i \in 1..k : all[i] \in Tried
    BY <1>4, <1>5
  <2>3. \A i \in 1..k :
          [pattern |-> traces[j].pattern, seed |-> traces[j].seed, configuration |-> all[i]]
            \in RunNames(arguments.seeds)
    BY <2>1, <2>2 DEF RunNames
  <2>4. lists[j] \in [1..k -> RunNames(arguments.seeds)]
    BY <1>6, <2>3
  <2>. QED
    BY <2>4
<1>9. lists \in Seq(Seq(RunNames(arguments.seeds))) /\ Len(lists) = n
  <2>1. lists \in [1..n -> Seq(RunNames(arguments.seeds))]
    BY <1>6, <1>8
  <2>. QED
    BY <2>1
<1>10. /\ runs \in Seq(RunNames(arguments.seeds))
       /\ ToSet(runs) = UNION {ToSet(lists[j]) : j \in 1..n}
  BY <1>7, <1>9, FlattenItems
<1>11. n # 0
  <2>1. TraceNames(arguments.seeds) # {}
    BY <1>1, TracesFacts
  <2>. QED
    BY <1>2, <1>5, <2>1 DEF ToSet
<1>12. lists[1][1] \in ToSet(lists[1])
  <2>1. 1 \in 1..n /\ 1 \in 1..k
    BY <1>5, <1>11
  <2>2. DOMAIN lists[1] = 1..k
    BY <1>6, <2>1
  <2>. QED
    BY <2>1, <2>2 DEF ToSet
<1>13. lists[1][1] \in ToSet(runs)
  <2>1. 1 \in 1..n
    BY <1>5, <1>11
  <2>. QED
    BY <1>10, <1>12, <2>1
<1>14. Len(runs) # 0
  <2>1. PICK m \in Nat : m = Len(runs) /\ DOMAIN runs = 1..m
    BY <1>10
  <2>2. m # 0
    BY <1>13, <2>1 DEF ToSet
  <2>. QED
    BY <2>1, <2>2
<1>. QED
  BY <1>10, <1>14

-----------------------------------------------------------------------------
(***************************************************************************)
(* The original benchmark: files that several commands write.              *)
(***************************************************************************)

\* The seeds that some command is given.
AllSeeds == UNION {ToSet(seeds) : seeds \in RandomSeeds}

\* Traces have requests, and as many as they are asked for.
LEMMA TraceFacts ==
  ASSUME NEW pattern \in ToSet(REQUEST_PATTERNS), NEW seed \in AllSeeds, NEW count \in RequestCounts
  PROVE  /\ Trace(pattern, seed, count) \in Seq(Nat)
         /\ Len(Trace(pattern, seed, count)) = count
<1>1. PICK seeds \in RandomSeeds : seed \in ToSet(seeds)
  BY DEF AllSeeds
<1>. QED
  BY <1>1, TraceAssumption

\* What an input file may hold, by what is known of it: if it is whole, the requests
\* of a command, of whatever number; a beginning of such a file, if it is in part;
\* and in any case the capacities of its layout, as far as it goes.
InputPart(pattern, seed, capacities, tear, content) ==
  /\ Sized(capacities, content)
  /\ tear = "whole" => \E count \in RequestCounts :
       content = InputFile(capacities, Trace(pattern, seed, count))
  /\ tear = "part" =>
       \/ content = <<>>
       \/ \E count \in RequestCounts :
            content \in Beginnings(InputFile(capacities, Trace(pattern, seed, count)))

\* What a file of the root may hold, by its name.
Fits(path, tear, content) ==
  /\ \A configuration \in Tried :
       path = get_config_path(configuration) =>
         content \in Beginnings(ConfigFile(configuration.strategies))
  /\ \A pattern \in ToSet(REQUEST_PATTERNS), seed \in AllSeeds,
        capacities \in ToSet(LEVEL_CAPACITIES) :
       path = get_input_path(pattern, seed, capacities) =>
         InputPart(pattern, seed, capacities, tear, content)

\* Every file holds what its name says, as far as it is known to be whole.
FilesInv ==
  /\ benchmarkFiles = [path \in BenchmarkPaths |-> benchmarkFiles[path]]
  /\ benchmarkTears = [path \in BenchmarkPaths |-> benchmarkTears[path]]
  /\ \A path \in BenchmarkPaths : Fits(path, benchmarkTears[path], benchmarkFiles[path])

\* A configuration is a list of strategies, and names its file.
LEMMA ConfigTokensFacts ==
  ASSUME NEW configuration \in Tried
  PROVE  /\ configuration.strategies \in Seq(strategyNames)
         /\ configuration.capacities \in ToSet(LEVEL_CAPACITIES)
         /\ configuration.capacities \in Seq(Nat)
         /\ Len(configuration.strategies) = Len(configuration.capacities)
         /\ ConfigFile(configuration.strategies) \in Seq(SomeToken)
<1>1. configuration \in ConfigurationType
  BY TriedFacts
<1>2. /\ configuration.strategies \in Seq(strategyNames)
      /\ configuration.capacities \in ToSet(LEVEL_CAPACITIES)
      /\ Len(configuration.strategies) = Len(configuration.capacities)
  BY <1>1 DEF ConfigurationType
<1>. QED
  BY <1>2, LayoutFacts, ConfigFileFacts

\* A trace and its seed are among those there are.
LEMMA TraceNameFacts ==
  ASSUME NEW seeds \in RandomSeeds, NEW run \in TraceNames(seeds)
  PROVE  run.pattern \in ToSet(REQUEST_PATTERNS) /\ run.seed \in AllSeeds
<1>1. PICK pattern \in ToSet(REQUEST_PATTERNS), seed \in ToSet(seeds) :
        run = [pattern |-> pattern, seed |-> seed]
  BY DEF TraceNames
<1>2. seed \in AllSeeds
  BY DEF AllSeeds
<1>. QED
  BY <1>1, <1>2

\* A file that does not exist fits every name.
LEMMA EmptyFits == ASSUME NEW path PROVE Fits(path, "part", <<>>)
<1>1. ASSUME NEW configuration \in Tried
      PROVE  <<>> \in Beginnings(ConfigFile(configuration.strategies))
  BY ConfigTokensFacts, Beginning
<1>2. ASSUME NEW pattern, NEW seed, NEW capacities \in ToSet(LEVEL_CAPACITIES)
      PROVE  InputPart(pattern, seed, capacities, "part", <<>>)
  <2>1. capacities \in Seq(Nat)
    BY LayoutFacts
  <2>2. Sized(capacities, <<>>)
    BY <2>1 DEF Sized
  <2>. QED
    BY <2>2 DEF InputPart
<1>. QED
  BY <1>1, <1>2 DEF Fits

\* A file of a command fits its name whole, in part, and mixed with what another
\* command has written.
KeepsFitting(path, tokens) ==
  /\ tokens \in Seq(SomeToken)
  /\ \A tear : Fits(path, tear, tokens)
  /\ \A tear : \A part \in Beginnings(tokens) : tear # "whole" => Fits(path, tear, part)
  /\ \A tear, found : Fits(path, tear, found) =>
       \A n \in 0..(Len(found) - 1) : Fits(path, "mixed", Overlaid(found, tokens, n))

\* Two commands write the same to a configuration file.
LEMMA ConfigFits == ASSUME NEW file \in ConfigFiles PROVE KeepsFitting(file.path, file.tokens)
<1>1. PICK configuration \in Tried :
        file = [path |-> get_config_path(configuration),
                tokens |-> ConfigFile(configuration.strategies)]
  BY DEF ConfigFiles
<1>2. PICK path, tokens :
        /\ tokens \in Seq(SomeToken)
        /\ path = file.path /\ path = get_config_path(configuration)
        /\ tokens = file.tokens /\ tokens = ConfigFile(configuration.strategies)
  BY <1>1, ConfigTokensFacts
<1>3. ASSUME NEW content \in Beginnings(tokens), NEW tear PROVE Fits(path, tear, content)
  <2>1. ASSUME NEW other \in Tried, path = get_config_path(other)
        PROVE  content \in Beginnings(ConfigFile(other.strategies))
    <3>1. other.strategies = configuration.strategies
      BY <1>2, <2>1 DEF get_config_path
    <3>. QED
      BY <1>2, <3>1
  <2>2. ASSUME NEW pattern, NEW seed, NEW capacities
        PROVE  path # get_input_path(pattern, seed, capacities)
    <3>1. get_input_path(pattern, seed, capacities)[1] = "inputs" /\ path[1] = "configs"
      BY <1>2 DEF get_input_path, get_config_path
    <3>. QED
      BY <3>1
  <2>. QED
    BY <2>1, <2>2 DEF Fits
<1>4. tokens \in Beginnings(tokens)
  BY <1>2, Beginning
<1>5. ASSUME NEW tear, NEW found, Fits(path, tear, found), NEW n \in 0..(Len(found) - 1)
      PROVE  Fits(path, "mixed", Overlaid(found, tokens, n))
  <2>1. found \in Beginnings(tokens)
    BY <1>2, <1>5 DEF Fits
  <2>2. Overlaid(found, tokens, n) = tokens
    BY <1>2, <2>1, OverlaidSame
  <2>. QED
    BY <1>3, <1>4, <2>2
<1>. QED
  BY <1>2, <1>3, <1>4, <1>5 DEF KeepsFitting

\* Two commands may write different numbers of requests to an input file.
LEMMA InputFits ==
  ASSUME NEW arguments \in BenchmarkArguments, NEW file \in InputFiles(arguments)
  PROVE  KeepsFitting(file.path, file.tokens)
<1>1. arguments.seeds \in RandomSeeds /\ arguments.requests \in RequestCounts
  BY DEF BenchmarkArguments
<1>2. PICK run \in TraceNames(arguments.seeds), capacities \in ToSet(LEVEL_CAPACITIES) :
        file = InputFileOf(run, arguments.requests, capacities)
  BY DEF InputFiles
<1>3. PICK pattern \in ToSet(REQUEST_PATTERNS), seed \in AllSeeds :
        pattern = run.pattern /\ seed = run.seed
  BY <1>1, TraceNameFacts
<1>4. PICK count \in RequestCounts : count = arguments.requests
  BY <1>1
<1>5. PICK trace \in Seq(Nat) : trace = Trace(pattern, seed, count)
  BY TraceFacts
<1>6. capacities \in Seq(Nat)
  BY LayoutFacts
<1>7. PICK path, tokens :
        /\ tokens \in Seq(SomeToken)
        /\ path = file.path /\ path = get_input_path(pattern, seed, capacities)
        /\ tokens = file.tokens /\ tokens = InputFile(capacities, trace)
  BY <1>2, <1>3, <1>4, <1>5, <1>6, InputFileFacts DEF InputFileOf
<1>8. ASSUME NEW tear, NEW content, InputPart(pattern, seed, capacities, tear, content)
      PROVE  Fits(path, tear, content)
  <2>1. ASSUME NEW configuration \in Tried
        PROVE  path # get_config_path(configuration)
    <3>1. get_config_path(configuration)[1] = "configs" /\ path[1] = "inputs"
      BY <1>7 DEF get_config_path, get_input_path
    <3>. QED
      BY <3>1
  <2>2. ASSUME NEW otherPattern, NEW otherSeed, NEW otherCapacities,
               path = get_input_path(otherPattern, otherSeed, otherCapacities)
        PROVE  InputPart(otherPattern, otherSeed, otherCapacities, tear, content)
    <3>1. /\ <<otherPattern, otherSeed>> = <<pattern, seed>>
          /\ otherCapacities = capacities
      BY <1>7, <2>2 DEF get_input_path
    <3>2. otherPattern = pattern /\ otherSeed = seed
      BY <3>1
    <3>. QED
      BY <1>8, <3>1, <3>2
  <2>. QED
    BY <2>1, <2>2 DEF Fits
<1>9. /\ Sized(capacities, tokens)
      /\ \A found : Sized(capacities, found) =>
           \A n \in 0..(Len(found) - 1) : Sized(capacities, Overlaid(found, tokens, n))
  BY <1>6, <1>7, SizedFacts
<1>10. ASSUME NEW tear PROVE Fits(path, tear, tokens)
  <2>1. tokens = InputFile(capacities, Trace(pattern, seed, count))
    BY <1>5, <1>7
  <2>2. tokens \in Beginnings(tokens)
    BY <1>7, Beginning
  <2>3. InputPart(pattern, seed, capacities, tear, tokens)
    BY <1>9, <2>1, <2>2 DEF InputPart
  <2>. QED
    BY <1>8, <2>3
<1>11. ASSUME NEW tear, NEW part \in Beginnings(tokens), tear # "whole"
       PROVE  Fits(path, tear, part)
  <2>1. Sized(capacities, part)
    BY <1>6, <1>9, SizedParts
  <2>2. part \in Beginnings(InputFile(capacities, Trace(pattern, seed, count)))
    BY <1>5, <1>7
  <2>3. InputPart(pattern, seed, capacities, tear, part)
    BY <1>11, <2>1, <2>2 DEF InputPart
  <2>. QED
    BY <1>8, <2>3
<1>12. ASSUME NEW tear, NEW found, Fits(path, tear, found), NEW n \in 0..(Len(found) - 1)
       PROVE  Fits(path, "mixed", Overlaid(found, tokens, n))
  <2>1. InputPart(pattern, seed, capacities, tear, found)
    BY <1>7, <1>12 DEF Fits
  <2>2. Sized(capacities, Overlaid(found, tokens, n))
    BY <1>9, <2>1 DEF InputPart
  <2>3. InputPart(pattern, seed, capacities, "mixed", Overlaid(found, tokens, n))
    BY <2>2 DEF InputPart
  <2>. QED
    BY <1>8, <2>3
<1>. QED
  BY <1>7, <1>10, <1>11, <1>12 DEF KeepsFitting

\* A file of the root changed to what fits its name.
LEMMA WrittenFits ==
  ASSUME FilesInv, NEW changed, NEW tear, NEW content, Fits(changed, tear, content),
         benchmarkFiles' = [benchmarkFiles EXCEPT ![changed] = content],
         benchmarkTears' = [benchmarkTears EXCEPT ![changed] = tear]
  PROVE  FilesInv'
<1>1. /\ benchmarkFiles = [path \in BenchmarkPaths |-> benchmarkFiles[path]]
      /\ benchmarkTears = [path \in BenchmarkPaths |-> benchmarkTears[path]]
  BY DEF FilesInv
<1>2. benchmarkFiles' = [path \in BenchmarkPaths |->
        IF path = changed THEN content ELSE benchmarkFiles[path]]
  BY <1>1
<1>3. benchmarkTears' = [path \in BenchmarkPaths |->
        IF path = changed THEN tear ELSE benchmarkTears[path]]
  BY <1>1
<1>4. ASSUME NEW path \in BenchmarkPaths
      PROVE  Fits(path, benchmarkTears'[path], benchmarkFiles'[path])
  <2>1. CASE path = changed
    BY <1>2, <1>3, <2>1
  <2>2. CASE path # changed
    <3>1. /\ benchmarkFiles'[path] = benchmarkFiles[path]
          /\ benchmarkTears'[path] = benchmarkTears[path]
      BY <1>2, <1>3, <2>2
    <3>. QED
      BY <3>1 DEF FilesInv
  <2>. QED
    BY <2>1, <2>2
<1>5. benchmarkFiles' = [path \in BenchmarkPaths |-> benchmarkFiles'[path]]
  BY <1>2
<1>6. benchmarkTears' = [path \in BenchmarkPaths |-> benchmarkTears'[path]]
  BY <1>3
<1>. QED
  BY <1>4, <1>5, <1>6 DEF FilesInv

\* The files of every run are files of the root.
LEMMA RunsHaveFiles ==
  ASSUME NEW arguments \in BenchmarkArguments, NEW run \in RunNames(arguments.seeds)
  PROVE  /\ run.configuration \in Tried
         /\ run.pattern \in ToSet(REQUEST_PATTERNS)
         /\ run.seed \in AllSeeds
         /\ get_config_path(run.configuration) \in BenchmarkPaths
         /\ get_input_path(run.pattern, run.seed, run.configuration.capacities) \in BenchmarkPaths
<1>1. arguments.seeds \in RandomSeeds
  BY DEF BenchmarkArguments
<1>2. PICK trace \in TraceNames(arguments.seeds), configuration \in Tried :
        run = [pattern |-> trace.pattern, seed |-> trace.seed, configuration |-> configuration]
  BY DEF RunNames
<1>3. trace.pattern \in ToSet(REQUEST_PATTERNS) /\ trace.seed \in AllSeeds
  BY <1>1, TraceNameFacts
<1>4. configuration.capacities \in ToSet(LEVEL_CAPACITIES)
  BY ConfigTokensFacts
<1>5. PICK config : config = [path |-> get_config_path(configuration),
                              tokens |-> ConfigFile(configuration.strategies)]
  OBVIOUS
<1>6. PICK input : input = InputFileOf(trace, arguments.requests, configuration.capacities)
  OBVIOUS
<1>7. config \in ToSet(generate_benchmark_files[arguments])
  <2>1. config \in ConfigFiles
    BY <1>5 DEF ConfigFiles
  <2>. QED
    BY <2>1, FilesFacts
<1>8. input \in ToSet(generate_benchmark_files[arguments])
  <2>1. input \in InputFiles(arguments)
    BY <1>4, <1>6 DEF InputFiles
  <2>. QED
    BY <2>1, FilesFacts
<1>9. config.path \in BenchmarkPaths /\ input.path \in BenchmarkPaths
  BY <1>7, <1>8 DEF BenchmarkPaths
<1>10. config.path = get_config_path(configuration)
  BY <1>5
<1>11. input.path = get_input_path(trace.pattern, trace.seed, configuration.capacities)
  BY <1>6 DEF InputFileOf
<1>. QED
  BY <1>2, <1>3, <1>9, <1>10, <1>11

\* A row that a command accepts is right: of the part of a file the runner accepts
\* nothing less than all but digits of its last number, and the number of requests
\* is the one that no name holds.
LEMMA AcceptedIsRight ==
  ASSUME NEW arguments \in BenchmarkArguments,
         NEW run \in RunNames(arguments.seeds),
         NEW config \in Beginnings(ConfigFile(run.configuration.strategies)),
         NEW tear, NEW input,
         InputPart(run.pattern, run.seed, run.configuration.capacities, tear, input),
         NEW measured, measured = RunExperiment(config, input),
         measured # NoExperiment,
         CountersAccepted(measured, arguments.requests, Len(run.configuration.capacities))
  PROVE  RowRight(arguments, run, [run |-> run, measured |-> measured, tear |-> tear])
<1>1. PICK configuration \in Tried, pattern \in ToSet(REQUEST_PATTERNS), seed \in AllSeeds :
        configuration = run.configuration /\ pattern = run.pattern /\ seed = run.seed
  BY RunsHaveFiles
<1>2. PICK strategies \in Seq(strategyNames), capacities \in Seq(Nat) :
        /\ strategies = configuration.strategies
        /\ capacities = configuration.capacities
        /\ Len(strategies) = Len(capacities)
  BY ConfigTokensFacts
<1>3. PICK asked \in RequestCounts : asked = arguments.requests
  BY DEF BenchmarkArguments
<1>4. PICK trace \in Seq(Nat) : trace = Trace(pattern, seed, asked) /\ Len(trace) = asked
  BY TraceFacts
<1>5. PICK levels, requests :
        /\ levels = measured.levels
        /\ requests \in Seq(Nat) /\ requests = measured.requests /\ Len(requests) = asked
  <2>1. Sized(capacities, input) /\ config \in Beginnings(ConfigFile(strategies))
    BY <1>1, <1>2 DEF InputPart
  <2>2. measured.requests \in Seq(Nat)
    BY <1>2, <2>1, MeasuredLevels
  <2>. QED
    BY <1>3, <2>2 DEF CountersAccepted
<1>6. levels = LevelsWith(strategies, capacities)
  <2>1. Sized(capacities, input) /\ config \in Beginnings(ConfigFile(strategies))
    BY <1>1, <1>2 DEF InputPart
  <2>2. Len(strategies) = Len(capacities)
    BY <1>2
  <2>3. measured.levels = LevelsWith(strategies, capacities)
    BY <2>1, <2>2, MeasuredLevels
  <2>. QED
    BY <1>5, <2>3
<1>7. ASSUME NEW count \in RequestCounts, NEW other \in Seq(Nat),
             other = Trace(pattern, seed, count), input \in Beginnings(InputFile(capacities, other))
      PROVE  /\ AllButLast(requests, trace)
             /\ input = InputFile(capacities, other) => requests = trace
  <2>1. config \in Beginnings(ConfigFile(strategies))
    BY <1>1, <1>2
  <2>2. input \in Beginnings(InputFile(capacities, other)) /\ Len(strategies) = Len(capacities)
    BY <1>2, <1>7
  <2>3. /\ AllButLast(measured.requests, other)
        /\ input = InputFile(capacities, other) => measured.requests = other
    BY <2>1, <2>2, MeasuredRequests
  <2>4. Len(other) = count
    BY <1>7, TraceFacts
  <2>5. count = asked
    BY <1>5, <2>3, <2>4 DEF AllButLast
  <2>. QED
    BY <1>4, <1>5, <1>7, <2>3, <2>5
<1>8. ASSUME tear = "whole" PROVE requests = trace
  <2>1. PICK count \in RequestCounts : input = InputFile(capacities, Trace(pattern, seed, count))
    BY <1>1, <1>2, <1>8 DEF InputPart
  <2>2. PICK other \in Seq(Nat) : other = Trace(pattern, seed, count)
    BY TraceFacts
  <2>3. input \in Beginnings(InputFile(capacities, other)) /\ input = InputFile(capacities, other)
    BY <2>1, <2>2, InputFileFacts, Beginning
  <2>. QED
    BY <1>7, <2>2, <2>3
<1>9. ASSUME tear = "part" PROVE AllButLast(requests, trace)
  <2>1. CASE input = <<>>
    <3>1. input \in Beginnings(InputFile(capacities, trace))
      BY <2>1, InputFileFacts, Beginning
    <3>. QED
      BY <1>3, <1>4, <1>7, <3>1
  <2>2. CASE input # <<>>
    <3>1. PICK count \in RequestCounts :
            input \in Beginnings(InputFile(capacities, Trace(pattern, seed, count)))
      BY <1>1, <1>2, <1>9, <2>2 DEF InputPart
    <3>2. PICK other \in Seq(Nat) : other = Trace(pattern, seed, count)
      BY TraceFacts
    <3>. QED
      BY <1>7, <3>1, <3>2
  <2>. QED
    BY <2>1, <2>2
<1>10. DOMAIN requests = 1..Len(requests)
  BY <1>5
<1>11. PICK row : row = [run |-> run, measured |-> measured, tear |-> tear]
  OBVIOUS
<1>12. row.run = run /\ row.measured = measured /\ row.tear = tear
  BY <1>11
<1>13. PICK intended : intended = Intended(strategies, capacities, trace)
  OBVIOUS
<1>14. intended.levels = levels /\ intended.requests = trace
  BY <1>6, <1>13 DEF Intended, LevelsWith
<1>15. intended = Intended(run.configuration.strategies, run.configuration.capacities,
                           Trace(run.pattern, run.seed, arguments.requests))
  BY <1>1, <1>2, <1>3, <1>4, <1>13
<1>16. Len(requests) = arguments.requests
  BY <1>3, <1>5
<1>17. tear = "part" =>
         \A k \in DOMAIN requests :
           \/ requests[k] = trace[k]
           \/ k = Len(requests) /\ INT(requests[k]) \in CutShort(INT(trace[k]))
  BY <1>9, <1>10 DEF AllButLast
<1>18. RowRight(arguments, run, row)
  BY <1>5, <1>8, <1>12, <1>14, <1>15, <1>16, <1>17 DEF RowRight
<1>. QED
  BY <1>11, <1>18

-----------------------------------------------------------------------------
(***************************************************************************)
(* The original benchmark: the commands.                                   *)
(***************************************************************************)

\* The rows of the table are right, in the order of the runs.
RowsInv(arguments, rows) ==
  /\ \E S : rows \in Seq(S)
  /\ \A i \in 1..Len(rows) : RowRight(arguments, RunsOf[arguments][i], rows[i])

\* What a command knows, by what it is doing.
CommandInv(c) ==
  /\ c = [state |-> c.state, arguments |-> c.arguments, files |-> c.files,
          config |-> c.config, input |-> c.input, disturbed |-> c.disturbed, rows |-> c.rows]
  /\ c.state = "not started" => c.files = 0 /\ c.rows = <<>>
  /\ c.state # "not started" =>
       c.arguments \in BenchmarkArguments /\ RowsInv(c.arguments, c.rows)
  /\ c.state \in {"open", "write"} =>
       /\ c.files \in Nat /\ c.files < Len(generate_benchmark_files[c.arguments])
       /\ c.rows = <<>>
  /\ c.state \in {"run", "config", "measure"} => Len(c.rows) < Len(RunsOf[c.arguments])
  /\ c.state \in {"config", "measure"} =>
       c.config \in Beginnings(ConfigFile(
         RunsOf[c.arguments][Len(c.rows) + 1].configuration.strategies))
  /\ c.state = "measure" =>
       Sized(RunsOf[c.arguments][Len(c.rows) + 1].configuration.capacities, c.input)
  /\ c.state = "done" /\ ~ c.arguments.generateOnly =>
       Len(c.rows) = Len(RunsOf[c.arguments])

BenchmarksInv ==
  /\ FilesInv
  /\ benchmark = [command \in Benchmarks |-> benchmark[command]]
  /\ \A command \in Benchmarks : CommandInv(benchmark[command])

\* One command went on, the others are where they were.
LEMMA CommandChanged ==
  ASSUME BenchmarksInv, FilesInv', NEW command \in Benchmarks, NEW c, CommandInv(c),
         benchmark' = [benchmark EXCEPT ![command] = c]
  PROVE  BenchmarksInv'
<1>1. benchmark = [other \in Benchmarks |-> benchmark[other]]
  BY DEF BenchmarksInv
<1>2. benchmark' = [other \in Benchmarks |-> IF other = command THEN c ELSE benchmark[other]]
  BY <1>1
<1>3. benchmark' = [other \in Benchmarks |-> benchmark'[other]]
  BY <1>2
<1>4. ASSUME NEW other \in Benchmarks PROVE CommandInv(benchmark'[other])
  <2>1. CASE other = command
    BY <1>2, <2>1
  <2>2. CASE other # command
    <3>1. benchmark'[other] = benchmark[other]
      BY <1>2, <2>2
    <3>. QED
      BY <3>1 DEF BenchmarksInv
  <2>. QED
    BY <2>1, <2>2
<1>. QED
  BY <1>3, <1>4 DEF BenchmarksInv

\* The files alone.
LEMMA UntouchedFiles ==
  ASSUME FilesInv, UNCHANGED <<benchmarkFiles, benchmarkTears>>
  PROVE  FilesInv'
<1>1. benchmarkFiles' = benchmarkFiles /\ benchmarkTears' = benchmarkTears
  OBVIOUS
<1>2. /\ benchmarkFiles' = [path \in BenchmarkPaths |-> benchmarkFiles'[path]]
      /\ benchmarkTears' = [path \in BenchmarkPaths |-> benchmarkTears'[path]]
  BY <1>1 DEF FilesInv
<1>3. \A path \in BenchmarkPaths : Fits(path, benchmarkTears'[path], benchmarkFiles'[path])
  BY <1>1 DEF FilesInv
<1>. QED
  BY <1>2, <1>3 DEF FilesInv

\* A command of the root begins with its first file.
LEMMA BenchmarkStartsInv ==
  ASSUME BenchmarksInv, NEW command \in Benchmarks, BenchmarkStarts(command)
  PROVE  BenchmarksInv'
<1>1. PICK c : c = benchmark[command] /\ CommandInv(c)
  BY DEF BenchmarksInv
<1>2. PICK arguments \in BenchmarkArguments :
        benchmark' = [benchmark EXCEPT
          ![command].state = "open", ![command].arguments = arguments]
  BY DEF BenchmarkStarts
<1>3. PICK new : new = [c EXCEPT !.state = "open", !.arguments = arguments]
  OBVIOUS
<1>4. c.state = "not started" /\ c.files = 0 /\ c.rows = <<>>
  BY <1>1 DEF BenchmarkStarts, CommandInv
<1>5. c = [state |-> c.state, arguments |-> c.arguments, files |-> c.files,
           config |-> c.config, input |-> c.input, disturbed |-> c.disturbed, rows |-> c.rows]
  BY <1>1 DEF CommandInv
<1>6. new = [state |-> "open", arguments |-> arguments, files |-> 0,
             config |-> c.config, input |-> c.input, disturbed |-> c.disturbed, rows |-> <<>>]
  BY <1>3, <1>4, <1>5
<1>7. RowsInv(arguments, <<>>)
  <2>1. <<>> \in Seq({}) /\ Len(<<>>) = 0
    OBVIOUS
  <2>. QED
    BY <2>1 DEF RowsInv
<1>8. Len(generate_benchmark_files[arguments]) > 0
  BY FilesFacts
<1>9. CommandInv(new)
  BY <1>6, <1>7, <1>8 DEF CommandInv
<1>10. benchmark' = [benchmark EXCEPT ![command] = new]
  BY <1>1, <1>2, <1>3 DEF BenchmarksInv
<1>11. FilesInv'
  BY UntouchedFiles DEF BenchmarksInv, BenchmarkStarts
<1>. QED
  BY <1>9, <1>10, <1>11, CommandChanged

\* The file that a command writes next is one of its files.
LEMMA NextFileFacts ==
  ASSUME NEW command \in Benchmarks, CommandInv(benchmark[command]),
         benchmark[command].state \in {"open", "write"}
  PROVE  /\ benchmark[command].arguments \in BenchmarkArguments
         /\ KeepsFitting(NextPath(command), NextFile(command).tokens)
<1>1. PICK c : c = benchmark[command]
  OBVIOUS
<1>2. /\ c.arguments \in BenchmarkArguments
      /\ c.files \in Nat /\ c.files < Len(generate_benchmark_files[c.arguments])
  BY <1>1 DEF CommandInv
<1>3. PICK toWrite : toWrite = generate_benchmark_files[c.arguments]
  OBVIOUS
<1>4. toWrite \in Seq(ConfigFiles \cup InputFiles(c.arguments))
  BY <1>2, <1>3, FilesFacts
<1>5. PICK n \in Nat, m \in Nat : n = Len(toWrite) /\ DOMAIN toWrite = 1..n /\ m = c.files /\ m < n
  BY <1>2, <1>3, <1>4
<1>6. m + 1 \in 1..n
  BY <1>5
<1>7. NextFile(command) = toWrite[m + 1]
  BY <1>1, <1>3, <1>5 DEF NextFile
<1>8. PICK file \in ConfigFiles \cup InputFiles(c.arguments) : file = NextFile(command)
  BY <1>4, <1>5, <1>6, <1>7
<1>9. KeepsFitting(file.path, file.tokens)
  BY <1>2, ConfigFits, InputFits
<1>. QED
  BY <1>1, <1>2, <1>8, <1>9 DEF NextPath

\* A command does not care whether its reading was disturbed.
LEMMA DisturbedInv == ASSUME NEW c, CommandInv(c) PROVE CommandInv([c EXCEPT !.disturbed = TRUE])
<1>1. PICK new : new = [c EXCEPT !.disturbed = TRUE]
  OBVIOUS
<1>2. c = [state |-> c.state, arguments |-> c.arguments, files |-> c.files,
           config |-> c.config, input |-> c.input, disturbed |-> c.disturbed, rows |-> c.rows]
  BY DEF CommandInv
<1>3. new = [state |-> c.state, arguments |-> c.arguments, files |-> c.files,
             config |-> c.config, input |-> c.input, disturbed |-> TRUE, rows |-> c.rows]
  BY <1>1, <1>2
<1>4. CommandInv(new)
  BY <1>3 DEF CommandInv
<1>. QED
  BY <1>1, <1>4

\* A file that is opened is empty, or partly written.
LEMMA OpenBenchmarkFileInv ==
  ASSUME BenchmarksInv, NEW command \in Benchmarks, OpenBenchmarkFile(command)
  PROVE  BenchmarksInv'
<1>1. PICK c : c = benchmark[command] /\ CommandInv(c)
  BY DEF BenchmarksInv
<1>2. PICK new : new = [c EXCEPT !.state = "write"]
  OBVIOUS
<1>3. PICK path, tokens : path = NextPath(command) /\ tokens = NextFile(command).tokens
  OBVIOUS
<1>4. /\ c.state = "open"
      /\ benchmark' = [other \in Benchmarks |->
           IF other = command THEN new
           ELSE IF BeingRead(other, path) THEN [benchmark[other] EXCEPT !.disturbed = TRUE]
           ELSE benchmark[other]]
  BY <1>1, <1>2, <1>3 DEF OpenBenchmarkFile
<1>5. c = [state |-> c.state, arguments |-> c.arguments, files |-> c.files,
           config |-> c.config, input |-> c.input, disturbed |-> c.disturbed, rows |-> c.rows]
  BY <1>1 DEF CommandInv
<1>6. new = [state |-> "write", arguments |-> c.arguments, files |-> c.files,
             config |-> c.config, input |-> c.input, disturbed |-> c.disturbed, rows |-> c.rows]
  BY <1>2, <1>5
<1>7. CommandInv(new)
  BY <1>1, <1>4, <1>6 DEF CommandInv
<1>8. benchmark' = [other \in Benchmarks |-> benchmark'[other]]
  BY <1>4
<1>9. ASSUME NEW other \in Benchmarks PROVE CommandInv(benchmark'[other])
  <2>1. CommandInv(benchmark[other])
    BY DEF BenchmarksInv
  <2>2. CommandInv([benchmark[other] EXCEPT !.disturbed = TRUE])
    BY <2>1, DisturbedInv
  <2>3. \/ benchmark'[other] = new
        \/ benchmark'[other] = [benchmark[other] EXCEPT !.disturbed = TRUE]
        \/ benchmark'[other] = benchmark[other]
    BY <1>4
  <2>. QED
    BY <1>7, <2>1, <2>2, <2>3
<1>10. FilesInv'
  <2>1. PICK part \in Parts(tokens) : benchmarkFiles' = [benchmarkFiles EXCEPT ![path] = part]
    BY <1>3 DEF OpenBenchmarkFile
  <2>2. PICK tear : tear = IF BeingWritten(path) THEN "mixed" ELSE "part"
    OBVIOUS
  <2>3. benchmarkTears' = [benchmarkTears EXCEPT ![path] = tear] /\ tear # "whole"
    BY <1>3, <2>2 DEF OpenBenchmarkFile
  <2>4. KeepsFitting(path, tokens)
    BY <1>1, <1>3, <1>4, NextFileFacts
  <2>5. part \in Beginnings(tokens)
    BY <2>4, Beginning DEF KeepsFitting
  <2>6. Fits(path, tear, part)
    BY <2>3, <2>4, <2>5 DEF KeepsFitting
  <2>. QED
    BY <2>1, <2>3, <2>6, WrittenFits DEF BenchmarksInv
<1>. QED
  BY <1>8, <1>9, <1>10 DEF BenchmarksInv

\* A file that is closed is whole, or mixed; after the last one the runs begin.
LEMMA CloseBenchmarkFileInv ==
  ASSUME BenchmarksInv, NEW command \in Benchmarks, CloseBenchmarkFile(command)
  PROVE  BenchmarksInv'
<1>1. PICK c : c = benchmark[command] /\ CommandInv(c)
  BY DEF BenchmarksInv
<1>2. PICK state : state = IF FilesLeft(command) THEN "open"
                           ELSE IF c.arguments.generateOnly THEN "done" ELSE "run"
  OBVIOUS
<1>3. /\ c.state = "write"
      /\ benchmark' = [benchmark EXCEPT ![command].files = @ + 1, ![command].state = state]
  BY <1>1, <1>2 DEF CloseBenchmarkFile
<1>4. PICK n \in Nat : n = c.files
  BY <1>1, <1>3 DEF CommandInv
<1>5. PICK new : new = [c EXCEPT !.files = n + 1, !.state = state]
  OBVIOUS
<1>6. /\ c = [state |-> c.state, arguments |-> c.arguments, files |-> c.files,
              config |-> c.config, input |-> c.input, disturbed |-> c.disturbed, rows |-> c.rows]
      /\ c.arguments \in BenchmarkArguments /\ RowsInv(c.arguments, c.rows)
      /\ c.rows = <<>>
  BY <1>1, <1>3 DEF CommandInv
<1>7. new = [state |-> state, arguments |-> c.arguments, files |-> n + 1,
             config |-> c.config, input |-> c.input, disturbed |-> c.disturbed, rows |-> c.rows]
  BY <1>5, <1>6
<1>8. FilesLeft(command) => n + 1 < Len(generate_benchmark_files[c.arguments])
  BY <1>1, <1>4 DEF FilesLeft
<1>9. Len(c.rows) = 0 /\ Len(RunsOf[c.arguments]) > 0
  BY <1>6, RunsFacts
<1>10. state \in {"open", "done", "run"} /\ (state = "done" => c.arguments.generateOnly)
  BY <1>2
<1>11. CommandInv(new)
  BY <1>2, <1>4, <1>6, <1>7, <1>8, <1>9, <1>10 DEF CommandInv
<1>12. benchmark' = [benchmark EXCEPT ![command] = new]
  BY <1>1, <1>3, <1>4, <1>5 DEF BenchmarksInv
<1>13. FilesInv'
  <2>1. PICK path, tokens : path = NextPath(command) /\ tokens = NextFile(command).tokens
    OBVIOUS
  <2>2. PICK found, was : found = benchmarkFiles[path] /\ was = benchmarkTears[path]
    OBVIOUS
  <2>3. PICK tear : tear = IF was = "mixed" THEN "mixed" ELSE "whole"
    OBVIOUS
  <2>4. benchmarkTears' = [benchmarkTears EXCEPT ![path] = tear]
    BY <2>1, <2>2, <2>3 DEF CloseBenchmarkFile
  <2>5. KeepsFitting(path, tokens)
    BY <1>1, <1>3, <2>1, NextFileFacts
  <2>6. CASE benchmarkFiles' = [benchmarkFiles EXCEPT ![path] = tokens]
    <3>1. Fits(path, tear, tokens)
      BY <2>5 DEF KeepsFitting
    <3>. QED
      BY <2>4, <2>6, <3>1, WrittenFits DEF BenchmarksInv
  <2>7. CASE was = "mixed" /\ \E k \in 0..(Len(found) - 1) :
               benchmarkFiles' = [benchmarkFiles EXCEPT ![path] = Overlaid(found, tokens, k)]
    <3>1. PICK k, all :
            /\ k \in 0..(Len(found) - 1) /\ all = Overlaid(found, tokens, k)
            /\ benchmarkFiles' = [benchmarkFiles EXCEPT ![path] = all]
      BY <2>7
    <3>2. CASE path \in BenchmarkPaths
      <4>1. Fits(path, was, found)
        BY <2>2, <3>2 DEF BenchmarksInv, FilesInv
      <4>2. Fits(path, tear, all)
        BY <2>3, <2>5, <2>7, <3>1, <4>1 DEF KeepsFitting
      <4>. QED
        BY <2>4, <3>1, <4>2, WrittenFits DEF BenchmarksInv
    <3>3. CASE path \notin BenchmarkPaths
      <4>1. UNCHANGED <<benchmarkFiles, benchmarkTears>>
        BY <2>4, <3>1, <3>3 DEF BenchmarksInv, FilesInv
      <4>. QED
        BY <4>1, UntouchedFiles DEF BenchmarksInv
    <3>. QED
      BY <3>2, <3>3
  <2>8. \/ benchmarkFiles' = [benchmarkFiles EXCEPT ![path] = tokens]
        \/ was = "mixed" /\ \E k \in 0..(Len(found) - 1) :
             benchmarkFiles' = [benchmarkFiles EXCEPT ![path] = Overlaid(found, tokens, k)]
    BY <2>1, <2>2 DEF CloseBenchmarkFile
  <2>. QED
    BY <2>6, <2>7, <2>8
<1>. QED
  BY <1>11, <1>12, <1>13, CommandChanged

\* The next run is one of the runs, as long as there is one left.
LEMMA NextRunFacts ==
  ASSUME NEW command \in Benchmarks, CommandInv(benchmark[command]),
         benchmark[command].state \in {"run", "config", "measure"}
  PROVE  /\ benchmark[command].arguments \in BenchmarkArguments
         /\ Len(benchmark[command].rows) \in Nat
         /\ Len(benchmark[command].rows) + 1 \in 1..Len(RunsOf[benchmark[command].arguments])
         /\ Len(RunsOf[benchmark[command].arguments]) \in Nat
         /\ NextRun(command) \in RunNames(benchmark[command].arguments.seeds)
<1>1. PICK c : c = benchmark[command]
  OBVIOUS
<1>2. /\ c.arguments \in BenchmarkArguments
      /\ RowsInv(c.arguments, c.rows)
      /\ Len(c.rows) < Len(RunsOf[c.arguments])
  BY <1>1 DEF CommandInv
<1>3. PICK runs \in Seq(RunNames(c.arguments.seeds)) : runs = RunsOf[c.arguments]
  BY <1>2, RunsFacts
<1>4. PICK m \in Nat, n \in Nat : m = Len(c.rows) /\ n = Len(runs) /\ DOMAIN runs = 1..n /\ m < n
  BY <1>2, <1>3 DEF RowsInv
<1>5. m + 1 \in 1..n
  BY <1>4
<1>6. NextRun(command) = runs[m + 1]
  BY <1>1, <1>3, <1>4 DEF NextRun
<1>. QED
  BY <1>1, <1>2, <1>3, <1>4, <1>5, <1>6

\* The runner reads what is there of the configuration.
LEMMA RunnerReadsConfigInv ==
  ASSUME BenchmarksInv, NEW command \in Benchmarks, RunnerReadsConfig(command)
  PROVE  BenchmarksInv'
<1>1. PICK c : c = benchmark[command] /\ CommandInv(c)
  BY DEF BenchmarksInv
<1>2. PICK config : config = benchmarkFiles[get_config_path(NextRun(command).configuration)]
  OBVIOUS
<1>3. /\ c.state = "run"
      /\ benchmark' = [benchmark EXCEPT ![command].config = config, ![command].state = "config"]
  BY <1>1, <1>2 DEF RunnerReadsConfig
<1>4. PICK run : run = NextRun(command)
  OBVIOUS
<1>5. run \in RunNames(c.arguments.seeds) /\ c.arguments \in BenchmarkArguments
  BY <1>1, <1>3, <1>4, NextRunFacts
<1>6. config \in Beginnings(ConfigFile(run.configuration.strategies))
  <2>1. /\ run.configuration \in Tried
        /\ get_config_path(run.configuration) \in BenchmarkPaths
    BY <1>5, RunsHaveFiles
  <2>2. \E tear : Fits(get_config_path(run.configuration), tear, config)
    BY <1>2, <1>4, <2>1 DEF BenchmarksInv, FilesInv
  <2>. QED
    BY <2>1, <2>2 DEF Fits
<1>7. run = RunsOf[c.arguments][Len(c.rows) + 1]
  BY <1>1, <1>4 DEF NextRun
<1>8. PICK new : new = [c EXCEPT !.config = config, !.state = "config"]
  OBVIOUS
<1>9. c = [state |-> c.state, arguments |-> c.arguments, files |-> c.files,
           config |-> c.config, input |-> c.input, disturbed |-> c.disturbed, rows |-> c.rows]
  BY <1>1 DEF CommandInv
<1>10. new = [state |-> "config", arguments |-> c.arguments, files |-> c.files,
              config |-> config, input |-> c.input, disturbed |-> c.disturbed,
              rows |-> c.rows]
  BY <1>8, <1>9
<1>11. CommandInv(new)
  BY <1>1, <1>3, <1>6, <1>7, <1>10 DEF CommandInv
<1>12. benchmark' = [benchmark EXCEPT ![command] = new]
  BY <1>1, <1>3, <1>8 DEF BenchmarksInv
<1>13. FilesInv'
  BY UntouchedFiles DEF BenchmarksInv, RunnerReadsConfig
<1>. QED
  BY <1>11, <1>12, <1>13, CommandChanged

\* There is an input for every run.
LEMMA InputThere ==
  ASSUME FilesInv, NEW command \in Benchmarks, NEW arguments \in BenchmarkArguments,
         NEW run \in RunNames(arguments.seeds), run = NextRun(command)
  PROVE  InputPart(run.pattern, run.seed, run.configuration.capacities,
                   benchmarkTears[InputPath(command)], benchmarkFiles[InputPath(command)])
<1>1. PICK path, tear, content :
        /\ path = InputPath(command)
        /\ tear = benchmarkTears[path] /\ content = benchmarkFiles[path]
  OBVIOUS
<1>2. PICK pattern \in ToSet(REQUEST_PATTERNS), seed \in AllSeeds,
           capacities \in ToSet(LEVEL_CAPACITIES) :
        /\ pattern = run.pattern /\ seed = run.seed
        /\ capacities = run.configuration.capacities
  BY RunsHaveFiles, ConfigTokensFacts
<1>3. path = get_input_path(pattern, seed, capacities)
  BY <1>1, <1>2 DEF InputPath
<1>4. path \in BenchmarkPaths
  BY <1>2, <1>3, RunsHaveFiles
<1>5. Fits(path, tear, content)
  BY <1>1, <1>4 DEF FilesInv
<1>6. InputPart(pattern, seed, capacities, tear, content)
  BY <1>3, <1>5 DEF Fits
<1>. QED
  BY <1>1, <1>2, <1>6

\* The runner opens what is there of the input.
LEMMA RunnerOpensInputInv ==
  ASSUME BenchmarksInv, NEW command \in Benchmarks, RunnerOpensInput(command)
  PROVE  BenchmarksInv'
<1>1. PICK c : c = benchmark[command] /\ CommandInv(c)
  BY DEF BenchmarksInv
<1>2. PICK input : input = benchmarkFiles[InputPath(command)]
  OBVIOUS
<1>3. /\ c.state = "config"
      /\ benchmark' = [benchmark EXCEPT
           ![command].input = input, ![command].disturbed = FALSE, ![command].state = "measure"]
  BY <1>1, <1>2 DEF RunnerOpensInput
<1>4. PICK run : run = NextRun(command)
  OBVIOUS
<1>5. run \in RunNames(c.arguments.seeds) /\ c.arguments \in BenchmarkArguments
  BY <1>1, <1>3, <1>4, NextRunFacts
<1>6. Sized(run.configuration.capacities, input)
  BY <1>2, <1>4, <1>5, InputThere DEF BenchmarksInv, InputPart
<1>7. run = RunsOf[c.arguments][Len(c.rows) + 1]
  BY <1>1, <1>4 DEF NextRun
<1>8. PICK new : new = [c EXCEPT !.input = input, !.disturbed = FALSE, !.state = "measure"]
  OBVIOUS
<1>9. c = [state |-> c.state, arguments |-> c.arguments, files |-> c.files,
           config |-> c.config, input |-> c.input, disturbed |-> c.disturbed, rows |-> c.rows]
  BY <1>1 DEF CommandInv
<1>10. new = [state |-> "measure", arguments |-> c.arguments, files |-> c.files,
              config |-> c.config, input |-> input, disturbed |-> FALSE, rows |-> c.rows]
  BY <1>8, <1>9
<1>11. CommandInv(new)
  BY <1>1, <1>3, <1>6, <1>7, <1>10 DEF CommandInv
<1>12. benchmark' = [benchmark EXCEPT ![command] = new]
  BY <1>1, <1>3, <1>8 DEF BenchmarksInv
<1>13. FilesInv'
  BY UntouchedFiles DEF BenchmarksInv, RunnerOpensInput
<1>. QED
  BY <1>11, <1>12, <1>13, CommandChanged

\* What the runner has read in the end is what the file is known to be.
LEMMA InputReadFits ==
  ASSUME BenchmarksInv, NEW command \in Benchmarks, benchmark[command].state = "measure",
         NEW input \in InputsRead(command),
         NEW run, run = NextRun(command)
  PROVE  InputPart(run.pattern, run.seed, run.configuration.capacities, TearRead(command), input)
<1>1. PICK c : c = benchmark[command] /\ CommandInv(c)
  BY DEF BenchmarksInv
<1>2. run \in RunNames(c.arguments.seeds) /\ c.arguments \in BenchmarkArguments
  BY <1>1, NextRunFacts
<1>3. PICK before, now, capacities :
        /\ before = c.input
        /\ now = benchmarkFiles[InputPath(command)]
        /\ capacities = run.configuration.capacities
  OBVIOUS
<1>4. capacities \in Seq(Nat)
  BY <1>2, <1>3, RunsHaveFiles, ConfigTokensFacts
<1>5. InputPart(run.pattern, run.seed, capacities, benchmarkTears[InputPath(command)], now)
  BY <1>2, <1>3, InputThere DEF BenchmarksInv
<1>6. Sized(capacities, before)
  <2>1. run = RunsOf[c.arguments][Len(c.rows) + 1]
    BY <1>1 DEF NextRun
  <2>. QED
    BY <1>1, <1>3, <2>1 DEF CommandInv
<1>7. CASE ~ c.disturbed
  <2>1. input = now /\ TearRead(command) = benchmarkTears[InputPath(command)]
    BY <1>1, <1>3, <1>7 DEF InputsRead, TearRead
  <2>. QED
    BY <1>3, <1>5, <2>1
<1>8. CASE c.disturbed
  <2>1. TearRead(command) = "mixed"
    BY <1>1, <1>8 DEF TearRead
  <2>2. Sized(capacities, now) /\ before \in Seq(SomeToken)
    BY <1>5, <1>6 DEF InputPart, Sized
  <2>3. before \in Beginnings(before) /\ Parts(before) \subseteq Beginnings(before)
    BY <2>2, Beginning
  <2>4. \A part \in Beginnings(before) : Sized(capacities, part)
    BY <1>4, <1>6, SizedParts
  <2>5. \A n \in 0..(Len(before) - 1) :
          Sized(capacities, SubSeq(Overlaid(before, now, n), 1, Len(now)))
    BY <1>4, <1>6, <2>2, SizedRead
  <2>6. \/ input \in {now, before} \cup Parts(before)
        \/ \E n \in 0..(Len(before) - 1) :
             input = SubSeq(Overlaid(before, now, n), 1, Len(now))
    BY <1>1, <1>3, <1>8 DEF InputsRead
  <2>7. Sized(capacities, input)
    BY <2>2, <2>3, <2>4, <2>5, <2>6
  <2>. QED
    BY <1>3, <2>1, <2>7 DEF InputPart
<1>. QED
  BY <1>7, <1>8

\* A row that is accepted is the next row of the table.
LEMMA WriteRowInv ==
  ASSUME BenchmarksInv, NEW command \in Benchmarks, WriteRow(command)
  PROVE  BenchmarksInv'
<1>1. PICK c : c = benchmark[command] /\ CommandInv(c)
  BY DEF BenchmarksInv
<1>2. PICK run, tear : run = NextRun(command) /\ tear = TearRead(command)
  OBVIOUS
<1>3. c.state = "measure"
  BY <1>1 DEF WriteRow
<1>4. /\ c = [state |-> c.state, arguments |-> c.arguments, files |-> c.files,
              config |-> c.config, input |-> c.input, disturbed |-> c.disturbed,
              rows |-> c.rows]
      /\ RowsInv(c.arguments, c.rows)
      /\ c.config \in Beginnings(ConfigFile(
           RunsOf[c.arguments][Len(c.rows) + 1].configuration.strategies))
  BY <1>1, <1>3 DEF CommandInv
<1>5. PICK m \in Nat, n \in Nat :
        /\ m = Len(c.rows) /\ n = Len(RunsOf[c.arguments]) /\ m + 1 \in 1..n
        /\ run \in RunNames(c.arguments.seeds)
        /\ c.arguments \in BenchmarkArguments
  BY <1>1, <1>2, <1>3, NextRunFacts
<1>6. run = RunsOf[c.arguments][m + 1]
  BY <1>1, <1>2, <1>5 DEF NextRun
<1>7. PICK state : state = IF m + 1 = n THEN "done" ELSE "run"
  OBVIOUS
<1>8. PICK measured \in Measurements(command) :
        /\ RowAccepted(command, measured)
        /\ benchmark' = [benchmark EXCEPT
             ![command].rows = Append(c.rows, [run |-> run, measured |-> measured, tear |-> tear]),
             ![command].config = <<>>, ![command].input = <<>>,
             ![command].disturbed = FALSE, ![command].state = state]
  BY <1>1, <1>2, <1>5, <1>7 DEF WriteRow
<1>9. PICK row : row = [run |-> run, measured |-> measured, tear |-> tear]
  OBVIOUS
<1>10. RowRight(c.arguments, run, row)
  <2>1. PICK input \in InputsRead(command) : measured = RunExperiment(c.config, input)
    BY <1>1, <1>8 DEF Measurements
  <2>2. InputPart(run.pattern, run.seed, run.configuration.capacities, tear, input)
    BY <1>1, <1>2, <1>3, InputReadFits
  <2>3. /\ measured # NoExperiment
        /\ CountersAccepted(measured, c.arguments.requests, Len(run.configuration.capacities))
    BY <1>1, <1>2, <1>8 DEF RowAccepted
  <2>4. c.config \in Beginnings(ConfigFile(run.configuration.strategies))
    BY <1>4, <1>5, <1>6
  <2>. QED
    BY <1>5, <1>9, <2>1, <2>2, <2>3, <2>4, AcceptedIsRight
<1>11. PICK rows : rows = Append(c.rows, row)
  OBVIOUS
<1>12. RowsInv(c.arguments, rows) /\ Len(rows) = m + 1
  <2>1. PICK S : c.rows \in Seq(S)
    BY <1>4 DEF RowsInv
  <2>2. PICK T : T = S \cup {row}
    OBVIOUS
  <2>3. c.rows \in Seq(T) /\ row \in T
    BY <2>1, <2>2
  <2>4. /\ rows \in Seq(T) /\ Len(rows) = m + 1
        /\ \A i \in 1..m : rows[i] = c.rows[i]
        /\ rows[m + 1] = row
    BY <1>5, <1>11, <2>3
  <2>5. ASSUME NEW i \in 1..(m + 1)
        PROVE  RowRight(c.arguments, RunsOf[c.arguments][i], rows[i])
    <3>1. CASE i \in 1..m
      BY <1>4, <1>5, <2>4, <3>1 DEF RowsInv
    <3>2. CASE i = m + 1
      BY <1>6, <1>10, <2>4, <3>2
    <3>. QED
      BY <3>1, <3>2
  <2>. QED
    BY <2>4, <2>5 DEF RowsInv
<1>13. PICK new : new = [c EXCEPT !.rows = rows, !.config = <<>>, !.input = <<>>,
                                  !.disturbed = FALSE, !.state = state]
  OBVIOUS
<1>14. new = [state |-> state, arguments |-> c.arguments, files |-> c.files,
              config |-> <<>>, input |-> <<>>, disturbed |-> FALSE, rows |-> rows]
  BY <1>4, <1>13
<1>15. /\ state \in {"done", "run"}
       /\ state = "done" => Len(rows) = n
       /\ state = "run" => Len(rows) < n
  BY <1>5, <1>7, <1>12
<1>16. CommandInv(new)
  BY <1>5, <1>12, <1>14, <1>15 DEF CommandInv
<1>17. benchmark' = [benchmark EXCEPT ![command] = new]
  BY <1>1, <1>8, <1>9, <1>11, <1>13 DEF BenchmarksInv
<1>18. FilesInv'
  BY UntouchedFiles DEF BenchmarksInv, WriteRow
<1>. QED
  BY <1>16, <1>17, <1>18, CommandChanged

\* A command that stops keeps what it has, and leaves the files as they are.
LEMMA StopBenchmarkInv ==
  ASSUME BenchmarksInv, NEW command \in Benchmarks,
         RefuseRow(command) \/ StopBenchmark(command)
  PROVE  BenchmarksInv'
<1>1. PICK c : c = benchmark[command] /\ CommandInv(c)
  BY DEF BenchmarksInv
<1>2. /\ c.state # "not started"
      /\ benchmark' = [benchmark EXCEPT
           ![command].state = "failed", ![command].config = <<>>, ![command].input = <<>>,
           ![command].disturbed = FALSE]
      /\ UNCHANGED <<benchmarkFiles, benchmarkTears>>
  BY <1>1 DEF RefuseRow, StopBenchmark, BenchmarkFails
<1>3. PICK new : new = [c EXCEPT !.state = "failed", !.config = <<>>, !.input = <<>>,
                                 !.disturbed = FALSE]
  OBVIOUS
<1>4. /\ c = [state |-> c.state, arguments |-> c.arguments, files |-> c.files,
              config |-> c.config, input |-> c.input, disturbed |-> c.disturbed, rows |-> c.rows]
      /\ c.arguments \in BenchmarkArguments /\ RowsInv(c.arguments, c.rows)
  BY <1>1, <1>2 DEF CommandInv
<1>5. new = [state |-> "failed", arguments |-> c.arguments, files |-> c.files,
             config |-> <<>>, input |-> <<>>, disturbed |-> FALSE, rows |-> c.rows]
  BY <1>3, <1>4
<1>6. CommandInv(new)
  BY <1>4, <1>5 DEF CommandInv
<1>7. benchmark' = [benchmark EXCEPT ![command] = new]
  BY <1>1, <1>2, <1>3 DEF BenchmarksInv
<1>8. FilesInv'
  BY <1>2, UntouchedFiles DEF BenchmarksInv
<1>. QED
  BY <1>6, <1>7, <1>8, CommandChanged

\* At first no command has started, and no file exists.
LEMMA BenchmarkInitInv == BenchmarkInit => BenchmarksInv
<1>. SUFFICES ASSUME BenchmarkInit PROVE BenchmarksInv
  OBVIOUS
<1>1. /\ benchmarkFiles = [path \in BenchmarkPaths |-> <<>>]
      /\ benchmarkTears = [path \in BenchmarkPaths |-> "part"]
  BY DEF BenchmarkInit
<1>2. FilesInv
  <2>1. \A path \in BenchmarkPaths : benchmarkFiles[path] = <<>> /\ benchmarkTears[path] = "part"
    BY <1>1
  <2>2. /\ benchmarkFiles = [path \in BenchmarkPaths |-> benchmarkFiles[path]]
        /\ benchmarkTears = [path \in BenchmarkPaths |-> benchmarkTears[path]]
    BY <1>1
  <2>3. \A path \in BenchmarkPaths : Fits(path, benchmarkTears[path], benchmarkFiles[path])
    BY <2>1, EmptyFits
  <2>. QED
    BY <2>2, <2>3 DEF FilesInv
<1>3. CommandInv(NotStarted)
  BY DEF CommandInv, NotStarted
<1>4. benchmark = [command \in Benchmarks |-> NotStarted]
  BY DEF BenchmarkInit
<1>. QED
  BY <1>2, <1>3, <1>4 DEF BenchmarksInv

\* Commands elsewhere leave the root alone.
LEMMA UntouchedBenchmarks == ASSUME BenchmarksInv, UNCHANGED benchmarkVars PROVE BenchmarksInv'
<1>1. /\ benchmarkFiles' = benchmarkFiles /\ benchmarkTears' = benchmarkTears
      /\ benchmark' = benchmark
  BY DEF benchmarkVars
<1>2. FilesInv'
  BY <1>1, UntouchedFiles DEF BenchmarksInv
<1>3. benchmark' = [command \in Benchmarks |-> benchmark'[command]]
  BY <1>1 DEF BenchmarksInv
<1>4. \A command \in Benchmarks : CommandInv(benchmark'[command])
  BY <1>1 DEF BenchmarksInv
<1>. QED
  BY <1>2, <1>3, <1>4 DEF BenchmarksInv

\* Every step of any command keeps the invariant.
LEMMA BenchmarksStep == ASSUME BenchmarksInv, [CommandsNext]_commandsVars PROVE BenchmarksInv'
<1>1. CASE UNCHANGED benchmarkVars
  BY <1>1, UntouchedBenchmarks
<1>2. CASE BenchmarkNext
  <2>1. PICK command \in Benchmarks :
          \/ BenchmarkStarts(command)
          \/ OpenBenchmarkFile(command)
          \/ CloseBenchmarkFile(command)
          \/ RunnerReadsConfig(command)
          \/ RunnerOpensInput(command)
          \/ WriteRow(command)
          \/ RefuseRow(command)
          \/ StopBenchmark(command)
    BY <1>2 DEF BenchmarkNext
  <2>. QED
    BY <2>1, BenchmarkStartsInv, OpenBenchmarkFileInv, CloseBenchmarkFileInv,
       RunnerReadsConfigInv, RunnerOpensInputInv, WriteRowInv, StopBenchmarkInv
<1>. QED
  BY <1>1, <1>2 DEF CommandsNext, commandsVars

\* The tables of the commands are what they should be.
LEMMA TablesMeasured == ASSUME BenchmarksInv PROVE RowsMeasured
<1>. SUFFICES ASSUME NEW command \in Benchmarks,
                     NEW c, c = benchmark[command]
              PROVE  /\ \A i \in DOMAIN c.rows :
                          RowRight(c.arguments, RunsOf[c.arguments][i], c.rows[i])
                     /\ (c.state = "done" /\ ~ c.arguments.generateOnly) =>
                          Len(c.rows) = Len(RunsOf[c.arguments])
  BY DEF RowsMeasured
<1>1. CommandInv(c)
  BY DEF BenchmarksInv
<1>2. c.state = "done" /\ ~ c.arguments.generateOnly =>
        Len(c.rows) = Len(RunsOf[c.arguments])
  BY <1>1 DEF CommandInv
<1>3. ASSUME NEW i \in DOMAIN c.rows
      PROVE  RowRight(c.arguments, RunsOf[c.arguments][i], c.rows[i])
  <2>1. c.state # "not started"
    <3>1. c.rows # <<>>
      BY <1>3
    <3>. QED
      BY <1>1, <3>1 DEF CommandInv
  <2>2. RowsInv(c.arguments, c.rows)
    BY <1>1, <2>1 DEF CommandInv
  <2>3. i \in 1..Len(c.rows)
    BY <1>3, <2>2 DEF RowsInv
  <2>. QED
    BY <2>2, <2>3 DEF RowsInv
<1>. QED
  BY <1>2, <1>3

\* Every row of a table of the original benchmark is of the run it should be, with
\* the levels that run has and as many requests as were asked for; and it was
\* measured on the requests of its pattern and seed, unless its input was left in
\* part by another command, where the last request may be cut short, or two
\* commands wrote it at a time, or one opened it while it was read
\* (cache_benchmark.py).
THEOREM TablesAreMeasured == CommandsSpec => []RowsMeasured
<1>1. CommandsInit => BenchmarksInv
  BY BenchmarkInitInv DEF CommandsInit
<1>2. BenchmarksInv /\ [CommandsNext]_commandsVars => BenchmarksInv'
  BY BenchmarksStep
<1>3. BenchmarksInv => RowsMeasured
  BY TablesMeasured
<1>. QED
  BY <1>1, <1>2, <1>3, PTL DEF CommandsSpec

-----------------------------------------------------------------------------
(***************************************************************************)
(* The request patterns.                                                   *)
(***************************************************************************)

\* Draws are in their range.
LEMMA DrawsFacts ==
  ASSUME NEW n \in Nat \ {0}
  PROVE  Draws(n) \subseteq 0..(n - 1)
<1>1. n \div 2 \in 0..(n - 1)
  OBVIOUS
<1>2. {0, n \div 2, n - 1} \subseteq 0..(n - 1)
  BY <1>1
<1>. QED
  BY <1>2 DEF Draws

\* Where the hot sets of a pattern begin, how great they are, and where the
\* pages begin that are not hot.
Stride(g) == IF g.suite = "legacy" THEN 64 ELSE g.scale

HotSize(g) ==
  IF g.suite = "legacy" THEN 8 ELSE IF g.scale \div 8 >= 1 THEN g.scale \div 8 ELSE 1

Cold(g) == IF g.suite = "legacy" THEN 1024 ELSE 8 * g.scale

Far(g) == IF g.pattern = "hot_scan" THEN "scan" ELSE "cold"

\* The hot sets of four phases, and what lies beyond them.
Parted(key, role, stride, hot, cold, far) ==
  \/ \E part \in 0..3 :
       role = <<"hot", part>> /\ key \in (part * stride)..(part * stride + hot - 1)
  \/ role = <<far, 0>> /\ key >= cold

\* The pages of the sites.
Navigated(key, role) ==
  \/ key \in 0..3 /\ role = <<"common", 0>>
  \/ \E site \in 0..7, resource \in 0..3 :
       key = 4 + site * 4 + resource /\ role = <<"site", site>>
  \/ \E page \in 0..47, resource \in 0..7 :
       key = 1000 + page * 8 + resource /\ role = <<"page", page>>

\* The role of all pages of the other patterns.
OnlyRole(pattern) ==
  CASE pattern = "popular" -> <<"popular", 0>>
    [] pattern = "bursts"  -> <<"burst", 0>>
    [] pattern = "uniform" -> <<"uniform", 0>>
    [] OTHER               -> <<"cycle", 0>>

Hots == {"hot_cold", "phase_change", "hot_scan"}

\* The role that a pattern gives to a page.
HasRole(g, key, role) ==
  /\ key \in 0..MaxInt
  /\ g.pattern \in Hots => Parted(key, role, Stride(g), HotSize(g), Cold(g), Far(g))
  /\ g.pattern = "navigation" => Navigated(key, role)
  /\ g.pattern \notin Hots \cup {"navigation"} => role = OnlyRole(g.pattern)

\* The hot sets have room between each other and before the cold pages, which
\* have room before the greatest number.
LEMMA SizesFacts ==
  ASSUME NEW g \in Generators, g.suite # "file"
  PROVE  /\ Stride(g) \in Nat /\ HotSize(g) \in Nat \ {0} /\ Cold(g) \in Nat
         /\ HotSize(g) <= Stride(g) /\ 4 * Stride(g) <= Cold(g)
         /\ g.requests \in Nat \ {0}
         /\ Cold(g) + g.requests <= MaxInt
         /\ g.suite = "research" =>
              g.scale \in Nat /\ g.scale >= 2 /\ 12 * g.scale <= MaxInt
         /\ MaxInt \in Nat /\ MaxInt >= 2047
<1>1. /\ g.requests \in Nat \ {0} /\ MaxInt \in Nat /\ MaxInt >= 2047
      /\ g.suite \in {"legacy", "research"}
  BY GeneratorAssumption, PeriodAssumption
<1>2. CASE g.suite = "legacy"
  <2>1. g.requests <= MaxInt - 1024
    BY <1>2, GeneratorAssumption
  <2>. QED
    BY <1>1, <1>2, <2>1 DEF Stride, HotSize, Cold
<1>3. CASE g.suite = "research"
  <2>1. PICK size \in Nat : size = g.scale /\ size >= 2 /\ g.requests + 12 * size <= MaxInt
    BY <1>3, GeneratorAssumption
  <2>2. /\ Stride(g) = size /\ Cold(g) = 8 * size
        /\ HotSize(g) = IF size \div 8 >= 1 THEN size \div 8 ELSE 1
    BY <1>3, <2>1 DEF Stride, HotSize, Cold
  <2>3. size \div 8 \in Nat /\ size \div 8 <= size
    BY <2>1
  <2>. QED
    BY <1>1, <1>3, <2>1, <2>2, <2>3
<1>. QED
  BY <1>1, <1>2, <1>3

\* Hot sets have nothing in common with each other or with what lies beyond.
LEMMA PartedOnce ==
  ASSUME NEW stride \in Nat, NEW hot \in Nat, NEW cold \in Nat, NEW far,
         hot <= stride, 4 * stride <= cold,
         NEW key \in Nat, NEW r, NEW s,
         Parted(key, r, stride, hot, cold, far), Parted(key, s, stride, hot, cold, far)
  PROVE  r = s
<1>1. ASSUME NEW part \in 0..3
      PROVE  /\ part * stride \in Nat
             /\ part * stride + hot <= (part + 1) * stride
             /\ part * stride + hot <= cold
             /\ \A later \in 0..3 : part < later => part * stride + hot <= later * stride
  <2>1. part = 0 \/ part = 1 \/ part = 2 \/ part = 3
    OBVIOUS
  <2>2. 0 * stride = 0 /\ 1 * stride = stride
    OBVIOUS
  <2>. QED
    BY <2>1, <2>2
<1>2. ASSUME NEW part \in 0..3, NEW other \in 0..3,
             key \in (part * stride)..(part * stride + hot - 1),
             key \in (other * stride)..(other * stride + hot - 1)
      PROVE  part = other
  <2>1. part * stride \in Nat /\ other * stride \in Nat
    BY <1>1
  <2>2. ~ part < other
    BY <1>1, <1>2, <2>1
  <2>3. ~ other < part
    BY <1>1, <1>2, <2>1
  <2>. QED
    BY <2>2, <2>3
<1>3. ASSUME NEW part \in 0..3, key \in (part * stride)..(part * stride + hot - 1)
      PROVE  ~ key >= cold
  BY <1>1, <1>3
<1>4. CASE r = <<far, 0>> /\ key >= cold
  <2>1. s = <<far, 0>>
    BY <1>3, <1>4 DEF Parted
  <2>. QED
    BY <1>4, <2>1
<1>5. CASE \E part \in 0..3 :
             r = <<"hot", part>> /\ key \in (part * stride)..(part * stride + hot - 1)
  <2>1. PICK part \in 0..3 :
          r = <<"hot", part>> /\ key \in (part * stride)..(part * stride + hot - 1)
    BY <1>5
  <2>2. ~ key >= cold
    BY <1>3, <2>1
  <2>3. PICK other \in 0..3 :
          s = <<"hot", other>> /\ key \in (other * stride)..(other * stride + hot - 1)
    BY <2>2 DEF Parted
  <2>4. part = other
    BY <1>2, <2>1, <2>3
  <2>. QED
    BY <2>1, <2>3, <2>4
<1>. QED
  BY <1>4, <1>5 DEF Parted

\* Every page of the sites has one place.
LEMMA NavigatedOnce ==
  ASSUME NEW key \in Nat, NEW r, NEW s, Navigated(key, r), Navigated(key, s)
  PROVE  r = s
<1>1. CASE key < 4
  <2>1. r = <<"common", 0>>
    BY <1>1 DEF Navigated
  <2>2. s = <<"common", 0>>
    BY <1>1 DEF Navigated
  <2>. QED
    BY <2>1, <2>2
<1>2. CASE key >= 4 /\ key < 1000
  <2>1. PICK site \in 0..7, resource \in 0..3 :
          key = 4 + site * 4 + resource /\ r = <<"site", site>>
    BY <1>2 DEF Navigated
  <2>2. PICK other \in 0..7, its \in 0..3 :
          key = 4 + other * 4 + its /\ s = <<"site", other>>
    BY <1>2 DEF Navigated
  <2>3. site = other
    BY <2>1, <2>2
  <2>. QED
    BY <2>1, <2>2, <2>3
<1>3. CASE key >= 1000
  <2>1. PICK page \in 0..47, resource \in 0..7 :
          key = 1000 + page * 8 + resource /\ r = <<"page", page>>
    BY <1>3 DEF Navigated
  <2>2. PICK other \in 0..47, its \in 0..7 :
          key = 1000 + other * 8 + its /\ s = <<"page", other>>
    BY <1>3 DEF Navigated
  <2>3. page = other
    BY <2>1, <2>2
  <2>. QED
    BY <2>1, <2>2, <2>3
<1>. QED
  BY <1>1, <1>2, <1>3

\* No page has two roles.
LEMMA OneRole ==
  ASSUME NEW g \in Generators, g.suite # "file",
         NEW key, NEW r, NEW s, HasRole(g, key, r), HasRole(g, key, s)
  PROVE  r = s
<1>1. key \in Nat
  BY DEF HasRole
<1>2. CASE g.pattern \in Hots
  <2>. PICK far : far = Far(g)
    OBVIOUS
  <2>1. PICK stride \in Nat, hot \in Nat, cold \in Nat :
          /\ stride = Stride(g) /\ hot = HotSize(g) /\ cold = Cold(g)
          /\ hot <= stride /\ 4 * stride <= cold
    BY SizesFacts
  <2>2. Parted(key, r, stride, hot, cold, far) /\ Parted(key, s, stride, hot, cold, far)
    BY <1>2, <2>1 DEF HasRole
  <2>. QED
    BY <1>1, <2>1, <2>2, PartedOnce
<1>3. CASE g.pattern = "navigation"
  <2>1. Navigated(key, r) /\ Navigated(key, s)
    BY <1>3 DEF HasRole
  <2>. QED
    BY <1>1, <2>1, NavigatedOnce
<1>4. CASE g.pattern \notin Hots \cup {"navigation"}
  BY <1>4 DEF HasRole
<1>. QED
  BY <1>2, <1>3, <1>4

\* Only one pattern scans.
LEMMA ScanRole ==
  ASSUME NEW g, NEW key, NEW role, HasRole(g, key, role), role[1] = "scan"
  PROVE  g.pattern = "hot_scan" /\ role = <<"scan", 0>>
<1>1. CASE g.pattern \in Hots
  <2>1. Parted(key, role, Stride(g), HotSize(g), Cold(g), Far(g))
    BY <1>1 DEF HasRole
  <2>2. \A part : <<"hot", part>>[1] = "hot"
    OBVIOUS
  <2>3. role = <<Far(g), 0>>
    BY <2>1, <2>2 DEF Parted
  <2>4. Far(g) = "scan"
    BY <2>3
  <2>. QED
    BY <2>3, <2>4 DEF Far
<1>2. CASE g.pattern = "navigation"
  <2>1. Navigated(key, role)
    BY <1>2 DEF HasRole
  <2>2. \A n : /\ <<"common", n>>[1] = "common"
               /\ <<"site", n>>[1] = "site"
               /\ <<"page", n>>[1] = "page"
    OBVIOUS
  <2>. QED
    BY <2>1, <2>2 DEF Navigated
<1>3. CASE g.pattern \notin Hots \cup {"navigation"}
  <2>1. role = OnlyRole(g.pattern)
    BY <1>3 DEF HasRole
  <2>2. /\ <<"popular", 0>>[1] = "popular" /\ <<"burst", 0>>[1] = "burst"
        /\ <<"uniform", 0>>[1] = "uniform" /\ <<"cycle", 0>>[1] = "cycle"
    OBVIOUS
  <2>. QED
    BY <2>1, <2>2 DEF OnlyRole
<1>. QED
  BY <1>1, <1>2, <1>3

LEMMA PagesFacts ==
  ASSUME NEW keys, NEW role, NEW request \in Pages(keys, role)
  PROVE  /\ request = PageRequest(request.key, request.role)
         /\ request.key \in keys /\ request.role = role
BY DEF Pages, PageRequest

\* The pages of the patterns with hot sets.
LEMMA HotOrColdFacts ==
  ASSUME NEW stride \in Nat, NEW hot \in Nat, NEW cold \in Nat, NEW part \in 0..3,
         NEW keys, NEW others,
         keys \subseteq (part * stride)..(part * stride + hot - 1),
         others \subseteq Nat, \A key \in others : key >= cold,
         NEW request \in HotOrCold(keys, part, others)
  PROVE  /\ request = PageRequest(request.key, request.role)
         /\ request.key \in keys \cup others
         /\ Parted(request.key, request.role, stride, hot, cold, "cold")
<1>1. CASE request \in Pages(keys, <<"hot", part>>)
  <2>1. /\ request = PageRequest(request.key, request.role)
        /\ request.key \in keys /\ request.role = <<"hot", part>>
    BY <1>1, PagesFacts
  <2>. QED
    BY <2>1 DEF Parted
<1>2. CASE request \in Pages(others, <<"cold", 0>>)
  <2>1. /\ request = PageRequest(request.key, request.role)
        /\ request.key \in others /\ request.role = <<"cold", 0>>
    BY <1>2, PagesFacts
  <2>. QED
    BY <2>1 DEF Parted
<1>. QED
  BY <1>1, <1>2 DEF HotOrCold

LEMMA FromFacts ==
  ASSUME NEW offset \in Nat, NEW n \in Nat \ {0}
  PROVE  From(offset, Draws(n)) \subseteq offset..(offset + n - 1)
<1>1. Draws(n) \subseteq 0..(n - 1)
  BY DrawsFacts
<1>. QED
  BY <1>1 DEF From

\* A request that has the role of its page; a scan requests new pages only.
Drawn(g, now, request) ==
  /\ request = PageRequest(request.key, request.role)
  /\ HasRole(g, request.key, request.role)
  /\ g.pattern = "hot_scan" =>
       /\ request.key < Cold(g) + now + 1
       /\ request.role[1] = "scan" => request.key = Cold(g) + now

\* Hot pages of a phase, and cold ones.
HotParts(g, part, keys, others) ==
  /\ keys \subseteq (part * Stride(g))..(part * Stride(g) + HotSize(g) - 1)
  /\ others \subseteq Cold(g)..MaxInt

\* The patterns with hot sets that are not scanned past.
LEMMA HotDrawn ==
  ASSUME NEW g \in Generators, g.suite # "file", g.pattern \in {"hot_cold", "phase_change"},
         NEW now, NEW part \in 0..3, NEW keys, NEW others,
         HotParts(g, part, keys, others),
         NEW request \in HotOrCold(keys, part, others)
  PROVE  Drawn(g, now, request)
<1>1. PICK stride \in Nat, hot \in Nat, cold \in Nat :
        /\ stride = Stride(g) /\ hot = HotSize(g) /\ cold = Cold(g)
        /\ hot <= stride /\ 4 * stride <= cold /\ cold <= MaxInt
  BY SizesFacts
<1>2. MaxInt \in Nat
  BY PeriodAssumption
<1>3. keys \subseteq (part * stride)..(part * stride + hot - 1)
  BY <1>1 DEF HotParts
<1>4. others \subseteq Nat /\ \A key \in others : key >= cold /\ key \in 0..MaxInt
  BY <1>1, <1>2 DEF HotParts
<1>5. /\ request = PageRequest(request.key, request.role)
      /\ request.key \in keys \cup others
      /\ Parted(request.key, request.role, stride, hot, cold, "cold")
  BY <1>3, <1>4, HotOrColdFacts
<1>6. \A key \in keys : key \in 0..MaxInt
  <2>1. part = 0 \/ part = 1 \/ part = 2 \/ part = 3
    OBVIOUS
  <2>2. 0 * stride = 0 /\ 1 * stride = stride
    OBVIOUS
  <2>. QED
    BY <1>1, <1>2, <1>3, <2>1, <2>2
<1>7. Parted(request.key, request.role, Stride(g), HotSize(g), Cold(g), Far(g))
  BY <1>1, <1>5 DEF Far
<1>8. request.key \in 0..MaxInt
  BY <1>4, <1>5, <1>6
<1>9. HasRole(g, request.key, request.role)
  BY <1>7, <1>8 DEF HasRole, Hots
<1>. QED
  BY <1>5, <1>9 DEF Drawn

\* The pattern that scans past its hot set.
LEMMA ScanDrawn ==
  ASSUME NEW g \in Generators, g.suite # "file", g.pattern = "hot_scan",
         NEW now \in Nat, now < g.requests,
         NEW request \in Pages(Draws(HotSize(g)), <<"hot", 0>>)
                           \cup Pages({Cold(g) + now}, <<"scan", 0>>)
  PROVE  Drawn(g, now, request)
<1>1. PICK stride \in Nat, hot \in Nat \ {0}, cold \in Nat :
        /\ stride = Stride(g) /\ hot = HotSize(g) /\ cold = Cold(g)
        /\ hot <= stride /\ 4 * stride <= cold /\ cold + now <= MaxInt
  <2>1. g.requests \in Nat
    BY SizesFacts
  <2>. QED
    BY <2>1, SizesFacts
<1>2. MaxInt \in Nat
  BY PeriodAssumption
<1>3. <<"hot", 0>>[1] = "hot"
  OBVIOUS
<1>4. CASE request \in Pages(Draws(HotSize(g)), <<"hot", 0>>)
  <2>1. /\ request = PageRequest(request.key, request.role)
        /\ request.key \in Draws(hot) /\ request.role = <<"hot", 0>>
    BY <1>1, <1>4, PagesFacts
  <2>2. request.key \in 0..(hot - 1)
    BY <2>1, DrawsFacts
  <2>3. 0 * stride = 0
    OBVIOUS
  <2>4. Parted(request.key, request.role, stride, hot, cold, "scan")
    BY <2>1, <2>2, <2>3 DEF Parted
  <2>5. request.key \in 0..MaxInt /\ request.key < cold + now + 1
    BY <1>1, <1>2, <2>2
  <2>6. request.role[1] # "scan"
    BY <1>3, <2>1
  <2>7. Parted(request.key, request.role, Stride(g), HotSize(g), Cold(g), Far(g))
    BY <1>1, <2>4 DEF Far
  <2>8. HasRole(g, request.key, request.role)
    BY <2>5, <2>7 DEF HasRole, Hots
  <2>. QED
    BY <1>1, <2>1, <2>5, <2>6, <2>8 DEF Drawn
<1>5. CASE request \in Pages({Cold(g) + now}, <<"scan", 0>>)
  <2>1. /\ request = PageRequest(request.key, request.role)
        /\ request.key = cold + now /\ request.role = <<"scan", 0>>
    BY <1>1, <1>5, PagesFacts
  <2>2. Parted(request.key, request.role, stride, hot, cold, "scan")
    BY <2>1 DEF Parted
  <2>3. request.key \in 0..MaxInt /\ request.key < cold + now + 1
    BY <1>1, <1>2, <2>1
  <2>4. Parted(request.key, request.role, Stride(g), HotSize(g), Cold(g), Far(g))
    BY <1>1, <2>2 DEF Far
  <2>5. HasRole(g, request.key, request.role)
    BY <2>3, <2>4 DEF HasRole, Hots
  <2>. QED
    BY <1>1, <2>1, <2>3, <2>5 DEF Drawn
<1>. QED
  BY <1>4, <1>5

\* The patterns whose pages have one role.
LEMMA OnlyDrawn ==
  ASSUME NEW g, g.pattern \notin Hots \cup {"navigation"}, NEW now,
         NEW keys, keys \subseteq 0..MaxInt,
         NEW request \in Pages(keys, OnlyRole(g.pattern))
  PROVE  Drawn(g, now, request)
<1>1. /\ request = PageRequest(request.key, request.role)
      /\ request.key \in keys /\ request.role = OnlyRole(g.pattern)
  BY PagesFacts
<1>2. g.pattern # "hot_scan"
  BY DEF Hots
<1>. QED
  BY <1>1, <1>2 DEF Drawn, HasRole

\* A request of the sites.
LEMMA SiteDrawn ==
  ASSUME NEW g, g.pattern = "navigation", NEW now, index \in Nat
  PROVE  Drawn(g, now, NavigationRequest)
<1>1. PICK visit \in Nat : visit = index \div 16
  OBVIOUS
<1>2. PICK resource \in 0..15 : resource = index % 16
  OBVIOUS
<1>3. PICK site \in 0..7 : site = (visit \div 12) % 8
  OBVIOUS
<1>4. PICK place_of \in 0..5 : place_of = visit % 6
  OBVIOUS
<1>5. MaxInt \in Nat /\ MaxInt >= 2047
  BY PeriodAssumption
<1>6. NavigationRequest =
        IF resource < 4 THEN PageRequest(resource, <<"common", 0>>)
        ELSE IF resource < 8
             THEN PageRequest(4 + site * 4 + (resource - 4), <<"site", site>>)
        ELSE PageRequest(1000 + site * 48 + place_of * 8 + (resource - 8),
                         <<"page", (site * 6) + place_of>>)
  BY <1>1, <1>2, <1>3, <1>4 DEF NavigationRequest
<1>7. ASSUME NEW key \in 0..MaxInt, NEW role, Navigated(key, role)
      PROVE  Drawn(g, now, PageRequest(key, role))
  <2>1. /\ PageRequest(key, role).key = key /\ PageRequest(key, role).role = role
    BY DEF PageRequest
  <2>. QED
    BY <1>7, <2>1 DEF Drawn, HasRole, Hots
<1>8. CASE resource < 4
  <2>1. Navigated(resource, <<"common", 0>>) /\ resource \in 0..MaxInt
    BY <1>5, <1>8 DEF Navigated
  <2>. QED
    BY <1>6, <1>7, <1>8, <2>1
<1>9. CASE resource >= 4 /\ resource < 8
  <2>1. PICK its \in 0..3 : its = resource - 4
    BY <1>9
  <2>2. Navigated(4 + site * 4 + its, <<"site", site>>)
    BY DEF Navigated
  <2>3. 4 + site * 4 + its \in 0..MaxInt
    BY <1>5
  <2>. QED
    BY <1>6, <1>7, <1>9, <2>1, <2>2, <2>3
<1>10. CASE resource >= 8
  <2>1. PICK its \in 0..7 : its = resource - 8
    BY <1>10
  <2>2. PICK page \in 0..47 : page = (site * 6) + place_of
    OBVIOUS
  <2>3. 1000 + site * 48 + place_of * 8 + its = 1000 + page * 8 + its
    BY <2>2
  <2>4. Navigated(1000 + page * 8 + its, <<"page", page>>)
    BY DEF Navigated
  <2>5. 1000 + page * 8 + its \in 0..MaxInt
    BY <1>5
  <2>. QED
    BY <1>6, <1>7, <1>10, <2>1, <2>2, <2>3, <2>4, <2>5
<1>. QED
  BY <1>8, <1>9, <1>10

LEMMA LegacyDrawn ==
  ASSUME generator \in Generators, generator.suite = "legacy",
         index \in Nat, index < generator.requests,
         index > 0 => Drawn(generator, index - 1, latest),
         NEW request \in LegacyRequests
  PROVE  Drawn(generator, index, request)
<1>1. /\ generator.pattern \in LegacyPatterns
      /\ MaxInt \in Nat /\ MaxInt >= 2047
      /\ PhaseLength \in Nat \ {0} /\ ScanPeriod \in Nat \ {0} /\ BurstLength \in Nat \ {0}
  BY GeneratorAssumption, PeriodAssumption
<1>2. /\ Stride(generator) = 64 /\ HotSize(generator) = 8 /\ Cold(generator) = 1024
      /\ generator.suite # "file"
  BY DEF Stride, HotSize, Cold
<1>3. From(1024, Draws(1024)) \subseteq Cold(generator)..MaxInt
  <2>1. PICK width \in Nat \ {0} : width = 1024
    OBVIOUS
  <2>2. From(width, Draws(width)) \subseteq width..(width + width - 1)
    BY FromFacts
  <2>. QED
    BY <1>1, <1>2, <2>1, <2>2
<1>4. Draws(8) \subseteq 0..7 /\ Draws(256) \subseteq 0..255
  BY DrawsFacts
<1>5. CASE generator.pattern \in {"small_cycle", "boundary_cycle", "scan"}
  <2>1. OnlyRole(generator.pattern) = <<"cycle", 0>>
    BY <1>5 DEF OnlyRole
  <2>2. \E keys : keys \subseteq 0..MaxInt /\ LegacyRequests = Pages(keys, <<"cycle", 0>>)
    <3>1. index % 32 \in 0..MaxInt /\ index % 65 \in 0..MaxInt /\ index % 256 \in 0..MaxInt
      BY <1>1
    <3>2. \/ LegacyRequests = Pages({index % 32}, <<"cycle", 0>>)
          \/ LegacyRequests = Pages({index % 65}, <<"cycle", 0>>)
          \/ LegacyRequests = Pages({index % 256}, <<"cycle", 0>>)
      BY <1>5 DEF LegacyRequests
    <3>. QED
      BY <3>1, <3>2
  <2>3. generator.pattern \notin Hots \cup {"navigation"}
    BY <1>5 DEF Hots
  <2>. QED
    BY <2>1, <2>2, <2>3, OnlyDrawn
<1>6. CASE generator.pattern = "hot_cold"
  <2>1. LegacyRequests = HotOrCold(Draws(8), 0, From(1024, Draws(1024)))
    BY <1>6 DEF LegacyRequests
  <2>2. Draws(8) \subseteq
          (0 * Stride(generator))..(0 * Stride(generator) + HotSize(generator) - 1)
    BY <1>2, <1>4
  <2>3. request \in HotOrCold(Draws(8), 0, From(1024, Draws(1024)))
    BY <2>1
  <2>4. PICK keys, others :
          keys = Draws(8) /\ others = From(1024, Draws(1024))
    OBVIOUS
  <2>5. HotParts(generator, 0, keys, others) /\ request \in HotOrCold(keys, 0, others)
    BY <1>3, <2>2, <2>3, <2>4 DEF HotParts
  <2>6. generator.pattern \in {"hot_cold", "phase_change"}
    BY <1>6
  <2>. QED
    BY <1>2, <2>5, <2>6, HotDrawn
<1>7. CASE generator.pattern = "phase_change"
  <2>1. PICK part \in 0..3 : part = (index \div PhaseLength) % 4
    <3>1. index \div PhaseLength \in Nat
      BY <1>1
    <3>. QED
      BY <3>1
  <2>2. LegacyRequests =
          HotOrCold(From(64 * part, Draws(8)), part, From(1024, Draws(1024)))
    BY <1>7, <2>1 DEF LegacyRequests
  <2>3. From(64 * part, Draws(8)) \subseteq (64 * part)..(64 * part + 8 - 1)
    BY FromFacts
  <2>4. From(64 * part, Draws(8)) \subseteq
          (part * Stride(generator))..(part * Stride(generator) + HotSize(generator) - 1)
    BY <1>2, <2>3
  <2>5. request \in HotOrCold(From(64 * part, Draws(8)), part, From(1024, Draws(1024)))
    BY <2>2
  <2>6. PICK keys, others :
          keys = From(64 * part, Draws(8)) /\ others = From(1024, Draws(1024))
    OBVIOUS
  <2>7. HotParts(generator, part, keys, others) /\ request \in HotOrCold(keys, part, others)
    BY <1>3, <2>4, <2>5, <2>6 DEF HotParts
  <2>8. generator.pattern \in {"hot_cold", "phase_change"}
    BY <1>7
  <2>. QED
    BY <1>2, <2>7, <2>8, HotDrawn
<1>8. CASE generator.pattern = "hot_scan"
  <2>1. LegacyRequests =
          IF index % ScanPeriod < ScanStart THEN Pages(Draws(8), <<"hot", 0>>)
          ELSE Pages({1024 + index}, <<"scan", 0>>)
    BY <1>8 DEF LegacyRequests
  <2>2. request \in Pages(Draws(HotSize(generator)), <<"hot", 0>>)
                      \cup Pages({Cold(generator) + index}, <<"scan", 0>>)
    BY <1>2, <2>1
  <2>. QED
    BY <1>2, <1>8, <2>2, ScanDrawn
<1>9. CASE generator.pattern = "bursts"
  <2>1. LegacyRequests =
          IF index % BurstLength = 0 THEN Pages(Draws(256), <<"burst", 0>>) ELSE {latest}
    BY <1>9 DEF LegacyRequests
  <2>2. generator.pattern \notin Hots \cup {"navigation"}
    BY <1>9 DEF Hots
  <2>3. CASE index % BurstLength = 0
    <3>1. OnlyRole(generator.pattern) = <<"burst", 0>>
      BY <1>9 DEF OnlyRole
    <3>2. Draws(256) \subseteq 0..MaxInt
      BY <1>1, <1>4
    <3>. QED
      BY <2>1, <2>2, <2>3, <3>1, <3>2, OnlyDrawn
  <2>4. CASE index % BurstLength # 0
    <3>1. 0 % BurstLength = 0
      BY <1>1
    <3>2. index > 0
      BY <2>4, <3>1
    <3>3. Drawn(generator, index - 1, latest) /\ request = latest
      BY <2>1, <2>4, <3>2
    <3>4. generator.pattern # "hot_scan"
      BY <1>9
    <3>. QED
      BY <3>3, <3>4 DEF Drawn
  <2>. QED
    BY <2>3, <2>4
<1>10. CASE generator.pattern = "uniform"
  <2>1. LegacyRequests = Pages(Draws(256), <<"uniform", 0>>)
    BY <1>10 DEF LegacyRequests
  <2>2. generator.pattern \notin Hots \cup {"navigation"}
    BY <1>10 DEF Hots
  <2>3. OnlyRole(generator.pattern) = <<"uniform", 0>>
    BY <1>10 DEF OnlyRole
  <2>4. Draws(256) \subseteq 0..MaxInt
    BY <1>1, <1>4
  <2>. QED
    BY <2>1, <2>2, <2>3, <2>4, OnlyDrawn
<1>. QED
  BY <1>1, <1>5, <1>6, <1>7, <1>8, <1>9, <1>10 DEF LegacyPatterns

LEMMA ResearchDrawn ==
  ASSUME generator \in Generators, generator.suite = "research",
         index \in Nat, index < generator.requests,
         index > 0 => Drawn(generator, index - 1, latest),
         NEW request \in ResearchRequests
  PROVE  Drawn(generator, index, request)
<1>1. /\ generator.pattern \in ResearchPatterns
      /\ MaxInt \in Nat /\ MaxInt >= 2047
      /\ PhaseLength \in Nat \ {0} /\ ScanPeriod \in Nat \ {0} /\ BurstLength \in Nat \ {0}
  BY GeneratorAssumption, PeriodAssumption
<1>2. PICK size \in Nat :
        size = generator.scale /\ size >= 2 /\ 12 * size <= MaxInt
  BY SizesFacts
<1>3. /\ Stride(generator) = size /\ HotSize(generator) = hot_size
      /\ Cold(generator) = 8 * size /\ ColdOffset = 8 * size
      /\ generator.suite # "file" /\ hot_size \in Nat \ {0}
      /\ \A part : PhaseOffset(part) = part * size
  <2>1. size \div 8 \in Nat
    OBVIOUS
  <2>. QED
    BY <1>2, <2>1 DEF Stride, HotSize, Cold, hot_size, ColdOffset, PhaseOffset, scale
<1>4. Draws(4 * size) \subseteq 0..(4 * size - 1)
  BY <1>2, DrawsFacts
<1>5. Draws(4 * size) \subseteq 0..MaxInt
  BY <1>1, <1>2, <1>4
<1>6. From(ColdOffset, Draws(4 * size)) \subseteq Cold(generator)..MaxInt
  <2>1. From(8 * size, Draws(4 * size)) \subseteq (8 * size)..(8 * size + 4 * size - 1)
    BY <1>2, FromFacts
  <2>. QED
    BY <1>1, <1>2, <1>3, <2>1
<1>7. CASE generator.pattern \in {"small_cycle", "boundary_cycle", "scan"}
  <2>1. OnlyRole(generator.pattern) = <<"cycle", 0>>
    BY <1>7 DEF OnlyRole
  <2>2. \E keys : keys \subseteq 0..MaxInt /\ ResearchRequests = Pages(keys, <<"cycle", 0>>)
    <3>1. /\ index % (size \div 2) \in 0..MaxInt
          /\ index % (size + 1) \in 0..MaxInt
          /\ index % (4 * size) \in 0..MaxInt
      <4>1. ASSUME NEW n \in Nat \ {0}, n <= MaxInt
            PROVE  index % n \in 0..MaxInt
        <5>1. index % n \in 0..(n - 1)
          OBVIOUS
        <5>. QED
          BY <1>1, <4>1, <5>1
      <4>2. /\ size \div 2 \in Nat \ {0} /\ size \div 2 <= MaxInt
            /\ size + 1 \in Nat \ {0} /\ size + 1 <= MaxInt
            /\ 4 * size \in Nat \ {0} /\ 4 * size <= MaxInt
        BY <1>1, <1>2
      <4>. QED
        BY <4>1, <4>2
    <3>2. \/ ResearchRequests = Pages({index % (size \div 2)}, <<"cycle", 0>>)
          \/ ResearchRequests = Pages({index % (size + 1)}, <<"cycle", 0>>)
          \/ ResearchRequests = Pages({index % (4 * size)}, <<"cycle", 0>>)
      BY <1>2, <1>7 DEF ResearchRequests, scale
    <3>. QED
      BY <3>1, <3>2
  <2>3. generator.pattern \notin Hots \cup {"navigation"}
    BY <1>7 DEF Hots
  <2>. QED
    BY <2>1, <2>2, <2>3, OnlyDrawn
<1>8. CASE generator.pattern = "hot_cold"
  <2>1. request \in HotOrCold(Draws(hot_size), 0, From(ColdOffset, Draws(4 * size)))
    BY <1>2, <1>8 DEF ResearchRequests, scale
  <2>2. Draws(hot_size) \subseteq 0..(hot_size - 1)
    BY <1>3, DrawsFacts
  <2>3. Draws(hot_size) \subseteq
          (0 * Stride(generator))..(0 * Stride(generator) + HotSize(generator) - 1)
    <3>1. 0 * size = 0
      OBVIOUS
    <3>. QED
      BY <1>3, <2>2, <3>1
  <2>4. PICK keys, others :
          keys = Draws(hot_size) /\ others = From(ColdOffset, Draws(4 * size))
    OBVIOUS
  <2>5. HotParts(generator, 0, keys, others) /\ request \in HotOrCold(keys, 0, others)
    BY <1>6, <2>1, <2>3, <2>4 DEF HotParts
  <2>6. generator.pattern \in {"hot_cold", "phase_change"}
    BY <1>8
  <2>. QED
    BY <1>3, <2>5, <2>6, HotDrawn
<1>9. CASE generator.pattern = "phase_change"
  <2>1. PICK part \in 0..3 : part = (index \div PhaseLength) % 4
    <3>1. index \div PhaseLength \in Nat
      BY <1>1
    <3>. QED
      BY <3>1
  <2>2. request \in HotOrCold(From(PhaseOffset(part), Draws(hot_size)), part,
                              From(ColdOffset, Draws(4 * size)))
    BY <1>2, <1>9, <2>1 DEF ResearchRequests, scale
  <2>3. part * size \in Nat
    OBVIOUS
  <2>4. From(part * size, Draws(hot_size)) \subseteq
          (part * size)..(part * size + hot_size - 1)
    BY <1>3, <2>3, FromFacts
  <2>5. From(PhaseOffset(part), Draws(hot_size)) \subseteq
          (part * Stride(generator))..(part * Stride(generator) + HotSize(generator) - 1)
    BY <1>3, <2>4
  <2>6. PICK keys, others :
          /\ keys = From(PhaseOffset(part), Draws(hot_size))
          /\ others = From(ColdOffset, Draws(4 * size))
    OBVIOUS
  <2>7. HotParts(generator, part, keys, others) /\ request \in HotOrCold(keys, part, others)
    BY <1>6, <2>2, <2>5, <2>6 DEF HotParts
  <2>8. generator.pattern \in {"hot_cold", "phase_change"}
    BY <1>9
  <2>. QED
    BY <1>3, <2>7, <2>8, HotDrawn
<1>10. CASE generator.pattern = "hot_scan"
  <2>1. ResearchRequests =
          IF index % ScanPeriod < ScanStart THEN Pages(Draws(hot_size), <<"hot", 0>>)
          ELSE Pages({ColdOffset + index}, <<"scan", 0>>)
    BY <1>10 DEF ResearchRequests
  <2>2. request \in Pages(Draws(HotSize(generator)), <<"hot", 0>>)
                      \cup Pages({Cold(generator) + index}, <<"scan", 0>>)
    BY <1>3, <2>1
  <2>. QED
    BY <1>3, <1>10, <2>2, ScanDrawn
<1>11. CASE generator.pattern = "bursts"
  <2>1. ResearchRequests =
          IF index % BurstLength = 0 THEN Pages(Draws(4 * size), <<"burst", 0>>)
          ELSE {latest}
    BY <1>2, <1>11 DEF ResearchRequests, scale
  <2>2. generator.pattern \notin Hots \cup {"navigation"}
    BY <1>11 DEF Hots
  <2>3. CASE index % BurstLength = 0
    <3>1. OnlyRole(generator.pattern) = <<"burst", 0>>
      BY <1>11 DEF OnlyRole
    <3>. QED
      BY <1>5, <2>1, <2>2, <2>3, <3>1, OnlyDrawn
  <2>4. CASE index % BurstLength # 0
    <3>1. 0 % BurstLength = 0
      BY <1>1
    <3>2. index > 0
      BY <2>4, <3>1
    <3>3. Drawn(generator, index - 1, latest) /\ request = latest
      BY <2>1, <2>4, <3>2
    <3>4. generator.pattern # "hot_scan"
      BY <1>11
    <3>. QED
      BY <3>3, <3>4 DEF Drawn
  <2>. QED
    BY <2>3, <2>4
<1>12. CASE generator.pattern \in {"uniform", "popular"}
  <2>1. OnlyRole(generator.pattern) = <<generator.pattern, 0>>
    BY <1>12 DEF OnlyRole
  <2>2. request \in Pages(Draws(4 * size), <<generator.pattern, 0>>)
    BY <1>2, <1>12 DEF ResearchRequests, scale
  <2>3. generator.pattern \notin Hots \cup {"navigation"}
    BY <1>12 DEF Hots
  <2>. QED
    BY <1>5, <2>1, <2>2, <2>3, OnlyDrawn
<1>13. CASE generator.pattern = "navigation"
  <2>1. request = NavigationRequest
    BY <1>13 DEF ResearchRequests
  <2>. QED
    BY <1>13, <2>1, SiteDrawn
<1>. QED
  BY <1>1, <1>7, <1>8, <1>9, <1>10, <1>11, <1>12, <1>13 DEF ResearchPatterns, LegacyPatterns

\* Of every suite but files: the latest request and those before it have the
\* roles of their pages, and a scan has left all of them behind.
DrawnInv ==
  generator.suite # "file" =>
    /\ index > 0 => Drawn(generator, index - 1, latest)
    /\ \A key \in DOMAIN roles :
         /\ HasRole(generator, key, roles[key])
         /\ generator.pattern = "hot_scan" => key < Cold(generator) + index - 1

\* The pages of a file are numbered without gaps, one for each token.
Numbered(seen, n) ==
  /\ DOMAIN seen = 0..(n - 1)
  /\ \A a, b \in 0..(n - 1) : seen[a] = seen[b] => a = b

\* The request after n pages is for one of them or for the next.
Placed(seen, n, request) ==
  /\ request.role[1] = "token"
  /\ request.key \in 0..n
  /\ request.key # n => seen[request.key] = request.role
  /\ \A key \in 0..(n - 1) : seen[key] = request.role => key = request.key

NumberedInv ==
  generator.suite = "file" /\ index > 0 =>
    \E n \in 0..(index - 1) :
      Numbered(roles, n) /\ Placed(roles, n, latest)

PatternInv ==
  /\ generator \in Generators
  /\ index \in 0..generator.requests
  /\ index = 0 => latest = NoRequest /\ roles = <<>>
  /\ DrawnInv
  /\ NumberedInv

LEMMA GeneratorFacts ==
  ASSUME NEW g \in Generators
  PROVE  /\ g.requests \in Nat \ {0}
         /\ g.suite = "file" \/ g.suite = "legacy" \/ g.suite = "research"
         /\ MaxInt \in Nat /\ g.requests <= MaxInt
<1>1. MaxInt \in Nat /\ MaxInt >= 2047
  BY PeriodAssumption
<1>2. /\ g.requests \in Nat \ {0}
      /\ g.suite = "file" \/ g.suite = "legacy" \/ g.suite = "research"
  BY GeneratorAssumption
<1>3. g.requests <= MaxInt
  <2>1. CASE g.suite = "file"
    BY <2>1, GeneratorAssumption
  <2>2. CASE g.suite # "file"
    BY <1>1, <2>2, SizesFacts
  <2>. QED
    BY <2>1, <2>2
<1>. QED
  BY <1>1, <1>2, <1>3

\* The invariant gives the properties of the generated trace.
LEMMA PatternsUsable == PatternInv => TraceUsable
<1>. SUFFICES ASSUME PatternInv PROVE TraceUsable
  OBVIOUS
<1>1. PICK n \in Nat : n = generator.requests /\ n > 0 /\ n <= MaxInt /\ MaxInt \in Nat
  BY GeneratorFacts DEF PatternInv
<1>2. index \in 0..n /\ generator \in Generators
  BY <1>1 DEF PatternInv
<1>3. CASE index = 0
  <2>1. latest = PageRequest(0, <<"none", 0>>) /\ roles = <<>>
    BY <1>3 DEF PatternInv, NoRequest
  <2>2. latest.key = 0 /\ DOMAIN roles = {}
    BY <2>1 DEF PageRequest
  <2>. QED
    BY <1>1, <2>2 DEF TraceUsable, KeysFit, PagesApart
<1>4. CASE index > 0 /\ generator.suite # "file"
  <2>1. Drawn(generator, index - 1, latest)
    BY <1>4 DEF PatternInv, DrawnInv
  <2>2. HasRole(generator, latest.key, latest.role)
    BY <2>1 DEF Drawn
  <2>3. latest.key \in 0..MaxInt
    BY <2>2 DEF HasRole
  <2>4. ASSUME latest.key \in DOMAIN roles
        PROVE  roles[latest.key] = latest.role /\ latest.role[1] # "scan"
    <3>1. /\ HasRole(generator, latest.key, roles[latest.key])
          /\ generator.pattern = "hot_scan" => latest.key < Cold(generator) + index - 1
      BY <1>4, <2>4 DEF PatternInv, DrawnInv
    <3>2. roles[latest.key] = latest.role
      BY <1>2, <1>4, <2>2, <3>1, OneRole
    <3>3. SUFFICES ASSUME latest.role[1] = "scan" PROVE FALSE
      BY <3>2
    <3>4. generator.pattern = "hot_scan"
      BY <2>2, <3>3, ScanRole
    <3>5. latest.key = Cold(generator) + (index - 1)
      BY <2>1, <3>3, <3>4 DEF Drawn
    <3>6. Cold(generator) \in Nat
      BY <1>2, <1>4, SizesFacts
    <3>. QED
      BY <1>2, <3>1, <3>4, <3>5, <3>6
  <2>. QED
    BY <1>4, <2>3, <2>4 DEF TraceUsable, KeysFit, PagesApart
<1>5. CASE index > 0 /\ generator.suite = "file"
  <2>1. PICK last \in 0..(index - 1) :
          Numbered(roles, last) /\ Placed(roles, last, latest)
    BY <1>5 DEF PatternInv, NumberedInv
  <2>2. latest.key \in 0..MaxInt
    BY <1>1, <1>2, <2>1 DEF Placed
  <2>3. DOMAIN roles = 0..(last - 1)
    BY <2>1 DEF Numbered
  <2>4. \A key \in DOMAIN roles : roles[key] = latest.role => key = latest.key
    BY <2>1, <2>3 DEF Placed
  <2>5. ASSUME latest.key \in DOMAIN roles
        PROVE  roles[latest.key] = latest.role /\ latest.role[1] # "scan"
    <3>1. latest.key # last
      BY <1>2, <2>3, <2>5
    <3>. QED
      BY <2>1, <3>1 DEF Placed
  <2>. QED
    BY <2>2, <2>4, <2>5 DEF TraceUsable, KeysFit, PagesApart
<1>. QED
  BY <1>2, <1>3, <1>4, <1>5

LEMMA PatternInitInv == PatternInit => PatternInv
<1>. SUFFICES ASSUME PatternInit PROVE PatternInv
  OBVIOUS
<1>1. generator \in Generators /\ index = 0 /\ latest = NoRequest /\ roles = <<>>
  BY DEF PatternInit
<1>2. generator.requests \in Nat
  BY <1>1, GeneratorFacts
<1>3. DOMAIN roles = {}
  BY <1>1
<1>. QED
  BY <1>1, <1>2, <1>3 DEF PatternInv, DrawnInv, NumberedInv

\* The pages seen, the latest included.
LEMMA SeenFacts ==
  ASSUME PatternInv
  PROVE  /\ DOMAIN Seen = DOMAIN roles \cup (IF index = 0 THEN {} ELSE {latest.key})
         /\ \A key \in DOMAIN roles : key \in DOMAIN Seen /\ Seen[key] = roles[key]
         /\ index > 0 /\ latest.key \notin DOMAIN roles =>
              latest.key \in DOMAIN Seen /\ Seen[latest.key] = latest.role
         /\ index = 0 => DOMAIN Seen = {}
<1>1. index = 0 => DOMAIN roles = {}
  BY DEF PatternInv
<1>. QED
  BY <1>1 DEF Seen

LEMMA SeenNumbered ==
  ASSUME PatternInv, generator.suite = "file"
  PROVE  \E m \in 0..index : Numbered(Seen, m)
<1>1. index \in Nat
  <2>1. generator.requests \in Nat
    BY GeneratorFacts DEF PatternInv
  <2>. QED
    BY <2>1 DEF PatternInv
<1>2. CASE index = 0
  <2>1. DOMAIN Seen = 0..(0 - 1)
    BY <1>2, SeenFacts
  <2>2. Numbered(Seen, 0)
    BY <2>1 DEF Numbered
  <2>. QED
    BY <1>2, <2>2
<1>3. CASE index > 0
  <2>1. PICK n \in 0..(index - 1) :
          Numbered(roles, n) /\ Placed(roles, n, latest)
    BY <1>3 DEF PatternInv, NumberedInv
  <2>2. /\ DOMAIN roles = 0..(n - 1)
        /\ \A a, b \in 0..(n - 1) : roles[a] = roles[b] => a = b
        /\ latest.key \in 0..n
        /\ \A key \in 0..(n - 1) : roles[key] = latest.role => key = latest.key
    BY <2>1 DEF Numbered, Placed
  <2>3. /\ DOMAIN Seen = 0..(n - 1) \cup {latest.key}
        /\ \A key \in 0..(n - 1) : Seen[key] = roles[key]
        /\ latest.key \notin 0..(n - 1) => Seen[latest.key] = latest.role
    BY <1>3, <2>2, SeenFacts
  <2>4. CASE latest.key # n
    <3>1. DOMAIN Seen = 0..(n - 1)
      BY <1>1, <2>2, <2>3, <2>4
    <3>2. Numbered(Seen, n)
      BY <2>2, <2>3, <3>1 DEF Numbered
    <3>. QED
      BY <1>1, <3>2
  <2>5. CASE latest.key = n
    <3>1. DOMAIN Seen = 0..((n + 1) - 1)
      BY <1>1, <2>3, <2>5
    <3>2. n \notin 0..(n - 1)
      BY <1>1
    <3>3. Seen[n] = latest.role
      BY <2>3, <2>5, <3>2
    <3>4. ASSUME NEW a \in 0..((n + 1) - 1), NEW b \in 0..((n + 1) - 1), Seen[a] = Seen[b]
          PROVE  a = b
      <4>1. (a \in 0..(n - 1) \/ a = n) /\ (b \in 0..(n - 1) \/ b = n)
        BY <1>1
      <4>. QED
        BY <2>2, <2>3, <2>5, <3>2, <3>3, <3>4, <4>1
    <3>5. Numbered(Seen, n + 1)
      BY <3>1, <3>4 DEF Numbered
    <3>6. n + 1 \in 0..index
      BY <1>1
    <3>. QED
      BY <3>5, <3>6
  <2>. QED
    BY <2>4, <2>5
<1>. QED
  BY <1>1, <1>2, <1>3

\* A token that was seen keeps its number, another takes the next.
LEMMA FilePlaced ==
  ASSUME NEW m \in Nat, Numbered(Seen, m)
  PROVE  Placed(Seen, m, FileRequest)
<1>. DEFINE token == generator.tokens[index + 1]
            role == <<"token", token>>
            known == {key \in DOMAIN Seen : Seen[key] = role}
<1>1. /\ DOMAIN Seen = 0..(m - 1)
      /\ \A a, b \in 0..(m - 1) : Seen[a] = Seen[b] => a = b
  BY DEF Numbered
<1>2. FileRequest =
        PageRequest(IF known # {} THEN Min(known) ELSE Cardinality(DOMAIN Seen), role)
  BY DEF FileRequest
<1>3. role[1] = "token"
  OBVIOUS
<1>4. CASE known # {}
  <2>1. known \in SUBSET Nat
    BY <1>1
  <2>2. Min(known) \in known
    <3>. HIDE DEF known
    <3>. QED
      BY <1>4, <2>1, Smallest
  <2>3. FileRequest.key = Min(known) /\ FileRequest.role = role
    BY <1>2, <1>4 DEF PageRequest
  <2>4. FileRequest.key \in 0..(m - 1) /\ Seen[FileRequest.key] = role
    BY <1>1, <2>2, <2>3
  <2>5. \A key \in 0..(m - 1) : Seen[key] = role => key = FileRequest.key
    BY <1>1, <2>4
  <2>6. FileRequest.role[1] = "token"
    BY <1>3, <2>3
  <2>7. FileRequest.key \in 0..m
    BY <2>4
  <2>8. Seen[FileRequest.key] = FileRequest.role
    BY <2>3, <2>4
  <2>9. \A key \in 0..(m - 1) : Seen[key] = FileRequest.role => key = FileRequest.key
    BY <2>3, <2>5
  <2>. QED
    BY <2>6, <2>7, <2>8, <2>9 DEF Placed
<1>5. CASE known = {}
  <2>1. Cardinality(0..(m - 1)) = m
    BY FS_Interval
  <2>2. FileRequest.key = m /\ FileRequest.role = role
    BY <1>1, <1>2, <1>5, <2>1 DEF PageRequest
  <2>3. \A key \in 0..(m - 1) : Seen[key] # role
    BY <1>1, <1>5
  <2>. QED
    BY <1>3, <2>2, <2>3 DEF Placed
<1>. QED
  BY <1>4, <1>5

LEMMA PatternStep == ASSUME PatternInv, GenerateRequest PROVE PatternInv'
<1>1. /\ index < generator.requests /\ latest' \in Requests
      /\ index' = index + 1 /\ roles' = Seen /\ generator' = generator
  BY DEF GenerateRequest
<1>2. /\ generator \in Generators /\ generator.requests \in Nat /\ index \in Nat
      /\ index + 1 \in 0..generator.requests /\ index + 1 # 0 /\ index + 1 > 0
      /\ (index + 1) - 1 = index
  <2>1. generator.requests \in Nat
    BY GeneratorFacts DEF PatternInv
  <2>. QED
    BY <1>1, <2>1 DEF PatternInv
<1>3. CASE generator.suite # "file"
  <2>1. Drawn(generator, index, latest')
    <3>1. index > 0 => Drawn(generator, index - 1, latest)
      BY <1>3 DEF PatternInv, DrawnInv
    <3>2. CASE generator.suite = "legacy"
      <4>1. latest' \in LegacyRequests
        BY <1>1, <3>2 DEF Requests
      <4>. QED
        BY <1>1, <1>2, <3>1, <3>2, <4>1, LegacyDrawn
    <3>3. CASE generator.suite = "research"
      <4>1. latest' \in ResearchRequests
        BY <1>1, <3>3 DEF Requests
      <4>. QED
        BY <1>1, <1>2, <3>1, <3>3, <4>1, ResearchDrawn
    <3>. QED
      BY <1>2, <1>3, <3>2, <3>3, GeneratorFacts
  <2>2. ASSUME NEW key \in DOMAIN Seen
        PROVE  /\ HasRole(generator, key, Seen[key])
               /\ generator.pattern = "hot_scan" => key < Cold(generator) + index
    <3>1. CASE key \in DOMAIN roles
      <4>1. /\ HasRole(generator, key, roles[key])
            /\ generator.pattern = "hot_scan" => key < Cold(generator) + index - 1
        BY <1>3, <3>1 DEF PatternInv, DrawnInv
      <4>2. Seen[key] = roles[key]
        BY <3>1, SeenFacts
      <4>3. key \in Nat /\ Cold(generator) \in Nat
        BY <1>2, <1>3, <4>1, SizesFacts DEF HasRole
      <4>. QED
        BY <1>2, <4>1, <4>2, <4>3
    <3>2. CASE key \notin DOMAIN roles
      <4>1. index > 0 /\ key = latest.key
        BY <1>2, <2>2, <3>2, SeenFacts
      <4>2. Seen[key] = latest.role
        BY <3>2, <4>1, SeenFacts
      <4>3. Drawn(generator, index - 1, latest)
        BY <1>3, <4>1 DEF PatternInv, DrawnInv
      <4>4. HasRole(generator, key, Seen[key])
        BY <4>1, <4>2, <4>3 DEF Drawn
      <4>5. Cold(generator) \in Nat
        BY <1>2, <1>3, SizesFacts
      <4>6. Cold(generator) + (index - 1) + 1 = Cold(generator) + index
        BY <1>2, <4>5
      <4>. QED
        BY <4>1, <4>3, <4>4, <4>6 DEF Drawn
    <3>. QED
      BY <3>1, <3>2
  <2>3. ASSUME generator.pattern = "hot_scan"
        PROVE  Cold(generator) + (index + 1) - 1 = Cold(generator) + index
    BY <1>2, <1>3, SizesFacts
  <2>4. DrawnInv'
    BY <1>1, <1>2, <2>1, <2>2, <2>3 DEF DrawnInv, Drawn, HasRole
  <2>5. NumberedInv'
    BY <1>1, <1>3 DEF NumberedInv
  <2>. QED
    BY <1>1, <1>2, <2>4, <2>5 DEF PatternInv
<1>4. CASE generator.suite = "file"
  <2>1. PICK m \in 0..index : Numbered(Seen, m)
    BY <1>4, SeenNumbered
  <2>2. latest' = FileRequest
    BY <1>1, <1>4 DEF Requests
  <2>3. m \in Nat
    BY <1>2
  <2>4. Placed(Seen, m, latest')
    BY <2>1, <2>2, <2>3, FilePlaced
  <2>5. m \in 0..((index + 1) - 1)
    BY <1>2
  <2>6. NumberedInv'
    BY <1>1, <2>1, <2>4, <2>5 DEF NumberedInv, Numbered, Placed
  <2>7. DrawnInv'
    BY <1>1, <1>4 DEF DrawnInv
  <2>. QED
    BY <1>1, <1>2, <2>6, <2>7 DEF PatternInv
<1>. QED
  BY <1>3, <1>4

LEMMA UntouchedPattern == ASSUME PatternInv, UNCHANGED patternVars PROVE PatternInv'
<1>1. generator' = generator /\ index' = index /\ latest' = latest /\ roles' = roles
  BY DEF patternVars
<1>. QED
  BY <1>1 DEF PatternInv, DrawnInv, NumberedInv, Drawn, HasRole, Numbered, Placed

LEMMA PatternsStep == PatternInv /\ [CommandsNext]_commandsVars => PatternInv'
<1>. SUFFICES ASSUME PatternInv, [CommandsNext]_commandsVars PROVE PatternInv'
  OBVIOUS
<1>1. CASE GenerateRequest
  BY <1>1, PatternStep
<1>2. CASE UNCHANGED patternVars
  BY <1>2, UntouchedPattern
<1>3. CASE CommandsNext
  BY <1>1, <1>2, <1>3 DEF CommandsNext, PatternNext
<1>4. CASE UNCHANGED commandsVars
  BY <1>2, <1>4 DEF commandsVars, patternVars
<1>. QED
  BY <1>3, <1>4

\* TraceUsable for every trace that can be generated: each pattern gives every
\* page one role, the keys are in the range of the caches, and the tokens of a
\* file are numbered without gaps in the order of their first occurrences.
THEOREM TracesAreUsable == CommandsSpec => []TraceUsable
<1>1. CommandsInit => PatternInv
  BY PatternInitInv DEF CommandsInit
<1>2. PatternInv /\ [CommandsNext]_commandsVars => PatternInv'
  BY PatternsStep
<1>3. PatternInv => TraceUsable
  BY PatternsUsable
<1>. QED
  BY <1>1, <1>2, <1>3, PTL DEF CommandsSpec

-----------------------------------------------------------------------------
(***************************************************************************)
(* The results of the studies.                                             *)
(***************************************************************************)

\* The tuples of so many numbers, which Python orders by their first difference.
TuplesOf(k) == [1..k -> Int]

\* A finite set of tuples in this order: a list of all, each once.
LEMMA SortedFacts ==
  ASSUME NEW k \in Nat, NEW tuples, IsFiniteSet(tuples), tuples \subseteq TuplesOf(k),
         NEW list, list = SortedTuples(tuples)
  PROVE  list \in Seq(tuples) /\ ToSet(list) = tuples /\ IsInjective(list)
<1>1. \A t \in tuples : t \in Seq(Int)
  BY DEF TuplesOf
<1>2. PICK before : before = {pair \in tuples \X tuples : Precedes(pair[1], pair[2])}
  OBVIOUS
<1>3. \A s, t \in tuples : <<s, t>> \in before <=> Precedes(s, t)
  BY <1>2
<1>4. \A s, t \in tuples : /\ ~ Precedes(s, s)
                           /\ s = t \/ Precedes(s, t) \/ Precedes(t, s)
  BY <1>1, PrecedesTotal
<1>5. \A s, t, u \in tuples : Precedes(s, t) /\ Precedes(t, u) => Precedes(s, u)
  BY <1>1, PrecedesTransitive
<1>6. OrdersAll(tuples, before)
  BY <1>3, <1>4, <1>5 DEF OrdersAll
<1>. QED
  BY <1>2, <1>6, OrderedItems DEF SortedTuples

\* The arguments that the commands of study I and II go on with.
Admitted(arguments) ==
  (\E user \in ResearchCommands : arguments \in user) /\ ValidResearch(arguments)

LEMMA AcceptedFacts ==
  ASSUME NEW arguments, Admitted(arguments)
  PROVE  /\ arguments.modes \in Seq(Modes) \ {<<>>}
         /\ arguments.sweep => Len(arguments.modes) = 1
         /\ arguments.trace \in BOOLEAN /\ arguments.plots \in BOOLEAN
         /\ arguments.seeds \in Seq(Int) /\ arguments.patterns \in Seq(STRING)
         /\ arguments.scale \in Int /\ arguments.total \in Int
         /\ arguments.scale >= 2
         /\ arguments.level_limits \in Seq(Int)
         /\ IsFiniteSet(arguments.sizes) /\ arguments.sizes \subseteq Int
         /\ IsFiniteSet(arguments.l1_sizes) /\ arguments.l1_sizes \subseteq Int
         /\ IsFiniteSet(arguments.l2_sizes) /\ arguments.l2_sizes \subseteq Int
         /\ \A size \in arguments.sizes : size >= 1
         /\ Cardinality(ToSet(arguments.seeds)) = Len(arguments.seeds)
<1>1. PICK user \in ResearchCommands : arguments \in user
  BY DEF Admitted
<1>2. /\ arguments.modes \in Seq({"hierarchy", "software"}) \ {<<>>}
      /\ arguments.sweep => Len(arguments.modes) = 1
      /\ arguments.trace \in BOOLEAN /\ arguments.plots \in BOOLEAN
      /\ arguments.seeds \in Seq(Int) /\ arguments.patterns \in Seq(STRING)
      /\ arguments.requests \in Int /\ arguments.scale \in Int /\ arguments.total \in Int
      /\ arguments.level_limits \in Seq(Int)
      /\ \A sizes \in {arguments.sizes, arguments.l1_sizes, arguments.l2_sizes} :
           IsFiniteSet(sizes) /\ sizes \subseteq Int
  BY <1>1, ModeAssumption
<1>3. ValidResearch(arguments)
  BY DEF Admitted
<1>4. /\ arguments.scale >= 2 /\ \A size \in arguments.sizes : size >= 1
      /\ Cardinality(ToSet(arguments.seeds)) = Len(arguments.seeds)
  BY <1>3 DEF ValidResearch
<1>. QED
  BY <1>2, <1>4 DEF Modes

LEMMA GreaterOfTwo ==
  ASSUME NEW a \in Int, NEW b \in Int
  PROVE  Max({a, b}) \in {a, b} /\ Max({a, b}) >= a /\ Max({a, b}) >= b
<1>1. \E x \in {a, b} : \A y \in {a, b} : x >= y
  <2>1. CASE a >= b
    BY <2>1
  <2>2. CASE ~(a >= b)
    BY <2>2
  <2>. QED
    BY <2>1, <2>2
<1>. QED
  BY <1>1 DEF Max

\* All sizes of study II are positive, and there are finitely many.
LEMMA SoftwareSizes ==
  ASSUME NEW workload \in Int, workload >= 2
  PROVE  software_sizes(workload) \subseteq 1..(4 * workload + 1024)
<1>. DEFINE One(size) == Max({1, size})
            top == 4 * workload + 1024
<1>1. \A size \in Int : size <= top => One(size) \in 1..top
  <2>. TAKE size \in Int
  <2>1. One(size) \in {1, size} /\ One(size) >= 1
    BY GreaterOfTwo
  <2>. QED
    BY <2>1
<1>. HIDE DEF One
<1>2. /\ workload \div 8 \in Int /\ workload \div 8 <= workload
      /\ workload \div 2 \in Int /\ workload \div 2 <= workload /\ workload \div 2 >= 1
      /\ workload \div 4 \in Int /\ workload \div 4 <= workload
      /\ (3 * workload) \div 4 \in Int /\ (3 * workload) \div 4 <= 3 * workload
  OBVIOUS
<1>. DEFINE eighth == workload \div 8
            half == workload \div 2
            fourth == workload \div 4
            most == (3 * workload) \div 4
            thresholds == {One(eighth), half, workload, 4 * workload}
            Fixed == {1, 2, 4, 8, 16, 24, 32, 48, 64, 96, 192, 256, 384, 512, 768, 1024}
            Near(t) == {One(t - 1), t, t + 1}
<1>3. software_sizes(workload) =
        Fixed \cup (UNION {Near(t) : t \in thresholds}) \cup {One(fourth), One(most)}
  BY DEF software_sizes, One
<1>. HIDE DEF Fixed, Near, thresholds
<1>4. eighth \in Int /\ fourth \in Int /\ most \in Int
  BY <1>2
<1>. HIDE DEF eighth, half, fourth, most
<1>5. \A t \in thresholds : t \in 1..(4 * workload)
  <2>1. One(eighth) \in 1..(4 * workload)
    <3>1. One(eighth) \in {1, eighth} /\ One(eighth) >= 1
      BY <1>4, GreaterOfTwo DEF One
    <3>. QED
      BY <1>2, <3>1 DEF eighth
  <2>. QED
    BY <1>2, <2>1 DEF half, thresholds
<1>6. \A t \in 1..(4 * workload) : {One(t - 1), t, t + 1} \subseteq 1..top
  <2>. TAKE t \in 1..(4 * workload)
  <2>1. t - 1 \in Int /\ t - 1 <= top
    OBVIOUS
  <2>2. One(t - 1) \in 1..top
    BY <1>1, <2>1
  <2>. QED
    BY <2>2
<1>7. One(fourth) \in 1..top /\ One(most) \in 1..top
  <2>1. fourth <= top /\ most <= top
    BY <1>2 DEF eighth, half, fourth, most
  <2>. QED
    BY <1>1, <1>4, <2>1
<1>8. \A size \in Fixed : size \in 1..top
  BY DEF Fixed
<1>9. \A size \in UNION {Near(t) : t \in thresholds} : size \in 1..top
  <2>. TAKE size \in UNION {Near(t) : t \in thresholds}
  <2>1. PICK t \in thresholds : size \in Near(t)
    OBVIOUS
  <2>. QED
    BY <1>5, <1>6, <2>1 DEF Near
<1>. HIDE DEF top
<1>. QED
  BY <1>3, <1>7, <1>8, <1>9 DEF top

LEMMA SoftwareSizesFinite ==
  ASSUME NEW workload \in Int, workload >= 2
  PROVE  /\ IsFiniteSet(software_sizes(workload))
         /\ \A size \in software_sizes(workload) : size \in Int /\ size >= 1
<1>1. PICK top \in Nat : top = 4 * workload + 1024
  OBVIOUS
<1>2. PICK sizes : sizes = software_sizes(workload)
  OBVIOUS
<1>3. sizes \subseteq 1..top
  BY <1>1, <1>2, SoftwareSizes
<1>4. PICK room : room = 1..top
  OBVIOUS
<1>5. IsFiniteSet(room)
  BY <1>4, FS_Interval
<1>6. sizes \in SUBSET room
  BY <1>3, <1>4
<1>7. IsFiniteSet(sizes)
  BY <1>5, <1>6, FS_Subset
<1>. QED
  BY <1>2, <1>3, <1>7

\* The number of capacities in a layout.
LevelsOf(mode) == IF mode = "hierarchy" THEN 3 ELSE 1

LEMMA LayoutsFacts ==
  ASSUME NEW mode \in Modes, NEW arguments, Admitted(arguments)
  PROVE  /\ IsFiniteSet(Layouts(mode, arguments))
         /\ Layouts(mode, arguments) \subseteq TuplesOf(LevelsOf(mode))
         /\ mode = "software" => \A capacities \in Layouts(mode, arguments) : capacities[1] >= 1
<1>1. CASE mode = "hierarchy"
  <2>1. PICK L1, L2, layouts, total :
          /\ L1 = arguments.l1_sizes /\ L2 = arguments.l2_sizes /\ total = arguments.total
          /\ layouts = Layouts(mode, arguments) /\ total \in Int
          /\ IsFiniteSet(L1) /\ L1 \subseteq Int /\ IsFiniteSet(L2) /\ L2 \subseteq Int
    BY AcceptedFacts
  <2>2. \A c \in layouts : \E l1 \in L1, l2 \in L2 : c = <<l1, l2, total - l1 - l2>>
    BY <1>1, <2>1 DEF Layouts, hierarchy_layouts
  <2>3. layouts \subseteq TuplesOf(3)
    <3>. SUFFICES ASSUME NEW c \in layouts PROVE c \in TuplesOf(3)
      OBVIOUS
    <3>1. PICK l1 \in L1, l2 \in L2 : c = <<l1, l2, total - l1 - l2>>
      BY <2>2
    <3>2. l1 \in Int /\ l2 \in Int /\ total - l1 - l2 \in Int
      BY <2>1
    <3>. QED
      BY <3>1, <3>2 DEF TuplesOf
  <2>4. IsFiniteSet(L1 \X L2)
    BY <2>1, FS_Product
  <2>5. PICK f : f = [c \in layouts |-> <<c[1], c[2]>>]
    OBVIOUS
  <2>6. f \in Injection(layouts, L1 \X L2)
    <3>1. \A c \in layouts : f[c] \in L1 \X L2
      BY <2>2, <2>5
    <3>2. ASSUME NEW c \in layouts, NEW d \in layouts, f[c] = f[d] PROVE c = d
      <4>1. PICK l1 \in L1, l2 \in L2 : c = <<l1, l2, total - l1 - l2>>
        BY <2>2
      <4>2. PICK m1 \in L1, m2 \in L2 : d = <<m1, m2, total - m1 - m2>>
        BY <2>2
      <4>3. f[c] = <<l1, l2>> /\ f[d] = <<m1, m2>>
        BY <2>5, <4>1, <4>2
      <4>4. l1 = m1 /\ l2 = m2
        <5>1. <<l1, l2>> = <<m1, m2>>
          BY <3>2, <4>3
        <5>. QED
          BY <5>1
      <4>. QED
        BY <4>1, <4>2, <4>4
    <3>3. f \in [layouts -> L1 \X L2]
      BY <2>5, <3>1
    <3>. QED
      BY <3>2, <3>3 DEF Injection, IsInjective
  <2>7. IsFiniteSet(layouts)
    BY <2>4, <2>6, FS_Injection
  <2>. QED
    BY <1>1, <2>1, <2>3, <2>7 DEF LevelsOf
<1>2. CASE mode = "software"
  <2>1. PICK sizes : /\ sizes = IF arguments.sizes = {} THEN software_sizes(arguments.scale)
                                ELSE arguments.sizes
                     /\ Layouts(mode, arguments) = {<<size>> : size \in sizes}
    BY <1>2 DEF Layouts
  <2>2. IsFiniteSet(sizes) /\ \A size \in sizes : size \in Int /\ size >= 1
    <3>1. CASE arguments.sizes = {}
      <4>1. PICK workload \in Int : workload = arguments.scale /\ workload >= 2
        BY AcceptedFacts
      <4>. QED
        BY <2>1, <3>1, <4>1, SoftwareSizesFinite
    <3>2. CASE arguments.sizes # {}
      BY <2>1, <3>2, AcceptedFacts
    <3>. QED
      BY <3>1, <3>2
  <2>3. PICK layouts : layouts = Layouts(mode, arguments)
    OBVIOUS
  <2>4. \A c \in layouts : c \in TuplesOf(1) /\ c[1] \in sizes /\ c = <<c[1]>>
    BY <2>1, <2>2, <2>3 DEF TuplesOf
  <2>5. PICK f : f = [c \in layouts |-> c[1]]
    OBVIOUS
  <2>6. f \in Injection(layouts, sizes)
    <3>1. f \in [layouts -> sizes]
      BY <2>4, <2>5
    <3>2. \A c, d \in layouts : f[c] = f[d] => c = d
      BY <2>4, <2>5
    <3>. QED
      BY <3>1, <3>2 DEF Injection, IsInjective
  <2>7. IsFiniteSet(layouts)
    BY <2>2, <2>6, FS_Injection
  <2>. QED
    BY <1>2, <2>2, <2>3, <2>4, <2>7 DEF LevelsOf
<1>. QED
  BY <1>1, <1>2 DEF Modes

LEMMA PatternsFacts ==
  ASSUME NEW mode \in Modes, NEW arguments, Admitted(arguments)
  PROVE  /\ PatternsOf(mode, arguments) \in Seq(STRING \cup {"user_trace"})
         /\ IsInjective(PatternsOf(mode, arguments))
<1>1. ASSUME arguments.patterns # <<>>
      PROVE  PatternsOf(mode, arguments) \in Seq(STRING) /\ IsInjective(PatternsOf(mode, arguments))
  <2>1. PICK named \in Seq(STRING) : named = arguments.patterns
    BY AcceptedFacts
  <2>2. PatternsOf(mode, arguments) = FromKeys(named)
    BY <1>1, <2>1 DEF PatternsOf
  <2>3. FromKeys(named) \in Seq(STRING) /\ IsInjective(FromKeys(named))
    BY FromKeysFacts
  <2>. QED
    BY <2>2, <2>3
<1>2. SOFTWARE_PATTERNS \in Seq(STRING) /\ IsInjective(SOFTWARE_PATTERNS)
  BY PatternAssumption
<1>3. HIERARCHY_PATTERNS \in Seq(STRING) /\ IsInjective(HIERARCHY_PATTERNS)
  <2>1. PICK n \in Nat, all \in Seq(STRING) :
          /\ all = SOFTWARE_PATTERNS /\ n = Len(all) /\ DOMAIN all = 1..n
          /\ all \in [1..n -> STRING]
    BY <1>2
  <2>2. HIERARCHY_PATTERNS \in Seq(STRING)
    BY PatternAssumption
  <2>3. PICK m \in Nat : m = Len(HIERARCHY_PATTERNS) /\ DOMAIN HIERARCHY_PATTERNS = 1..m
    BY <2>2
  <2>4. m <= n /\ \A i \in 1..m : HIERARCHY_PATTERNS[i] = all[i]
    <3>1. IsPrefix(HIERARCHY_PATTERNS, all)
      BY <2>1, PatternAssumption
    <3>. QED
      BY <2>1, <2>2, <2>3, <3>1, PrefixByIndex
  <2>5. \A i, j \in 1..n : all[i] = all[j] => i = j
    BY <1>2, <2>1 DEF IsInjective
  <2>6. IsInjective(HIERARCHY_PATTERNS)
    BY <2>3, <2>4, <2>5 DEF IsInjective
  <2>. QED
    BY <2>2, <2>6
<1>4. <<"user_trace">> \in Seq({"user_trace"}) /\ IsInjective(<<"user_trace">>)
  BY DEF IsInjective
<1>. QED
  <2>1. Seq(STRING) \subseteq Seq(STRING \cup {"user_trace"})
    OBVIOUS
  <2>2. Seq({"user_trace"}) \subseteq Seq(STRING \cup {"user_trace"})
    OBVIOUS
  <2>3. PICK Named : Named = Seq(STRING \cup {"user_trace"})
    OBVIOUS
  <2>4. CASE arguments.patterns = <<>>
    BY <1>2, <1>3, <1>4, <2>1, <2>2, <2>4 DEF PatternsOf
  <2>. QED
    BY <1>1, <2>1, <2>4

LEMMA SeedsFacts ==
  ASSUME NEW arguments, Admitted(arguments)
  PROVE  SeedsOf(arguments) \in Seq(Int) /\ IsInjective(SeedsOf(arguments))
<1>1. PICK seeds \in Seq(Int) : seeds = arguments.seeds /\ Cardinality(ToSet(seeds)) = Len(seeds)
  BY AcceptedFacts
<1>2. PICK n \in Nat : n = Len(seeds) /\ DOMAIN seeds = 1..n
  OBVIOUS
<1>3. seeds \in Surjection(1..n, ToSet(seeds))
  BY <1>2 DEF Surjection, ToSet
<1>4. IsFiniteSet(1..n) /\ Cardinality(1..n) = n
  BY FS_Interval
<1>5. seeds \in Injection(1..n, ToSet(seeds))
  BY <1>1, <1>2, <1>3, <1>4, FS_Surjection
<1>6. IsInjective(seeds)
  BY <1>2, <1>5 DEF Injection, IsInjective
<1>7. <<0>> \in Seq(Int) /\ IsInjective(<<0>>)
  BY DEF IsInjective
<1>. QED
  BY <1>1, <1>6, <1>7 DEF SeedsOf

\* The measurements of a sweep: pattern, seed, layout and strategies.
Cells(patterns, seeds, layouts) ==
  {cell \in patterns \X seeds \X layouts \X Seq(STRING) : cell[4] \in ValidChoices(cell[3])}

\* The row of one of them.
CellRow(arguments, trace, cell) ==
  ExperimentRow(cell[1], cell[2], cell[3], cell[4],
                RequestsFor(arguments, cell[1], cell[2], trace))

\* A list of the rows of some measurements, each once.
AreRows(list, U, arguments, trace, cells) ==
  /\ list \in Seq(U)
  /\ \A row \in ToSet(list) : \E cell \in cells : row = CellRow(arguments, trace, cell)
  /\ \A cell \in cells : CellRow(arguments, trace, cell) \in ToSet(list)
  /\ IsInjective(list)

LEMMA RowFields ==
  ASSUME NEW arguments, NEW trace, NEW cell
  PROVE  LET row == CellRow(arguments, trace, cell) IN
         /\ row.pattern = cell[1] /\ row.seed = cell[2]
         /\ row.capacities = cell[3] /\ row.strategies = cell[4]
BY DEF CellRow, ExperimentRow

IsQuadruple(cell) == cell = <<cell[1], cell[2], cell[3], cell[4]>>

\* Different measurements have different rows.
LEMMA RowsDiffer ==
  ASSUME NEW arguments, NEW trace, NEW cell, IsQuadruple(cell), NEW other, IsQuadruple(other),
         CellRow(arguments, trace, cell) = CellRow(arguments, trace, other)
  PROVE  cell = other
<1>1. /\ cell[1] = other[1] /\ cell[2] = other[2]
      /\ cell[3] = other[3] /\ cell[4] = other[4]
  BY RowFields
<1>. QED
  BY <1>1 DEF IsQuadruple

\* What the iterations of a loop append, all on its own.
EachHasRows(lists, v, U, arguments, trace, boxes) ==
  \A a \in ToSet(v) : AreRows(lists[a], U, arguments, trace, boxes[a])

DisjointBoxes(v, boxes) ==
  \A a, b \in ToSet(v) : /\ \A cell \in boxes[a] : IsQuadruple(cell)
                         /\ a # b => boxes[a] \cap boxes[b] = {}

LoopOver(lists, v) == FlattenSeq([i \in DOMAIN v |-> lists[v[i]]])

BoxesOver(boxes, v) == UNION {boxes[a] : a \in ToSet(v)}

LEMMA LoopRows ==
  ASSUME NEW arguments, NEW trace, NEW U, NEW A, NEW v \in Seq(A), IsInjective(v),
         NEW lists \in [A -> Seq(U)], NEW boxes, NEW all,
         all = LoopOver(lists, v),
         EachHasRows(lists, v, U, arguments, trace, boxes),
         DisjointBoxes(v, boxes)
  PROVE  AreRows(all, U, arguments, trace, BoxesOver(boxes, v))
<1>1. IsCombined(all, U, lists, v)
  BY CombinedItems DEF LoopOver
<1>2. all \in Seq(U)
  BY <1>1 DEF IsCombined
<1>3. ASSUME NEW row \in ToSet(all)
      PROVE  \E cell \in UNION {boxes[a] : a \in ToSet(v)} : row = CellRow(arguments, trace, cell)
  <2>1. PICK a \in ToSet(v) : row \in ToSet(lists[a])
    BY <1>1 DEF IsCombined
  <2>2. PICK cell \in boxes[a] : row = CellRow(arguments, trace, cell)
    BY <2>1 DEF EachHasRows, AreRows
  <2>. QED
    BY <2>2
<1>4. ASSUME NEW cell \in UNION {boxes[a] : a \in ToSet(v)}
      PROVE  CellRow(arguments, trace, cell) \in ToSet(all)
  <2>1. PICK a \in ToSet(v) : cell \in boxes[a]
    OBVIOUS
  <2>2. CellRow(arguments, trace, cell) \in ToSet(lists[a])
    BY <2>1 DEF EachHasRows, AreRows
  <2>. QED
    BY <1>1, <2>2 DEF IsCombined
<1>5. ASSUME NEW a \in ToSet(v), NEW b \in ToSet(v), a # b
      PROVE  ToSet(lists[a]) \cap ToSet(lists[b]) = {}
  <2>. SUFFICES ASSUME NEW row \in ToSet(lists[a]), row \in ToSet(lists[b]) PROVE FALSE
    OBVIOUS
  <2>1. PICK cell \in boxes[a] : row = CellRow(arguments, trace, cell)
    BY DEF EachHasRows, AreRows
  <2>2. PICK other \in boxes[b] : row = CellRow(arguments, trace, other)
    BY DEF EachHasRows, AreRows
  <2>3. IsQuadruple(cell) /\ IsQuadruple(other)
    BY DEF DisjointBoxes
  <2>4. CellRow(arguments, trace, cell) = CellRow(arguments, trace, other)
    BY <2>1, <2>2
  <2>5. cell = other
    BY <2>3, <2>4, RowsDiffer
  <2>. QED
    BY <1>5, <2>5 DEF DisjointBoxes
<1>6. \A a \in ToSet(v) : IsInjective(lists[a])
  BY DEF EachHasRows, AreRows
<1>7. IsInjective(all)
  BY <1>1, <1>5, <1>6 DEF IsCombined
<1>. QED
  BY <1>2, <1>3, <1>4, <1>7 DEF AreRows, BoxesOver

\* The innermost loop: the rows of a layout, one for each choice of strategies.
LEMMA ChoiceRows ==
  ASSUME NEW arguments, NEW trace, NEW U, NEW pattern, NEW seed,
         NEW k \in Nat, NEW capacities \in TuplesOf(k), NEW list,
         \A chosen \in Seq(STRING) : CellRow(arguments, trace, <<pattern, seed, capacities, chosen>>) \in U,
         NEW tried, tried = Among(Products(CACHE_STRATEGIES, Len(capacities)), ValidChoices(capacities)),
         list = [i \in DOMAIN tried |->
                   CellRow(arguments, trace, <<pattern, seed, capacities, tried[i]>>)]
  PROVE  AreRows(list, U, arguments, trace, Cells({pattern}, {seed}, {capacities}))
<1>1. Len(capacities) = k /\ k \in Nat
  BY DEF TuplesOf
<1>2. CACHE_STRATEGIES \in Seq(STRING) /\ IsInjective(CACHE_STRATEGIES)
  BY StrategiesAssumption
<1>3. PICK all \in Seq(Seq(STRING)) :
        /\ all = Products(CACHE_STRATEGIES, k) /\ IsProduct(all, STRING, CACHE_STRATEGIES, k)
  BY <1>1, <1>2, ProductsAre DEF IsProduct
<1>4. tried = Among(all, ValidChoices(capacities))
  BY <1>1, <1>3
<1>5. /\ tried \in Seq(Seq(STRING))
      /\ ToSet(tried) = ToSet(all) \cap ValidChoices(capacities)
      /\ IsInjective(all) => IsInjective(tried)
  BY <1>4, AmongType, AmongItems
<1>6. IsInjective(tried)
  BY <1>2, <1>3, <1>5 DEF IsProduct
<1>7. \A chosen \in ValidChoices(capacities) : chosen \in ToSet(all)
  BY <1>1, <1>3 DEF IsProduct, ValidChoices
<1>8. ToSet(tried) = ValidChoices(capacities)
  BY <1>5, <1>7
<1>9. ToSet(tried) \subseteq Seq(STRING)
  <2>1. DOMAIN tried = 1..Len(tried)
    BY <1>5
  <2>. QED
    BY <1>5, <2>1 DEF ToSet
<1>10. PICK f : f = [chosen \in Seq(STRING) |->
                       CellRow(arguments, trace, <<pattern, seed, capacities, chosen>>)]
  OBVIOUS
<1>11. f \in [Seq(STRING) -> U]
  BY <1>10
<1>12. \A i \in DOMAIN tried : tried[i] \in Seq(STRING)
  BY <1>5
<1>13. list = [i \in DOMAIN tried |-> f[tried[i]]]
  BY <1>10, <1>12
<1>14. IsMapped(list, U, f, tried)
  BY <1>5, <1>11, <1>13, MappedItems
<1>15. \A chosen \in Seq(STRING) : f[chosen].strategies = chosen
  BY <1>10, RowFields
<1>16. list \in Seq(U) /\ IsInjective(list)
  BY <1>6, <1>9, <1>14, <1>15 DEF IsMapped
<1>17. Cells({pattern}, {seed}, {capacities}) =
         {<<pattern, seed, capacities, chosen>> : chosen \in ValidChoices(capacities)}
  BY <1>8, <1>9 DEF Cells
<1>18. ASSUME NEW row \in ToSet(list)
       PROVE  \E cell \in Cells({pattern}, {seed}, {capacities}) :
                row = CellRow(arguments, trace, cell)
  <2>1. PICK chosen \in ValidChoices(capacities) : row = f[chosen]
    BY <1>8, <1>14 DEF IsMapped
  <2>2. chosen \in Seq(STRING)
    BY <1>8, <1>9
  <2>. QED
    BY <1>10, <1>17, <2>1, <2>2
<1>19. ASSUME NEW cell \in Cells({pattern}, {seed}, {capacities})
       PROVE  CellRow(arguments, trace, cell) \in ToSet(list)
  <2>1. PICK chosen \in ValidChoices(capacities) : cell = <<pattern, seed, capacities, chosen>>
    BY <1>17
  <2>2. chosen \in Seq(STRING) /\ chosen \in ToSet(tried)
    BY <1>8, <1>9
  <2>3. f[chosen] \in ToSet(list)
    BY <1>14, <2>2 DEF IsMapped
  <2>. QED
    BY <1>10, <2>1, <2>2, <2>3
<1>. QED
  BY <1>16, <1>18, <1>19 DEF AreRows

\* The loops of run_experiment, from the inside.
ChoiceList(arguments, trace, pattern, seed, capacities) ==
  LET tried == Among(Products(CACHE_STRATEGIES, Len(capacities)), ValidChoices(capacities))
  IN [i \in DOMAIN tried |->
        ExperimentRow(pattern, seed, capacities, tried[i],
                      RequestsFor(arguments, pattern, seed, trace))]

SeedList(mode, arguments, trace, pattern, seed) ==
  LET layouts == SortedTuples(Layouts(mode, arguments))
  IN FlattenSeq([i \in DOMAIN layouts |->
                   ChoiceList(arguments, trace, pattern, seed, layouts[i])])

PatternList(mode, arguments, trace, pattern) ==
  FlattenSeq([i \in DOMAIN SeedsOf(arguments) |->
                SeedList(mode, arguments, trace, pattern, SeedsOf(arguments)[i])])

LEMMA RowsForLoops ==
  ASSUME NEW mode, NEW arguments, NEW trace
  PROVE  RowsFor(mode, arguments, trace) =
           FlattenSeq([i \in DOMAIN PatternsOf(mode, arguments) |->
                         PatternList(mode, arguments, trace, PatternsOf(mode, arguments)[i])])
BY DEF RowsFor, Combined, PatternList, SeedList, ChoiceList

PatternNames == STRING \cup {"user_trace"}

\* All rows that there could be.
RowType(mode, arguments, trace) ==
  {CellRow(arguments, trace, cell) :
     cell \in PatternNames \X Int \X TuplesOf(LevelsOf(mode)) \X Seq(STRING)}

LEMMA ChoiceListRows ==
  ASSUME NEW mode \in Modes, NEW arguments, NEW trace,
         NEW pattern \in PatternNames, NEW seed \in Int, NEW capacities \in TuplesOf(LevelsOf(mode))
  PROVE  AreRows(ChoiceList(arguments, trace, pattern, seed, capacities),
                 RowType(mode, arguments, trace), arguments, trace,
                 Cells({pattern}, {seed}, {capacities}))
<1>1. PICK U, k, tried, list :
        /\ U = RowType(mode, arguments, trace) /\ k = LevelsOf(mode)
        /\ tried = Among(Products(CACHE_STRATEGIES, Len(capacities)), ValidChoices(capacities))
        /\ list = ChoiceList(arguments, trace, pattern, seed, capacities)
  OBVIOUS
<1>2. k \in Nat /\ capacities \in TuplesOf(k)
  BY <1>1 DEF LevelsOf
<1>3. ASSUME NEW chosen \in Seq(STRING)
      PROVE  CellRow(arguments, trace, <<pattern, seed, capacities, chosen>>) \in U
  BY <1>1 DEF RowType
<1>4. \A chosen : CellRow(arguments, trace, <<pattern, seed, capacities, chosen>>) =
                    ExperimentRow(pattern, seed, capacities, chosen,
                                  RequestsFor(arguments, pattern, seed, trace))
  BY DEF CellRow
<1>5. list = [i \in DOMAIN tried |->
                ExperimentRow(pattern, seed, capacities, tried[i],
                              RequestsFor(arguments, pattern, seed, trace))]
  BY <1>1 DEF ChoiceList
<1>6. list = [i \in DOMAIN tried |->
                CellRow(arguments, trace, <<pattern, seed, capacities, tried[i]>>)]
  BY <1>4, <1>5
<1>7. AreRows(list, U, arguments, trace, Cells({pattern}, {seed}, {capacities}))
  BY <1>1, <1>2, <1>3, <1>6, ChoiceRows, ZenonT(40)
<1>. QED
  BY <1>1, <1>7

LEMMA SeedListRows ==
  ASSUME NEW mode \in Modes, NEW arguments, Admitted(arguments), NEW trace,
         NEW pattern \in PatternNames, NEW seed \in Int
  PROVE  AreRows(SeedList(mode, arguments, trace, pattern, seed),
                 RowType(mode, arguments, trace), arguments, trace,
                 Cells({pattern}, {seed}, Layouts(mode, arguments)))
<1>1. PICK U, T, L, v, all :
        /\ U = RowType(mode, arguments, trace) /\ T = TuplesOf(LevelsOf(mode))
        /\ L = Layouts(mode, arguments) /\ v = SortedTuples(L)
        /\ all = SeedList(mode, arguments, trace, pattern, seed)
  OBVIOUS
<1>2. v \in Seq(L) /\ ToSet(v) = L /\ IsInjective(v) /\ L \subseteq T
  <2>1. IsFiniteSet(L) /\ L \subseteq TuplesOf(LevelsOf(mode)) /\ LevelsOf(mode) \in Nat
    BY <1>1, LayoutsFacts DEF LevelsOf
  <2>. QED
    BY <1>1, <2>1, SortedFacts
<1>3. PICK lists : lists = [c \in L |-> ChoiceList(arguments, trace, pattern, seed, c)]
  OBVIOUS
<1>4. PICK boxes : boxes = [c \in L |-> Cells({pattern}, {seed}, {c})]
  OBVIOUS
<1>5. ASSUME NEW c \in L PROVE AreRows(lists[c], U, arguments, trace, boxes[c])
  <2>1. c \in TuplesOf(LevelsOf(mode))
    BY <1>1, <1>2
  <2>. QED
    BY <1>1, <1>3, <1>4, <2>1, ChoiceListRows
<1>6. lists \in [L -> Seq(U)]
  BY <1>3, <1>5 DEF AreRows
<1>7. EachHasRows(lists, v, U, arguments, trace, boxes)
  BY <1>2, <1>5 DEF EachHasRows
<1>8. DisjointBoxes(v, boxes)
  <2>1. \A c \in L : \A cell \in boxes[c] :
          IsQuadruple(cell) /\ cell[3] = c
    BY <1>4 DEF Cells, IsQuadruple
  <2>. QED
    BY <1>2, <2>1 DEF DisjointBoxes
<1>9. all = LoopOver(lists, v)
  <2>1. \A i \in DOMAIN v : v[i] \in L
    BY <1>2
  <2>2. \A i \in DOMAIN v : lists[v[i]] = ChoiceList(arguments, trace, pattern, seed, v[i])
    BY <1>3, <2>1
  <2>3. all = FlattenSeq([i \in DOMAIN v |-> ChoiceList(arguments, trace, pattern, seed, v[i])])
    BY <1>1 DEF SeedList
  <2>. QED
    BY <2>2, <2>3 DEF LoopOver
<1>10. BoxesOver(boxes, v) = Cells({pattern}, {seed}, L)
  <2>1. ASSUME NEW cell \in UNION {boxes[c] : c \in L} PROVE cell \in Cells({pattern}, {seed}, L)
    <3>1. PICK c \in L : cell \in boxes[c]
      BY <2>1
    <3>. QED
      BY <1>4, <3>1 DEF Cells
  <2>2. ASSUME NEW cell \in Cells({pattern}, {seed}, L) PROVE cell \in UNION {boxes[c] : c \in L}
    <3>1. cell[3] \in L /\ cell \in Cells({pattern}, {seed}, {cell[3]})
      BY DEF Cells
    <3>. QED
      BY <1>4, <3>1
  <2>. QED
    BY <1>2, <2>1, <2>2 DEF BoxesOver
<1>11. AreRows(all, U, arguments, trace, BoxesOver(boxes, v))
  BY <1>2, <1>6, <1>7, <1>8, <1>9, LoopRows
<1>. QED
  BY <1>1, <1>10, <1>11

LEMMA PatternListRows ==
  ASSUME NEW mode \in Modes, NEW arguments, Admitted(arguments), NEW trace,
         NEW pattern \in PatternNames
  PROVE  AreRows(PatternList(mode, arguments, trace, pattern),
                 RowType(mode, arguments, trace), arguments, trace,
                 Cells({pattern}, ToSet(SeedsOf(arguments)), Layouts(mode, arguments)))
<1>1. PICK U, L, v, S, all :
        /\ U = RowType(mode, arguments, trace) /\ L = Layouts(mode, arguments)
        /\ v = SeedsOf(arguments) /\ S = ToSet(v)
        /\ all = PatternList(mode, arguments, trace, pattern)
  OBVIOUS
<1>2. v \in Seq(Int) /\ IsInjective(v)
  BY <1>1, SeedsFacts
<1>3. PICK lists : lists = [s \in Int |-> SeedList(mode, arguments, trace, pattern, s)]
  OBVIOUS
<1>4. PICK boxes : boxes = [s \in Int |-> Cells({pattern}, {s}, L)]
  OBVIOUS
<1>5. ASSUME NEW s \in Int PROVE AreRows(lists[s], U, arguments, trace, boxes[s])
  BY <1>1, <1>3, <1>4, SeedListRows
<1>6. lists \in [Int -> Seq(U)]
  BY <1>3, <1>5 DEF AreRows
<1>7. S \subseteq Int /\ DOMAIN v = 1..Len(v)
  BY <1>1, <1>2 DEF ToSet
<1>8. EachHasRows(lists, v, U, arguments, trace, boxes)
  BY <1>1, <1>5, <1>7 DEF EachHasRows
<1>9. DisjointBoxes(v, boxes)
  <2>1. \A s \in Int : \A cell \in boxes[s] :
          IsQuadruple(cell) /\ cell[2] = s
    BY <1>4 DEF Cells, IsQuadruple
  <2>. QED
    BY <1>1, <1>7, <2>1 DEF DisjointBoxes
<1>10. all = LoopOver(lists, v)
  <2>1. \A i \in DOMAIN v : v[i] \in Int
    BY <1>2
  <2>2. \A i \in DOMAIN v : lists[v[i]] = SeedList(mode, arguments, trace, pattern, v[i])
    BY <1>3, <2>1
  <2>3. all = FlattenSeq([i \in DOMAIN v |-> SeedList(mode, arguments, trace, pattern, v[i])])
    BY <1>1 DEF PatternList
  <2>. QED
    BY <2>2, <2>3 DEF LoopOver
<1>11. BoxesOver(boxes, v) = Cells({pattern}, S, L)
  <2>1. ASSUME NEW cell \in UNION {boxes[s] : s \in S} PROVE cell \in Cells({pattern}, S, L)
    <3>1. PICK s \in S : cell \in boxes[s]
      BY <2>1
    <3>. QED
      BY <1>4, <1>7, <3>1 DEF Cells
  <2>2. ASSUME NEW cell \in Cells({pattern}, S, L) PROVE cell \in UNION {boxes[s] : s \in S}
    <3>1. cell[2] \in S /\ cell \in Cells({pattern}, {cell[2]}, L)
      BY DEF Cells
    <3>. QED
      BY <1>4, <1>7, <3>1
  <2>. QED
    BY <1>1, <2>1, <2>2 DEF BoxesOver
<1>12. AreRows(all, U, arguments, trace, BoxesOver(boxes, v))
  BY <1>2, <1>6, <1>8, <1>9, <1>10, LoopRows
<1>. QED
  BY <1>1, <1>11, <1>12

\* The rows of run_experiment are those of its measurements, each once.
LEMMA AllRows ==
  ASSUME NEW mode \in Modes, NEW arguments, Admitted(arguments), NEW trace
  PROVE  AreRows(RowsFor(mode, arguments, trace), RowType(mode, arguments, trace),
                 arguments, trace,
                 Cells(ToSet(PatternsOf(mode, arguments)), ToSet(SeedsOf(arguments)),
                       Layouts(mode, arguments)))
<1>1. PICK U, L, v, S, P, all :
        /\ U = RowType(mode, arguments, trace) /\ L = Layouts(mode, arguments)
        /\ v = PatternsOf(mode, arguments) /\ S = ToSet(SeedsOf(arguments)) /\ P = ToSet(v)
        /\ all = RowsFor(mode, arguments, trace)
  OBVIOUS
<1>2. v \in Seq(PatternNames) /\ IsInjective(v)
  BY <1>1, PatternsFacts DEF PatternNames
<1>3. PICK lists : lists = [p \in PatternNames |-> PatternList(mode, arguments, trace, p)]
  OBVIOUS
<1>4. PICK boxes : boxes = [p \in PatternNames |-> Cells({p}, S, L)]
  OBVIOUS
<1>5. ASSUME NEW p \in PatternNames PROVE AreRows(lists[p], U, arguments, trace, boxes[p])
  BY <1>1, <1>3, <1>4, PatternListRows
<1>6. lists \in [PatternNames -> Seq(U)]
  BY <1>3, <1>5 DEF AreRows
<1>7. P \subseteq PatternNames /\ DOMAIN v = 1..Len(v)
  BY <1>1, <1>2 DEF ToSet
<1>8. EachHasRows(lists, v, U, arguments, trace, boxes)
  BY <1>1, <1>5, <1>7 DEF EachHasRows
<1>9. DisjointBoxes(v, boxes)
  <2>1. \A p \in PatternNames : \A cell \in boxes[p] :
          IsQuadruple(cell) /\ cell[1] = p
    BY <1>4 DEF Cells, IsQuadruple
  <2>. QED
    BY <1>1, <1>7, <2>1 DEF DisjointBoxes
<1>10. all = LoopOver(lists, v)
  <2>1. \A i \in DOMAIN v : v[i] \in PatternNames
    BY <1>2
  <2>2. \A i \in DOMAIN v : lists[v[i]] = PatternList(mode, arguments, trace, v[i])
    BY <1>3, <2>1
  <2>3. all = FlattenSeq([i \in DOMAIN v |-> PatternList(mode, arguments, trace, v[i])])
    BY <1>1, RowsForLoops
  <2>. QED
    BY <2>2, <2>3 DEF LoopOver
<1>11. BoxesOver(boxes, v) = Cells(P, S, L)
  <2>1. ASSUME NEW cell \in UNION {boxes[p] : p \in P} PROVE cell \in Cells(P, S, L)
    <3>1. PICK p \in P : cell \in boxes[p]
      BY <2>1
    <3>. QED
      BY <1>4, <1>7, <3>1 DEF Cells
  <2>2. ASSUME NEW cell \in Cells(P, S, L) PROVE cell \in UNION {boxes[p] : p \in P}
    <3>1. cell[1] \in P /\ cell \in Cells({cell[1]}, S, L)
      BY DEF Cells
    <3>. QED
      BY <1>4, <1>7, <3>1
  <2>. QED
    BY <1>1, <2>1, <2>2 DEF BoxesOver
<1>12. AreRows(all, U, arguments, trace, BoxesOver(boxes, v))
  BY <1>2, <1>6, <1>8, <1>9, <1>10, LoopRows
<1>. QED
  BY <1>1, <1>11, <1>12

\* The run of a configuration with one of the seeds.
SeedCell(configuration, seed) ==
  <<configuration[1], seed, configuration[2], configuration[3]>>

SeedRow(arguments, trace, configuration, seed) ==
  CellRow(arguments, trace, SeedCell(configuration, seed))

GroupOf(rows, configuration) ==
  Among(rows, {row \in ToSet(rows) : Configuration(row) = configuration})

\* The rows of a configuration are those of its runs, one for each seed.
IsGroup(group, U, arguments, trace, configuration, cells, S) ==
  /\ group \in Seq(U) /\ IsInjective(group)
  /\ \A seed \in S : SeedCell(configuration, seed) \in cells
  /\ \A seed \in S : SeedRow(arguments, trace, configuration, seed) \in ToSet(group)
  /\ \A row \in ToSet(group) :
       \E seed \in S : row = SeedRow(arguments, trace, configuration, seed)

LEMMA CellConfiguration ==
  ASSUME NEW arguments, NEW trace, NEW cell
  PROVE  Configuration(CellRow(arguments, trace, cell)) = <<cell[1], cell[3], cell[4]>>
BY RowFields DEF Configuration

LEMMA GroupRows ==
  ASSUME NEW U, NEW rows, NEW arguments, NEW trace, NEW P, NEW S, NEW L,
         NEW cells, cells = Cells(P, S, L), AreRows(rows, U, arguments, trace, cells),
         NEW configuration,
         configuration \in {Configuration(rows[i]) : i \in DOMAIN rows}
  PROVE  IsGroup(GroupOf(rows, configuration), U, arguments, trace, configuration, cells, S)
<1>1. rows \in Seq(U) /\ IsInjective(rows)
  BY DEF AreRows
<1>2. PICK i \in DOMAIN rows : configuration = Configuration(rows[i])
  OBVIOUS
<1>3. rows[i] \in ToSet(rows)
  BY DEF ToSet
<1>4. PICK cell \in cells : rows[i] = CellRow(arguments, trace, cell)
  BY <1>3 DEF AreRows
<1>5. configuration = <<cell[1], cell[3], cell[4]>>
  BY <1>2, <1>4, CellConfiguration
<1>6. ASSUME NEW seed \in S PROVE SeedCell(configuration, seed) \in cells
  <2>1. SeedCell(configuration, seed) = <<cell[1], seed, cell[3], cell[4]>>
    BY <1>5 DEF SeedCell
  <2>2. /\ cell[1] \in P /\ cell[3] \in L /\ cell[4] \in Seq(STRING)
        /\ cell[4] \in ValidChoices(cell[3])
    BY <1>4 DEF Cells
  <2>. QED
    BY <2>1, <2>2 DEF Cells
<1>7. PICK T : T = {row \in ToSet(rows) : Configuration(row) = configuration}
  OBVIOUS
<1>8. PICK group : group = Among(rows, T) /\ group = GroupOf(rows, configuration)
  BY <1>7 DEF GroupOf
<1>9. group \in Seq(U) /\ IsInjective(group) /\ ToSet(group) = ToSet(rows) \cap T
  <2>1. Among(rows, T) \in Seq(U)
    BY <1>1, AmongType
  <2>2. ToSet(Among(rows, T)) = ToSet(rows) \cap T
    BY <1>1, AmongItems
  <2>3. IsInjective(Among(rows, T))
    BY <1>1, AmongItems
  <2>. QED
    BY <1>8, <2>1, <2>2, <2>3
<1>10. ASSUME NEW seed \in S
       PROVE  SeedRow(arguments, trace, configuration, seed) \in ToSet(group)
  <2>1. PICK row : row = SeedRow(arguments, trace, configuration, seed)
    OBVIOUS
  <2>2. row \in ToSet(rows)
    BY <1>6, <2>1 DEF AreRows, SeedRow
  <2>3. SeedCell(configuration, seed)[1] = configuration[1]
        /\ SeedCell(configuration, seed)[3] = configuration[2]
        /\ SeedCell(configuration, seed)[4] = configuration[3]
    BY DEF SeedCell
  <2>4. Configuration(row) = configuration
    BY <1>5, <2>1, <2>3, CellConfiguration DEF SeedRow
  <2>. QED
    BY <1>7, <1>9, <2>1, <2>2, <2>4
<1>11. ASSUME NEW row \in ToSet(group)
       PROVE  \E seed \in S : row = SeedRow(arguments, trace, configuration, seed)
  <2>1. row \in ToSet(rows) /\ Configuration(row) = configuration
    BY <1>7, <1>9
  <2>2. PICK other \in cells : row = CellRow(arguments, trace, other)
    BY <2>1 DEF AreRows
  <2>3. configuration = <<other[1], other[3], other[4]>>
    BY <2>1, <2>2, CellConfiguration
  <2>4. other[2] \in S /\ IsQuadruple(other)
    BY <2>2 DEF Cells, IsQuadruple
  <2>5. other = SeedCell(configuration, other[2])
    BY <2>3, <2>4 DEF SeedCell, IsQuadruple
  <2>. QED
    BY <2>2, <2>4, <2>5 DEF SeedRow
<1>. QED
  BY <1>6, <1>8, <1>9, <1>10, <1>11 DEF IsGroup

\* Runs with different seeds have different requests.
LEMMA MissesDiffer ==
  ASSUME NEW arguments, NEW trace, NEW configuration,
         NEW seed \in ToSet(SeedsOf(arguments)), NEW other \in ToSet(SeedsOf(arguments)),
         SeedRow(arguments, trace, configuration, seed).misses
           = SeedRow(arguments, trace, configuration, other).misses
  PROVE  seed = other
<1>1. CASE arguments.trace
  <2>1. ToSet(<<0>>) = {0}
    BY DEF ToSet
  <2>. QED
    BY <1>1, <2>1 DEF SeedsOf
<1>2. CASE ~ arguments.trace
  <2>1. ASSUME NEW s
        PROVE  SeedRow(arguments, trace, configuration, s).misses.requests =
                 <<configuration[1], s, arguments.requests, arguments.scale>>
    BY <1>2 DEF SeedRow, SeedCell, CellRow, ExperimentRow, Measurement, RequestsFor
  <2>2. <<configuration[1], seed, arguments.requests, arguments.scale>>
          = <<configuration[1], other, arguments.requests, arguments.scale>>
    BY <2>1
  <2>. QED
    BY <2>2
<1>. QED
  BY <1>1, <1>2

LEMMA SeedsFinite ==
  ASSUME NEW arguments, Admitted(arguments)
  PROVE  IsFiniteSet(ToSet(SeedsOf(arguments)))
BY SeedsFacts, InjectiveCardinality

\* summarize has one run per seed, and they are different.
LEMMA GroupCounts ==
  ASSUME NEW U, NEW group, NEW arguments, Admitted(arguments), NEW trace, NEW configuration,
         NEW cells, NEW S, S = ToSet(SeedsOf(arguments)),
         IsGroup(group, U, arguments, trace, configuration, cells, S)
  PROVE  /\ Len(group) = Cardinality(S)
         /\ Cardinality({row.misses : row \in ToSet(group)}) = Cardinality(S)
<1>1. IsFiniteSet(S)
  BY SeedsFinite
<1>2. PICK row : row = [seed \in S |-> SeedRow(arguments, trace, configuration, seed)]
  OBVIOUS
<1>3. ASSUME NEW seed \in S, NEW other \in S, row[seed].misses = row[other].misses
      PROVE  seed = other
  BY <1>2, <1>3, MissesDiffer
<1>4. row \in [S -> ToSet(group)] /\ \A r \in ToSet(group) : \E seed \in S : r = row[seed]
  BY <1>2 DEF IsGroup
<1>5. Cardinality(ToSet(group)) = Cardinality(S)
  BY <1>1, <1>3, <1>4, ImageCardinality
<1>6. Len(group) = Cardinality(S)
  BY <1>5, InjectiveCardinality DEF IsGroup
<1>7. PICK T : T = {r.misses : r \in ToSet(group)}
  OBVIOUS
<1>8. PICK missed : missed = [seed \in S |-> row[seed].misses]
  OBVIOUS
<1>9. missed \in [S -> T] /\ \A t \in T : \E seed \in S : t = missed[seed]
  BY <1>4, <1>7, <1>8
<1>10. \A seed, other \in S : missed[seed] = missed[other] => seed = other
  BY <1>3, <1>8
<1>11. Cardinality(T) = Cardinality(S)
  BY <1>1, <1>9, <1>10, ImageCardinality
<1>. QED
  BY <1>6, <1>7, <1>11

LEMMA ChoicesAreLists ==
  ASSUME NEW k \in Nat, NEW capacities \in TuplesOf(k)
  PROVE  ValidChoices(capacities) \subseteq Seq(STRING)
<1>1. Len(capacities) = k
  BY DEF TuplesOf
<1>2. ToSet(CACHE_STRATEGIES) \subseteq STRING
  <2>1. CACHE_STRATEGIES \in Seq(STRING)
    BY StrategiesAssumption
  <2>2. DOMAIN CACHE_STRATEGIES = 1..Len(CACHE_STRATEGIES)
    BY <2>1
  <2>. QED
    BY <2>1, <2>2 DEF ToSet
<1>3. ASSUME NEW chosen \in ValidChoices(capacities) PROVE chosen \in Seq(STRING)
  <2>1. chosen \in [1..k -> STRING]
    BY <1>1, <1>2 DEF ValidChoices
  <2>. QED
    BY <2>1
<1>. QED
  BY <1>3

LEMMA ManifestFields ==
  ASSUME NEW mode, NEW arguments, NEW trace, NEW hash,
         NEW manifest, manifest = MetadataOf(mode, arguments, trace, hash)
  PROVE  /\ manifest.seeds = SeedsOf(arguments)
         /\ manifest.layouts = Layouts(mode, arguments)
         /\ manifest.patterns = PatternsOf(mode, arguments)
         /\ manifest.plots = arguments.plots
         /\ \A pattern \in ToSet(PatternsOf(mode, arguments)), seed \in ToSet(SeedsOf(arguments)) :
              manifest.trace_hashes[<<pattern, seed>>] =
                RequestsFor(arguments, pattern, seed, trace)
<1>1. PICK P, S, hashes :
        /\ P = ToSet(PatternsOf(mode, arguments)) /\ S = ToSet(SeedsOf(arguments))
        /\ hashes = [run \in P \X S |-> RequestsFor(arguments, run[1], run[2], trace)]
  OBVIOUS
<1>2. manifest.trace_hashes = hashes
  BY <1>1 DEF MetadataOf
<1>3. \A pattern \in P, seed \in S :
        hashes[<<pattern, seed>>] = RequestsFor(arguments, pattern, seed, trace)
  BY <1>1
<1>. QED
  BY <1>1, <1>2, <1>3 DEF MetadataOf

LEMMA PromisedCells ==
  ASSUME NEW mode \in Modes, NEW arguments, Admitted(arguments), NEW trace, NEW hash,
         NEW manifest, manifest = MetadataOf(mode, arguments, trace, hash),
         NEW cells, cells = Cells(ToSet(PatternsOf(mode, arguments)), ToSet(SeedsOf(arguments)),
                                  Layouts(mode, arguments))
  PROVE  Promised(manifest) = {CellRow(arguments, trace, cell) : cell \in cells}
<1>1. PICK P, S, L, all :
        /\ P = ToSet(PatternsOf(mode, arguments)) /\ S = ToSet(SeedsOf(arguments))
        /\ L = Layouts(mode, arguments)
        /\ all = {CellRow(arguments, trace, cell) : cell \in cells}
  OBVIOUS
<1>2. /\ ToSet(manifest.patterns) = P /\ ToSet(manifest.seeds) = S /\ manifest.layouts = L
      /\ \A pattern \in P, seed \in S :
           manifest.trace_hashes[<<pattern, seed>>] = RequestsFor(arguments, pattern, seed, trace)
  BY <1>1, ManifestFields
<1>3. \A capacities \in L : ValidChoices(capacities) \subseteq Seq(STRING)
  <2>1. L \subseteq TuplesOf(LevelsOf(mode)) /\ LevelsOf(mode) \in Nat
    BY <1>1, LayoutsFacts DEF LevelsOf
  <2>. QED
    BY <2>1, ChoicesAreLists
<1>4. ASSUME NEW pattern \in P, NEW seed \in S, NEW capacities \in L,
             NEW strategies \in ValidChoices(capacities)
      PROVE  /\ <<pattern, seed, capacities, strategies>> \in cells
             /\ ExperimentRow(pattern, seed, capacities, strategies,
                              manifest.trace_hashes[<<pattern, seed>>])
                  = CellRow(arguments, trace, <<pattern, seed, capacities, strategies>>)
  BY <1>1, <1>2, <1>3 DEF Cells, CellRow
<1>5. ASSUME NEW row \in Promised(manifest) PROVE row \in all
  <2>1. PICK capacities \in L : row \in PromisedAt(manifest, capacities)
    BY <1>2 DEF Promised
  <2>2. PICK pattern \in P, seed \in S, strategies \in ValidChoices(capacities) :
          row = ExperimentRow(pattern, seed, capacities, strategies,
                              manifest.trace_hashes[<<pattern, seed>>])
    <3>1. PICK Q, T : Q = ToSet(manifest.patterns) /\ T = ToSet(manifest.seeds)
      OBVIOUS
    <3>2. PICK pattern \in Q, seed \in T, strategies \in ValidChoices(capacities) :
            row = ExperimentRow(pattern, seed, capacities, strategies,
                                manifest.trace_hashes[<<pattern, seed>>])
      BY <2>1, <3>1 DEF PromisedAt
    <3>. QED
      BY <1>2, <3>1, <3>2
  <2>3. /\ <<pattern, seed, capacities, strategies>> \in cells
        /\ row = CellRow(arguments, trace, <<pattern, seed, capacities, strategies>>)
    BY <1>4, <2>2
  <2>. QED
    BY <1>1, <2>3
<1>6. ASSUME NEW row \in all PROVE row \in Promised(manifest)
  <2>1. PICK cell \in cells : row = CellRow(arguments, trace, cell)
    BY <1>1
  <2>2. /\ cell[1] \in P /\ cell[2] \in S /\ cell[3] \in L /\ cell[4] \in ValidChoices(cell[3])
        /\ cell = <<cell[1], cell[2], cell[3], cell[4]>>
    BY <1>1 DEF Cells
  <2>3. row = ExperimentRow(cell[1], cell[2], cell[3], cell[4],
                            manifest.trace_hashes[<<cell[1], cell[2]>>])
    BY <1>4, <2>1, <2>2
  <2>4. row \in PromisedAt(manifest, cell[3])
    BY <1>2, <2>2, <2>3 DEF PromisedAt
  <2>. QED
    BY <1>2, <2>2, <2>4 DEF Promised
<1>. QED
  BY <1>1, <1>5, <1>6

\* raw.csv has every measurement that the manifest promises, once.
LEMMA RawFacts ==
  ASSUME NEW mode \in Modes, NEW arguments, Admitted(arguments), NEW trace, NEW hash,
         NEW manifest, manifest = MetadataOf(mode, arguments, trace, hash)
  PROVE  RawIsTrue(RowsFor(mode, arguments, trace), manifest)
<1>1. PICK U, cells, rows :
        /\ U = RowType(mode, arguments, trace) /\ rows = RowsFor(mode, arguments, trace)
        /\ cells = Cells(ToSet(PatternsOf(mode, arguments)), ToSet(SeedsOf(arguments)),
                         Layouts(mode, arguments))
  OBVIOUS
<1>2. AreRows(rows, U, arguments, trace, cells)
  BY <1>1, AllRows
<1>3. Promised(manifest) = {CellRow(arguments, trace, cell) : cell \in cells}
  BY <1>1, PromisedCells
<1>4. ToSet(rows) = Promised(manifest)
  BY <1>2, <1>3 DEF AreRows
<1>5. Cardinality(ToSet(rows)) = Len(rows)
  BY <1>2, InjectiveCardinality DEF AreRows
<1>. QED
  BY <1>1, <1>4, <1>5 DEF RawIsTrue

\* Every mean is taken over one run per seed.
LEMMA SummaryFacts ==
  ASSUME NEW mode \in Modes, NEW arguments, Admitted(arguments), NEW trace, NEW hash,
         NEW manifest, manifest = MetadataOf(mode, arguments, trace, hash)
  PROVE  SummaryIsTrue(summarize(RowsFor(mode, arguments, trace)), manifest)
<1>1. PICK U, P, S, L, cells, rows, configurations :
        /\ U = RowType(mode, arguments, trace) /\ rows = RowsFor(mode, arguments, trace)
        /\ P = ToSet(PatternsOf(mode, arguments)) /\ S = ToSet(SeedsOf(arguments))
        /\ L = Layouts(mode, arguments) /\ cells = Cells(P, S, L)
        /\ configurations = {Configuration(rows[i]) : i \in DOMAIN rows}
  OBVIOUS
<1>2. AreRows(rows, U, arguments, trace, cells)
  BY <1>1, AllRows
<1>3. ToSet(manifest.seeds) = S
  BY <1>1, ManifestFields
<1>4. ASSUME NEW result \in summarize(rows)
      PROVE  result.runs = Cardinality(S) /\ Cardinality(result.misses) = Cardinality(S)
  <2>1. ByConfiguration(rows) = [c \in configurations |-> GroupOf(rows, c)]
    BY <1>1 DEF ByConfiguration, GroupOf
  <2>2. PICK groups : groups = ByConfiguration(rows)
    OBVIOUS
  <2>3. DOMAIN groups = configurations /\ \A c \in configurations : groups[c] = GroupOf(rows, c)
    BY <2>1, <2>2
  <2>4. PICK c \in configurations :
          result = [configuration |-> c, runs |-> Len(groups[c]),
                    misses |-> {row.misses : row \in ToSet(groups[c])},
                    references |-> {row.reference : row \in ToSet(groups[c])}]
    BY <2>2, <2>3 DEF summarize
  <2>5. PICK group : group = groups[c]
    OBVIOUS
  <2>6. IsGroup(group, U, arguments, trace, c, cells, S)
    BY <1>1, <1>2, <2>3, <2>5, GroupRows
  <2>7. /\ Len(group) = Cardinality(S)
        /\ Cardinality({row.misses : row \in ToSet(group)}) = Cardinality(S)
    BY <1>1, <2>6, GroupCounts
  <2>. QED
    BY <2>4, <2>5, <2>7
<1>. QED
  BY <1>1, <1>3, <1>4 DEF SummaryIsTrue

LEMMA LRUIsValid ==
  ASSUME NEW capacities \in TuplesOf(1), capacities[1] >= 1
  PROVE  <<"LRU">> \in ValidChoices(capacities) /\ <<"LRU">> \in Seq(STRING)
<1>1. Len(capacities) = 1
  BY DEF TuplesOf
<1>2. "LRU" \in ToSet(CACHE_STRATEGIES)
  BY StrategiesAssumption
<1>3. <<"LRU">> \in [1..1 -> ToSet(CACHE_STRATEGIES)]
  BY <1>2
<1>4. Len(<<"LRU">>) = 1 /\ DOMAIN <<"LRU">> = {1} /\ <<"LRU">>[1] = "LRU"
  OBVIOUS
<1>5. valid_strategies(<<"LRU">>, capacities)
  BY <1>1, <1>4 DEF valid_strategies
<1>6. <<"LRU">> \in ValidChoices(capacities)
  BY <1>1, <1>3, <1>5 DEF ValidChoices
<1>. QED
  BY <1>6, ChoicesAreLists

\* The run that paired_comparison finds for another.
LruOf(rows, row) ==
  rows[SelectLastInSeq(rows, LAMBDA other :
         other.strategies = <<"LRU">> /\ ComparedRun(other) = ComparedRun(row))]

LEMMA LruFound ==
  ASSUME NEW U, NEW rows \in Seq(U), NEW row,
         \E other \in ToSet(rows) :
           other.strategies = <<"LRU">> /\ ComparedRun(other) = ComparedRun(row)
  PROVE  /\ LruOf(rows, row) \in ToSet(rows)
         /\ LruOf(rows, row).strategies = <<"LRU">>
         /\ ComparedRun(LruOf(rows, row)) = ComparedRun(row)
<1>1. PICK n \in Nat : n = Len(rows) /\ DOMAIN rows = 1..n
  OBVIOUS
<1>2. PICK found : found = {i \in 1..n : /\ rows[i].strategies = <<"LRU">>
                                         /\ ComparedRun(rows[i]) = ComparedRun(row)}
  OBVIOUS
<1>3. found \in SUBSET (1..n) /\ found # {}
  <2>1. PICK other \in ToSet(rows) :
          other.strategies = <<"LRU">> /\ ComparedRun(other) = ComparedRun(row)
    OBVIOUS
  <2>2. PICK i \in 1..n : other = rows[i]
    BY <1>1, <2>1 DEF ToSet
  <2>. QED
    BY <1>2, <2>1, <2>2
<1>4. Max(found) \in found
  BY <1>3, Greatest
<1>5. LruOf(rows, row) = rows[Max(found)]
  BY <1>1, <1>2, <1>3 DEF LruOf, SelectLastInSeq
<1>6. /\ rows[Max(found)] \in ToSet(rows)
      /\ rows[Max(found)].strategies = <<"LRU">>
      /\ ComparedRun(rows[Max(found)]) = ComparedRun(row)
  BY <1>1, <1>2, <1>4 DEF ToSet
<1>. QED
  BY <1>5, <1>6

\* A run is compared with the run of LRU on the same requests and capacity.
LEMMA LruMatches ==
  ASSUME NEW U, NEW rows, NEW arguments, NEW trace, NEW P, NEW S, NEW L,
         NEW cells, cells = Cells(P, S, L), AreRows(rows, U, arguments, trace, cells),
         L \subseteq TuplesOf(1), \A capacities \in L : capacities[1] >= 1,
         NEW row \in ToSet(rows)
  PROVE  LruOf(rows, row).misses = [row.misses EXCEPT !.strategies = <<"LRU">>]
<1>1. PICK cell \in cells : row = CellRow(arguments, trace, cell)
  BY DEF AreRows
<1>2. PICK pattern \in P, seed \in S, capacities \in L, chosen \in Seq(STRING) :
        cell = <<pattern, seed, capacities, chosen>>
  BY <1>1 DEF Cells
<1>3. PICK other : other = <<pattern, seed, capacities, <<"LRU">>>>
  OBVIOUS
<1>4. other \in cells
  <2>1. <<"LRU">> \in ValidChoices(capacities) /\ <<"LRU">> \in Seq(STRING)
    BY LRUIsValid
  <2>. QED
    BY <1>3, <2>1 DEF Cells
<1>5. PICK lru : lru = CellRow(arguments, trace, other) /\ lru \in ToSet(rows)
  BY <1>4 DEF AreRows
<1>6. lru.strategies = <<"LRU">> /\ ComparedRun(lru) = <<pattern, seed, capacities>>
  BY <1>3, <1>5, RowFields DEF ComparedRun
<1>7. ComparedRun(row) = <<pattern, seed, capacities>>
  BY <1>1, <1>2, RowFields DEF ComparedRun
<1>8. PICK shown : shown = LruOf(rows, row)
  OBVIOUS
<1>9. /\ shown \in ToSet(rows) /\ shown.strategies = <<"LRU">>
      /\ ComparedRun(shown) = <<pattern, seed, capacities>>
  <2>1. rows \in Seq(U)
    BY DEF AreRows
  <2>2. \E r \in ToSet(rows) : r.strategies = <<"LRU">> /\ ComparedRun(r) = ComparedRun(row)
    BY <1>5, <1>6, <1>7
  <2>. QED
    BY <1>7, <1>8, <2>1, <2>2, LruFound
<1>10. PICK c \in cells : shown = CellRow(arguments, trace, c)
  BY <1>9 DEF AreRows
<1>11. c[1] = pattern /\ c[2] = seed /\ c[3] = capacities /\ c[4] = <<"LRU">>
  BY <1>9, <1>10, RowFields DEF ComparedRun
<1>12. shown.misses =
         Measurement(RequestsFor(arguments, pattern, seed, trace), <<"LRU">>, capacities)
  BY <1>10, <1>11 DEF CellRow, ExperimentRow
<1>13. row.misses = Measurement(RequestsFor(arguments, pattern, seed, trace), chosen, capacities)
  BY <1>1, <1>2 DEF CellRow, ExperimentRow
<1>. QED
  BY <1>8, <1>12, <1>13 DEF Measurement

LEMMA ComparisonFacts ==
  ASSUME NEW arguments, Admitted(arguments), NEW trace, NEW hash,
         NEW manifest, manifest = MetadataOf("software", arguments, trace, hash)
  PROVE  ComparisonIsTrue(paired_comparison(RowsFor("software", arguments, trace)), manifest)
<1>1. PICK mode \in Modes : mode = "software"
  BY DEF Modes
<1>2. PICK U, P, S, L, cells, rows, configurations :
        /\ U = RowType(mode, arguments, trace) /\ rows = RowsFor(mode, arguments, trace)
        /\ P = ToSet(PatternsOf(mode, arguments)) /\ S = ToSet(SeedsOf(arguments))
        /\ L = Layouts(mode, arguments) /\ cells = Cells(P, S, L)
        /\ configurations = {Configuration(rows[i]) : i \in DOMAIN rows}
  OBVIOUS
<1>3. AreRows(rows, U, arguments, trace, cells)
  BY <1>2, AllRows
<1>4. ToSet(manifest.seeds) = S /\ IsFiniteSet(S)
  BY <1>1, <1>2, ManifestFields, SeedsFinite
<1>5. L \subseteq TuplesOf(1) /\ \A capacities \in L : capacities[1] >= 1
  BY <1>1, <1>2, LayoutsFacts DEF LevelsOf
<1>6. ASSUME NEW result \in paired_comparison(rows)
      PROVE  /\ Cardinality(result.differences) = Cardinality(S)
             /\ \A pair \in result.differences :
                  pair[2] = [pair[1] EXCEPT !.strategies = <<"LRU">>]
  <2>1. ByConfiguration(rows) = [c \in configurations |-> GroupOf(rows, c)]
    BY <1>2 DEF ByConfiguration, GroupOf
  <2>2. PICK groups : groups = ByConfiguration(rows)
    OBVIOUS
  <2>3. DOMAIN groups = configurations /\ \A c \in configurations : groups[c] = GroupOf(rows, c)
    BY <2>1, <2>2
  <2>4. PICK c \in configurations :
          result = [configuration |-> c, runs |-> Len(groups[c]),
                    differences |-> {<<row.misses, LruOf(rows, row).misses>> :
                                       row \in ToSet(groups[c])}]
    BY <2>2, <2>3 DEF paired_comparison, LruOf
  <2>5. PICK group : group = groups[c]
    OBVIOUS
  <2>6. IsGroup(group, U, arguments, trace, c, cells, S)
    BY <1>2, <1>3, <2>3, <2>5, GroupRows
  <2>7. ToSet(group) \subseteq ToSet(rows)
    BY <1>3, <2>6 DEF IsGroup, SeedRow, AreRows
  <2>8. PICK differences : differences = {<<row.misses, LruOf(rows, row).misses>> :
                                            row \in ToSet(group)}
    OBVIOUS
  <2>9. result.differences = differences
    BY <2>4, <2>5, <2>8
  <2>10. ASSUME NEW pair \in differences
         PROVE  pair[2] = [pair[1] EXCEPT !.strategies = <<"LRU">>]
    <3>1. PICK row \in ToSet(group) : pair = <<row.misses, LruOf(rows, row).misses>>
      BY <2>8
    <3>2. LruOf(rows, row).misses = [row.misses EXCEPT !.strategies = <<"LRU">>]
      BY <1>2, <1>3, <1>5, <2>7, <3>1, LruMatches
    <3>. QED
      BY <3>1, <3>2
  <2>11. Cardinality(differences) = Cardinality(S)
    <3>1. PICK row : row = [seed \in S |-> SeedRow(arguments, trace, c, seed)]
      OBVIOUS
    <3>2. PICK f : f = [seed \in S |-> <<row[seed].misses, LruOf(rows, row[seed]).misses>>]
      OBVIOUS
    <3>3. /\ \A seed \in S : row[seed] \in ToSet(group)
          /\ \A r \in ToSet(group) : \E seed \in S : r = row[seed]
      BY <2>6, <3>1 DEF IsGroup
    <3>4. f \in [S -> differences] /\ \A d \in differences : \E seed \in S : d = f[seed]
      BY <2>8, <3>2, <3>3
    <3>5. ASSUME NEW seed \in S, NEW other \in S, f[seed] = f[other] PROVE seed = other
      <4>1. row[seed].misses = row[other].misses
        BY <3>2, <3>5
      <4>. QED
        BY <1>2, <3>1, <4>1, MissesDiffer
    <3>. QED
      BY <1>4, <3>4, <3>5, ImageCardinality
  <2>. QED
    BY <2>9, <2>10, <2>11
<1>. QED
  BY <1>1, <1>2, <1>4, <1>6 DEF ComparisonIsTrue

\* Where the files of an experiment are in the order of its writing.
IsOutputs(list, mode, arguments) ==
  /\ list \in Seq(ResearchNames) /\ Len(list) >= 1
  /\ \A i, j \in 1..Len(list) : list[i] = list[j] => i = j
  /\ arguments.plan => list = <<"plan.json">>
  /\ ~ arguments.plan =>
       /\ Len(list) >= 4
       /\ list[1] = "work" /\ list[2] = "raw.csv" /\ list[3] = "summary.csv"
       /\ \A i \in 3..Len(list) : list[i] \notin {"work", "raw.csv", "plan.json"}
       /\ \A i \in 1..Len(list) : list[i] = "manifest.json" <=> i = Len(list)
       /\ mode = "software" => list[4] = "comparison_with_lru.csv"
       /\ arguments.plots => \E i \in 1..Len(list) : list[i] = "figures"

\* The list of an experiment's files, by its parts.
LEMMA OutputsParts ==
  ASSUME NEW mode, NEW arguments, ~ arguments.plan,
         NEW start, start = <<"work", "raw.csv", "summary.csv">>,
         NEW middle, NEW end,
         middle = start \o (IF mode = "software" THEN <<"comparison_with_lru.csv">> ELSE <<>>)
                        \o (IF arguments.plots THEN <<"figures">> ELSE <<>>)
                        \o (IF arguments.plots /\ mode = "hierarchy"
                              THEN <<"optimal_strategies_by_pattern.csv">> ELSE <<>>)
  PROVE  Outputs(mode, arguments) = middle \o <<"manifest.json">>
BY DEF Outputs

LEMMA OutputsFacts ==
  ASSUME NEW mode \in Modes, NEW arguments
  PROVE  IsOutputs(Outputs(mode, arguments), mode, arguments)
<1>1. /\ {"work", "raw.csv", "summary.csv", "comparison_with_lru.csv", "figures",
          "optimal_strategies_by_pattern.csv", "manifest.json", "plan.json"} \subseteq ResearchNames
      /\ \A a, b, c \in ResearchNames : <<a, b, c>> \in Seq(ResearchNames)
      /\ \A a \in ResearchNames : <<a>> \in Seq(ResearchNames)
  BY DEF ResearchNames
<1>2. CASE arguments.plan
  <2>1. Outputs(mode, arguments) = <<"plan.json">>
    BY <1>2 DEF Outputs
  <2>2. <<"plan.json">> \in Seq(ResearchNames) /\ Len(<<"plan.json">>) = 1
    BY <1>1
  <2>. QED
    BY <1>2, <2>1, <2>2 DEF IsOutputs
<1>3. CASE ~ arguments.plan /\ mode = "software" /\ arguments.plots
  <2>1. PICK start : start = <<"work", "raw.csv", "summary.csv">>
    OBVIOUS
  <2>2. start \in Seq(ResearchNames) /\ Len(start) = 3
    BY <1>1, <2>1
  <2>3. PICK compared : compared = start \o <<"comparison_with_lru.csv">>
    OBVIOUS
  <2>4. /\ compared \in Seq(ResearchNames) /\ Len(compared) = 4 /\ compared[4] = "comparison_with_lru.csv"
        /\ \A i \in 1..3 : compared[i] = start[i]
    BY <1>1, <2>2, <2>3, ItemAppended
  <2>5. PICK drawn : drawn = compared \o <<"figures">>
    OBVIOUS
  <2>6. /\ drawn \in Seq(ResearchNames) /\ Len(drawn) = 5 /\ drawn[5] = "figures"
        /\ \A i \in 1..4 : drawn[i] = compared[i]
    BY <1>1, <2>4, <2>5, ItemAppended
  <2>7. PICK list : list = drawn \o <<"manifest.json">>
    OBVIOUS
  <2>8. /\ list \in Seq(ResearchNames) /\ Len(list) = 6 /\ list[6] = "manifest.json"
        /\ \A i \in 1..5 : list[i] = drawn[i]
    BY <1>1, <2>6, <2>7, ItemAppended
  <2>9. drawn = start \o (IF mode = "software" THEN <<"comparison_with_lru.csv">> ELSE <<>>)
              \o (IF arguments.plots THEN <<"figures">> ELSE <<>>)
              \o (IF arguments.plots /\ mode = "hierarchy"
                    THEN <<"optimal_strategies_by_pattern.csv">> ELSE <<>>)
    BY <1>3, <2>2, <2>3, <2>4, <2>5, <2>6, NoneMore
  <2>10. Outputs(mode, arguments) = list
    BY <1>3, <2>1, <2>7, <2>9, OutputsParts, ZenonT(40)
  <2>11. /\ list[1] = "work" /\ list[2] = "raw.csv" /\ list[3] = "summary.csv"
        /\ list[4] = "comparison_with_lru.csv" /\ list[5] = "figures" /\ list[6] = "manifest.json"
    BY <2>1, <2>2, <2>4, <2>6, <2>8
  <2>12. \A i \in 1..6 : i = 1 \/ i = 2 \/ i = 3 \/ i = 4 \/ i = 5 \/ i = 6
    OBVIOUS
  <2>13. IsOutputs(list, mode, arguments)
    BY <1>3, <2>11, <2>12, <2>8 DEF IsOutputs
  <2>. QED
    BY <2>10, <2>13
<1>4. CASE ~ arguments.plan /\ mode = "software" /\ ~ arguments.plots
  <2>1. PICK start : start = <<"work", "raw.csv", "summary.csv">>
    OBVIOUS
  <2>2. start \in Seq(ResearchNames) /\ Len(start) = 3
    BY <1>1, <2>1
  <2>3. PICK compared : compared = start \o <<"comparison_with_lru.csv">>
    OBVIOUS
  <2>4. /\ compared \in Seq(ResearchNames) /\ Len(compared) = 4 /\ compared[4] = "comparison_with_lru.csv"
        /\ \A i \in 1..3 : compared[i] = start[i]
    BY <1>1, <2>2, <2>3, ItemAppended
  <2>5. PICK list : list = compared \o <<"manifest.json">>
    OBVIOUS
  <2>6. /\ list \in Seq(ResearchNames) /\ Len(list) = 5 /\ list[5] = "manifest.json"
        /\ \A i \in 1..4 : list[i] = compared[i]
    BY <1>1, <2>4, <2>5, ItemAppended
  <2>7. compared = start \o (IF mode = "software" THEN <<"comparison_with_lru.csv">> ELSE <<>>)
              \o (IF arguments.plots THEN <<"figures">> ELSE <<>>)
              \o (IF arguments.plots /\ mode = "hierarchy"
                    THEN <<"optimal_strategies_by_pattern.csv">> ELSE <<>>)
    BY <1>4, <2>2, <2>3, <2>4, NoneMore
  <2>8. Outputs(mode, arguments) = list
    BY <1>4, <2>1, <2>5, <2>7, OutputsParts
  <2>9. /\ list[1] = "work" /\ list[2] = "raw.csv" /\ list[3] = "summary.csv"
        /\ list[4] = "comparison_with_lru.csv" /\ list[5] = "manifest.json"
    BY <2>1, <2>2, <2>4, <2>6
  <2>10. \A i \in 1..5 : i = 1 \/ i = 2 \/ i = 3 \/ i = 4 \/ i = 5
    OBVIOUS
  <2>11. IsOutputs(list, mode, arguments)
    BY <1>4, <2>9, <2>10, <2>6 DEF IsOutputs
  <2>. QED
    BY <2>8, <2>11
<1>5. CASE ~ arguments.plan /\ mode = "hierarchy" /\ arguments.plots
  <2>1. PICK start : start = <<"work", "raw.csv", "summary.csv">>
    OBVIOUS
  <2>2. start \in Seq(ResearchNames) /\ Len(start) = 3
    BY <1>1, <2>1
  <2>3. PICK drawn : drawn = start \o <<"figures">>
    OBVIOUS
  <2>4. /\ drawn \in Seq(ResearchNames) /\ Len(drawn) = 4 /\ drawn[4] = "figures"
        /\ \A i \in 1..3 : drawn[i] = start[i]
    BY <1>1, <2>2, <2>3, ItemAppended
  <2>5. PICK won : won = drawn \o <<"optimal_strategies_by_pattern.csv">>
    OBVIOUS
  <2>6. /\ won \in Seq(ResearchNames) /\ Len(won) = 5 /\ won[5] = "optimal_strategies_by_pattern.csv"
        /\ \A i \in 1..4 : won[i] = drawn[i]
    BY <1>1, <2>4, <2>5, ItemAppended
  <2>7. PICK list : list = won \o <<"manifest.json">>
    OBVIOUS
  <2>8. /\ list \in Seq(ResearchNames) /\ Len(list) = 6 /\ list[6] = "manifest.json"
        /\ \A i \in 1..5 : list[i] = won[i]
    BY <1>1, <2>6, <2>7, ItemAppended
  <2>9. won = start \o (IF mode = "software" THEN <<"comparison_with_lru.csv">> ELSE <<>>)
              \o (IF arguments.plots THEN <<"figures">> ELSE <<>>)
              \o (IF arguments.plots /\ mode = "hierarchy"
                    THEN <<"optimal_strategies_by_pattern.csv">> ELSE <<>>)
    BY <1>5, <2>2, <2>3, <2>4, <2>5, <2>6, NoneMore
  <2>10. Outputs(mode, arguments) = list
    BY <1>5, <2>1, <2>7, <2>9, OutputsParts, ZenonT(40)
  <2>11. /\ list[1] = "work" /\ list[2] = "raw.csv" /\ list[3] = "summary.csv"
        /\ list[4] = "figures" /\ list[5] = "optimal_strategies_by_pattern.csv" /\ list[6] = "manifest.json"
    BY <2>1, <2>2, <2>4, <2>6, <2>8
  <2>12. \A i \in 1..6 : i = 1 \/ i = 2 \/ i = 3 \/ i = 4 \/ i = 5 \/ i = 6
    OBVIOUS
  <2>13. IsOutputs(list, mode, arguments)
    BY <1>5, <2>11, <2>12, <2>8 DEF IsOutputs
  <2>. QED
    BY <2>10, <2>13
<1>6. CASE ~ arguments.plan /\ mode = "hierarchy" /\ ~ arguments.plots
  <2>1. PICK start : start = <<"work", "raw.csv", "summary.csv">>
    OBVIOUS
  <2>2. start \in Seq(ResearchNames) /\ Len(start) = 3
    BY <1>1, <2>1
  <2>3. PICK list : list = start \o <<"manifest.json">>
    OBVIOUS
  <2>4. /\ list \in Seq(ResearchNames) /\ Len(list) = 4 /\ list[4] = "manifest.json"
        /\ \A i \in 1..3 : list[i] = start[i]
    BY <1>1, <2>2, <2>3, ItemAppended
  <2>5. start = start \o (IF mode = "software" THEN <<"comparison_with_lru.csv">> ELSE <<>>)
              \o (IF arguments.plots THEN <<"figures">> ELSE <<>>)
              \o (IF arguments.plots /\ mode = "hierarchy"
                    THEN <<"optimal_strategies_by_pattern.csv">> ELSE <<>>)
    BY <1>6, <2>2, <2>1, NoneMore
  <2>6. Outputs(mode, arguments) = list
    BY <1>6, <2>1, <2>3, <2>5, OutputsParts, ZenonT(40)
  <2>7. /\ list[1] = "work" /\ list[2] = "raw.csv" /\ list[3] = "summary.csv"
        /\ list[4] = "manifest.json"
    BY <2>1, <2>2, <2>4
  <2>8. \A i \in 1..4 : i = 1 \/ i = 2 \/ i = 3 \/ i = 4
    OBVIOUS
  <2>9. IsOutputs(list, mode, arguments)
    BY <1>6, <2>7, <2>8, <2>4 DEF IsOutputs
  <2>. QED
    BY <2>6, <2>9
<1>. QED
  BY <1>2, <1>3, <1>4, <1>5, <1>6 DEF Modes

\* The files that are written before the manifest, as they are to be.
HasFile(folder, mode, arguments, trace, name) ==
  /\ name = "raw.csv" => folder["raw.csv"] = Saved(RowsFor(mode, arguments, trace))
  /\ name = "summary.csv" =>
       folder["summary.csv"] = Saved(summarize(RowsFor(mode, arguments, trace)))
  /\ name = "comparison_with_lru.csv" =>
       folder["comparison_with_lru.csv"] =
         Saved(paired_comparison(RowsFor(mode, arguments, trace)))
  /\ name = "figures" => folder["figures"].complete

\* The manifest and the files beside it are of one experiment.
IsExperiment(folder, mode, arguments, trace, hash) ==
  /\ Admitted(arguments)
  /\ folder["manifest.json"] = Saved(MetadataOf(mode, arguments, trace, hash))
  /\ HasFile(folder, mode, arguments, trace, "raw.csv")
  /\ HasFile(folder, mode, arguments, trace, "summary.csv")
  /\ mode = "software" => HasFile(folder, mode, arguments, trace, "comparison_with_lru.csv")
  /\ arguments.plots => HasFile(folder, mode, arguments, trace, "figures")

DescribesItself(folder, mode) ==
  folder["manifest.json"].complete =>
    \E arguments, trace, hash : IsExperiment(folder, mode, arguments, trace, hash)

IsRun(run) ==
  run = [modes |-> run.modes, arguments |-> run.arguments, requests |-> run.requests,
         input_sha256 |-> run.input_sha256, written |-> run.written]

\* What the running command has written, which is the beginning of its list, is
\* as it is to be, and once the rows are written no earlier manifest counts.
Underway(run, folders, replaced) ==
  /\ IsRun(run) /\ run.modes \in Seq(Modes) /\ run.modes # <<>> /\ Admitted(run.arguments)
  /\ run.written \in Seq(ResearchNames)
  /\ Len(run.written) < Len(Outputs(run.modes[1], run.arguments))
  /\ \A i \in 1..Len(run.written) :
       HasFile(folders[run.modes[1]], run.modes[1], run.arguments, run.requests,
               Outputs(run.modes[1], run.arguments)[i])
  /\ Len(run.written) >= 2 /\ folders[run.modes[1]]["manifest.json"].exists =>
       run.modes[1] \in replaced

AreFolders(folders) ==
  /\ DOMAIN folders = Modes
  /\ \A mode \in Modes :
       /\ DOMAIN folders[mode] = ResearchNames
       /\ folders[mode]["manifest.json"].complete => folders[mode]["manifest.json"].exists

ResearchInv ==
  /\ AreFolders(researchFiles)
  /\ commands \in ResearchCommands
  /\ \A mode \in Modes \ disturbed : DescribesItself(researchFiles[mode], mode)
  /\ research # Idle => Underway(research, researchFiles, disturbed)

\* Only the files that an experiment names matter.
LEMMA SameFiles ==
  ASSUME NEW folder, NEW folder2, NEW mode, NEW name,
         \A other \in ResearchNames : other # name => folder2[other] = folder[other],
         name \in {"work", "plan.json"},
         DescribesItself(folder, mode)
  PROVE  DescribesItself(folder2, mode)
<1>1. /\ folder2["raw.csv"] = folder["raw.csv"]
      /\ folder2["summary.csv"] = folder["summary.csv"]
      /\ folder2["comparison_with_lru.csv"] = folder["comparison_with_lru.csv"]
      /\ folder2["figures"] = folder["figures"]
      /\ folder2["manifest.json"] = folder["manifest.json"]
  BY DEF ResearchNames
<1>. SUFFICES ASSUME folder2["manifest.json"].complete
     PROVE \E arguments, trace, hash : IsExperiment(folder2, mode, arguments, trace, hash)
  BY DEF DescribesItself
<1>2. PICK arguments, trace, hash : IsExperiment(folder, mode, arguments, trace, hash)
  BY <1>1 DEF DescribesItself
<1>3. IsExperiment(folder2, mode, arguments, trace, hash)
  BY <1>1, <1>2 DEF IsExperiment, HasFile
<1>. QED
  BY <1>3

\* The next file of the running command.
LEMMA NextToWrite ==
  ASSUME ResearchInv, research # Idle
  PROVE  /\ Mode \in Modes /\ NextOutput \in ResearchNames
         /\ Len(research.written) \in Nat
         /\ NextOutput = "manifest.json" =>
              /\ Len(research.written) + 1 = Len(Outputs(Mode, research.arguments))
              /\ ~ research.arguments.plan
         /\ NextOutput \in {"work", "plan.json"} => Len(research.written) = 0
         /\ Len(research.written) >= 2 \/ NextOutput \in {"work", "plan.json", "raw.csv"}
         /\ Len(research.written) = 1 => NextOutput = "raw.csv"
<1>1. PICK list, mode, n :
        /\ mode = Mode /\ list = Outputs(mode, research.arguments)
        /\ n = Len(research.written)
  OBVIOUS
<1>7. mode \in Modes /\ n \in Nat /\ n < Len(list)
  <2>1. research.modes \in Seq(Modes) /\ research.modes # <<>>
        /\ research.written \in Seq(ResearchNames)
        /\ Len(research.written) < Len(Outputs(research.modes[1], research.arguments))
    BY DEF ResearchInv, Underway
  <2>. QED
    BY <1>1, <2>1 DEF Mode
<1>2. IsOutputs(list, mode, research.arguments)
  BY <1>1, <1>7, OutputsFacts
<1>3. NextOutput = list[n + 1] /\ n + 1 \in 1..Len(list) /\ list \in Seq(ResearchNames)
  BY <1>1, <1>2, <1>7 DEF NextOutput, IsOutputs
<1>4. NextOutput \in ResearchNames
  BY <1>3
<1>5. CASE research.arguments.plan
  <2>1. list = <<"plan.json">>
    BY <1>2, <1>5 DEF IsOutputs
  <2>2. Len(list) = 1 /\ list[1] = "plan.json"
    BY <2>1
  <2>3. n = 0 /\ NextOutput = "plan.json"
    BY <1>1, <1>3, <1>7, <2>2
  <2>. QED
    BY <1>1, <1>4, <1>7, <2>3, <1>5
<1>6. CASE ~ research.arguments.plan
  <2>1. /\ Len(list) >= 4 /\ list[1] = "work" /\ list[2] = "raw.csv"
        /\ \A i \in 3..Len(list) : list[i] \notin {"work", "raw.csv", "plan.json"}
        /\ \A i \in 1..Len(list) : list[i] = "manifest.json" <=> i = Len(list)
    BY <1>2, <1>6 DEF IsOutputs
  <2>2. n = 0 \/ n = 1 \/ n + 1 \in 3..Len(list)
    BY <1>3, <1>7, <2>1
  <2>3. NextOutput \in {"work", "plan.json"} => n = 0
    BY <1>3, <2>1, <2>2
  <2>4. NextOutput = "manifest.json" => n + 1 = Len(list)
    BY <1>3, <2>1
  <2>5. n = 0 => NextOutput \in {"work", "plan.json"}
    BY <1>3, <2>1
  <2>6. n = 1 => NextOutput = "raw.csv"
    BY <1>3, <2>1
  <2>7. n >= 2 \/ NextOutput \in {"work", "plan.json", "raw.csv"}
    BY <1>7, <2>5, <2>6
  <2>. QED
    BY <1>1, <1>4, <1>6, <1>7, <2>3, <2>4, <2>6, <2>7
<1>. QED
  BY <1>5, <1>6

\* One file of a folder is replaced.
IsReplaced(folders, folders2, mode, name, file) ==
  /\ DOMAIN folders2 = Modes
  /\ \A other \in Modes : DOMAIN folders2[other] = ResearchNames
  /\ \A other \in Modes : other # mode => folders2[other] = folders[other]
  /\ folders2[mode][name] = file
  /\ \A other \in ResearchNames : other # name => folders2[mode][other] = folders[mode][other]

LEMMA FileReplaced ==
  ASSUME NEW folders, AreFolders(folders), NEW mode \in Modes, NEW name \in ResearchNames,
         NEW file, NEW folders2, folders2 = [folders EXCEPT ![mode][name] = file]
  PROVE  IsReplaced(folders, folders2, mode, name, file)
<1>1. PICK folder : folder = [folders[mode] EXCEPT ![name] = file]
  OBVIOUS
<1>2. DOMAIN folder = ResearchNames /\ folder[name] = file
      /\ \A other \in ResearchNames : other # name => folder[other] = folders[mode][other]
  BY <1>1 DEF AreFolders
<1>3. folders2 = [folders EXCEPT ![mode] = folder]
  BY <1>1
<1>4. DOMAIN folders2 = Modes /\ folders2[mode] = folder
      /\ \A other \in Modes : other # mode => folders2[other] = folders[other]
  BY <1>3 DEF AreFolders
<1>. QED
  BY <1>2, <1>4 DEF AreFolders, IsReplaced

LEMMA ReplacedFolders ==
  ASSUME NEW folders, AreFolders(folders), NEW mode \in Modes, NEW name \in ResearchNames,
         NEW file, file.complete => file.exists,
         NEW folders2, IsReplaced(folders, folders2, mode, name, file)
  PROVE  AreFolders(folders2)
<1>1. ASSUME NEW other \in Modes
      PROVE  folders2[other]["manifest.json"].complete => folders2[other]["manifest.json"].exists
  <2>1. "manifest.json" \in ResearchNames
    BY DEF ResearchNames
  <2>2. CASE other # mode
    BY <2>2 DEF AreFolders, IsReplaced
  <2>3. CASE other = mode /\ name # "manifest.json"
    BY <2>1, <2>3 DEF AreFolders, IsReplaced
  <2>4. CASE other = mode /\ name = "manifest.json"
    BY <2>4 DEF IsReplaced
  <2>. QED
    BY <2>2, <2>3, <2>4
<1>. QED
  BY <1>1 DEF AreFolders, IsReplaced

LEMMA OthersDescribed ==
  ASSUME NEW folders, NEW folders2, NEW replaced, NEW replaced2, NEW mode, NEW name, NEW file,
         IsReplaced(folders, folders2, mode, name, file),
         \A other \in Modes \ replaced : DescribesItself(folders[other], other),
         \A other \in Modes : other # mode => (other \in replaced <=> other \in replaced2),
         mode \notin replaced2 => DescribesItself(folders2[mode], mode)
  PROVE  \A other \in Modes \ replaced2 : DescribesItself(folders2[other], other)
BY DEF IsReplaced

\* Before the manifest is written again, the folder of the running command has
\* the manifest of its files, or none that can be read, or is disturbed.
LEMMA StillDescribed ==
  ASSUME ResearchInv, research # Idle, NEW folders, NEW file,
         IsReplaced(researchFiles, folders, Mode, NextOutput, file),
         NextOutput = "manifest.json" => ~ file.complete,
         NEW replaced, replaced = IF Disturbs THEN disturbed \cup {Mode} ELSE disturbed,
         Mode \notin replaced
  PROVE  DescribesItself(folders[Mode], Mode)
<1>. PICK mode \in Modes, name \in ResearchNames : mode = Mode /\ name = NextOutput
  BY NextToWrite
<1>1. mode \notin disturbed /\ ~ Disturbs
  OBVIOUS
<1>2. DescribesItself(researchFiles[mode], mode)
  BY <1>1 DEF ResearchInv
<1>3. CASE name \in {"work", "plan.json"}
  <2>1. \A other \in ResearchNames : other # name => folders[mode][other] = researchFiles[mode][other]
    BY DEF IsReplaced
  <2>. QED
    BY <1>2, <1>3, <2>1, SameFiles
<1>4. CASE name \notin {"work", "plan.json"}
  <2>1. Len(research.written) >= 2 \/ name = "raw.csv"
    BY <1>4, NextToWrite
  <2>2. ~ researchFiles[mode]["manifest.json"].exists
    <3>1. CASE name = "raw.csv"
      BY <1>1, <3>1 DEF Disturbs
    <3>2. CASE Len(research.written) >= 2
      BY <1>1, <3>2 DEF ResearchInv, Underway, Mode
    <3>. QED
      BY <2>1, <3>1, <3>2
  <2>3. ~ researchFiles[mode]["manifest.json"].complete
    BY <2>2 DEF ResearchInv, AreFolders
  <2>4. "manifest.json" \in ResearchNames
    BY DEF ResearchNames
  <2>5. ~ folders[mode]["manifest.json"].complete
    <3>1. CASE name = "manifest.json"
      BY <3>1 DEF IsReplaced
    <3>2. CASE name # "manifest.json"
      BY <2>3, <2>4, <3>2 DEF IsReplaced
    <3>. QED
      BY <3>1, <3>2
  <2>. QED
    BY <2>5 DEF DescribesItself
<1>. QED
  BY <1>3, <1>4

LEMMA SavedFields ==
  ASSUME NEW contents
  PROVE  Saved(contents).exists /\ Saved(contents).complete /\ Saved(contents).contents = contents
BY DEF Saved

\* A file is written as it is to be.
LEMMA WrittenFile ==
  ASSUME NEW folder, folder[NextOutput] = Saved(OutputContents)
  PROVE  HasFile(folder, Mode, research.arguments, research.requests, NextOutput)
<1>1. NextOutput = "raw.csv" =>
        OutputContents = RowsFor(Mode, research.arguments, research.requests)
  BY DEF OutputContents
<1>2. NextOutput = "summary.csv" =>
        OutputContents = summarize(RowsFor(Mode, research.arguments, research.requests))
  BY DEF OutputContents
<1>3. NextOutput = "comparison_with_lru.csv" =>
        OutputContents = paired_comparison(RowsFor(Mode, research.arguments, research.requests))
  BY DEF OutputContents
<1>. QED
  BY <1>1, <1>2, <1>3, SavedFields DEF HasFile

LEMMA StillHas ==
  ASSUME NEW folder, NEW folder2, NEW mode, NEW arguments, NEW trace, NEW name,
         HasFile(folder, mode, arguments, trace, name), folder2[name] = folder[name]
  PROVE  HasFile(folder2, mode, arguments, trace, name)
BY DEF HasFile

\* The manifest is written when all other files are.
LEMMA ManifestLast ==
  ASSUME ResearchInv, research # Idle, NextOutput = "manifest.json", NEW folders,
         IsReplaced(researchFiles, folders, Mode, NextOutput, Saved(OutputContents))
  PROVE  DescribesItself(folders[Mode], Mode)
<1>. PICK mode, arguments, trace, list, n, old, new :
        /\ mode = Mode /\ arguments = research.arguments /\ trace = research.requests
        /\ list = Outputs(mode, arguments) /\ n = Len(research.written)
        /\ old = researchFiles[mode] /\ new = folders[mode]
  OBVIOUS
<1>1. mode \in Modes /\ n \in Nat /\ n + 1 = Len(list) /\ ~ arguments.plan
  BY NextToWrite
<1>2. IsOutputs(list, mode, arguments)
  BY <1>1, OutputsFacts
<1>3. Admitted(arguments) /\ \A i \in 1..n : HasFile(old, mode, arguments, trace, list[i])
  BY DEF ResearchInv, Underway, Mode
<1>4. /\ Len(list) >= 4 /\ list[2] = "raw.csv" /\ list[3] = "summary.csv"
      /\ \A i \in 1..Len(list) : list[i] = "manifest.json" <=> i = Len(list)
      /\ mode = "software" => list[4] = "comparison_with_lru.csv"
      /\ arguments.plots => \E i \in 1..Len(list) : list[i] = "figures"
  BY <1>1, <1>2 DEF IsOutputs
<1>5. 2 \in 1..n /\ 3 \in 1..n
  BY <1>1, <1>4
<1>6. mode = "software" => 4 \in 1..n
  BY <1>1, <1>4
<1>7. arguments.plots => \E i \in 1..n : list[i] = "figures"
  <2>. SUFFICES ASSUME arguments.plots PROVE \E i \in 1..n : list[i] = "figures"
    OBVIOUS
  <2>1. PICK i \in 1..Len(list) : list[i] = "figures"
    BY <1>4
  <2>2. i # Len(list)
    BY <1>4, <2>1
  <2>3. i \in 1..n
    BY <1>1, <2>2
  <2>. QED
    BY <2>1, <2>3
<1>8. \A name \in ResearchNames : name # "manifest.json" => new[name] = old[name]
  BY DEF IsReplaced
<1>9. {"raw.csv", "summary.csv", "comparison_with_lru.csv", "figures"} \subseteq ResearchNames
  BY DEF ResearchNames
<1>10. HasFile(new, mode, arguments, trace, "raw.csv")
  BY <1>3, <1>4, <1>5, <1>8, <1>9, StillHas
<1>11. HasFile(new, mode, arguments, trace, "summary.csv")
  BY <1>3, <1>4, <1>5, <1>8, <1>9, StillHas
<1>12. mode = "software" => HasFile(new, mode, arguments, trace, "comparison_with_lru.csv")
  BY <1>3, <1>4, <1>6, <1>8, <1>9, StillHas
<1>13. arguments.plots => HasFile(new, mode, arguments, trace, "figures")
  BY <1>3, <1>7, <1>8, <1>9, StillHas
<1>14. new["manifest.json"] =
         Saved(MetadataOf(mode, arguments, trace, research.input_sha256))
  <2>1. OutputContents = MetadataOf(mode, arguments, trace, research.input_sha256)
    BY DEF OutputContents
  <2>2. new["manifest.json"] = Saved(OutputContents)
    BY DEF IsReplaced
  <2>. QED
    BY <2>1, <2>2
<1>15. IsExperiment(new, mode, arguments, trace, research.input_sha256)
  BY <1>3, <1>10, <1>11, <1>12, <1>13, <1>14 DEF IsExperiment
<1>. QED
  BY <1>15 DEF DescribesItself

LEMMA ResearchInitInv == ResearchInit => ResearchInv
<1>. SUFFICES ASSUME ResearchInit PROVE ResearchInv
  OBVIOUS
<1>1. researchFiles = [mode \in Modes |-> [name \in ResearchNames |-> Missing]]
  BY DEF ResearchInit
<1>2. ~ Missing.complete
  BY DEF Missing
<1>3. "manifest.json" \in ResearchNames
  BY DEF ResearchNames
<1>4. \A mode \in Modes : /\ DOMAIN researchFiles[mode] = ResearchNames
                          /\ researchFiles[mode]["manifest.json"] = Missing
  BY <1>1, <1>3
<1>5. AreFolders(researchFiles)
  BY <1>1, <1>2, <1>4 DEF AreFolders
<1>6. \A mode \in Modes : DescribesItself(researchFiles[mode], mode)
  BY <1>2, <1>4 DEF DescribesItself
<1>. QED
  BY <1>5, <1>6 DEF ResearchInv, ResearchInit

LEMMA ExperimentBegins ==
  ASSUME NEW modes \in Seq(Modes), modes # <<>>, NEW arguments, Admitted(arguments),
         NEW folders, NEW replaced
  PROVE  Underway(Experiment(modes, arguments), folders, replaced)
<1>1. PICK run : run = Experiment(modes, arguments)
  OBVIOUS
<1>2. run.modes = modes /\ run.arguments = arguments /\ run.written = <<>>
  BY <1>1 DEF Experiment
<1>3. <<>> \in Seq(ResearchNames) /\ Len(<<>>) = 0
  OBVIOUS
<1>4. modes[1] \in Modes
  OBVIOUS
<1>5. IsOutputs(Outputs(modes[1], arguments), modes[1], arguments)
  BY <1>4, OutputsFacts
<1>6. PICK list : list = Outputs(modes[1], arguments)
  OBVIOUS
<1>7. Len(list) \in Nat /\ Len(list) >= 1
  BY <1>5, <1>6 DEF IsOutputs
<1>8. IsRun(run)
  BY <1>1 DEF Experiment, IsRun
<1>. QED
  BY <1>1, <1>2, <1>3, <1>6, <1>7, <1>8 DEF Underway

LEMMA BeginStep ==
  ASSUME ResearchInv, NEW arguments \in commands, BeginResearch(arguments)
  PROVE  ResearchInv'
<1>1. Admitted(arguments)
  BY DEF ResearchInv, BeginResearch, MayResearch, Admitted
<1>2. arguments.modes \in Seq(Modes) /\ arguments.modes # <<>>
  BY <1>1, AcceptedFacts
<1>3. Underway(research', researchFiles', disturbed')
  BY <1>1, <1>2, ExperimentBegins DEF BeginResearch
<1>. QED
  BY <1>3 DEF ResearchInv, BeginResearch

\* Experiment, with what it reads given to it.
LEMMA NextBegins ==
  ASSUME ResearchInv, research # Idle, NextExperiment # Idle, NEW folders, NEW replaced
  PROVE  Underway(NextExperiment, folders, replaced)
<1>1. PICK rest : rest = Tail(research.modes)
  OBVIOUS
<1>2. research.modes \in Seq(Modes) /\ research.modes # <<>> /\ Admitted(research.arguments)
  BY DEF ResearchInv, Underway
<1>3. rest \in Seq(Modes)
  BY <1>1, <1>2
<1>4. rest # <<>> /\ NextExperiment = Experiment(rest, research.arguments)
  BY <1>1 DEF NextExperiment
<1>. QED
  BY <1>2, <1>3, <1>4, ExperimentBegins

\* Its mode counts as disturbed when its rows replace others.
Disturbed(replaced) ==
  disturbed \subseteq replaced /\ (Disturbs => Mode \in replaced)

\* After a file that is not the last, more is written.
LEMMA RunContinues ==
  ASSUME ResearchInv, research # Idle, NEW folders,
         IsReplaced(researchFiles, folders, Mode, NextOutput, Saved(OutputContents)),
         Len(research.written) + 1 # Len(Outputs(Mode, research.arguments)),
         NEW replaced, Disturbed(replaced),
         NEW run, IsRun(run), run.modes = research.modes, run.arguments = research.arguments,
         run.requests = research.requests,
         run.written = Append(research.written, NextOutput)
  PROVE  Underway(run, folders, replaced)
<1>. PICK mode, arguments, trace, list, n, old, new, name :
       /\ mode = Mode /\ arguments = research.arguments /\ trace = research.requests
       /\ list = Outputs(mode, arguments) /\ n = Len(research.written)
       /\ old = researchFiles[mode] /\ new = folders[mode] /\ name = NextOutput
  OBVIOUS
<1>1. mode \in Modes /\ n \in Nat /\ name \in ResearchNames
  BY NextToWrite
<1>2. list \in Seq(ResearchNames)
  BY <1>1, OutputsFacts DEF IsOutputs
<1>3. /\ research.modes \in Seq(Modes) /\ research.modes # <<>> /\ Admitted(arguments)
      /\ research.written \in Seq(ResearchNames) /\ n < Len(list)
      /\ \A i \in 1..n : HasFile(old, mode, arguments, trace, list[i])
      /\ n >= 2 /\ old["manifest.json"].exists => mode \in disturbed
  BY DEF ResearchInv, Underway, Mode
<1>4. run.written \in Seq(ResearchNames) /\ Len(run.written) = n + 1
  BY <1>1, <1>3
<1>5. n + 1 < Len(list) /\ Len(list) \in Nat
  BY <1>1, <1>2, <1>3
<1>6. name = list[n + 1]
  BY DEF NextOutput
<1>7. HasFile(new, mode, arguments, trace, name)
  BY WrittenFile DEF IsReplaced
<1>8. ASSUME NEW i \in 1..(n + 1) PROVE HasFile(new, mode, arguments, trace, list[i])
  <2>1. CASE list[i] = name
    BY <1>7, <2>1
  <2>2. CASE list[i] # name
    <3>1. i # n + 1
      BY <1>6, <2>2
    <3>2. i \in 1..n
      BY <1>1, <3>1
    <3>3. list[i] \in ResearchNames
      BY <1>1, <1>2, <1>5
    <3>4. new[list[i]] = old[list[i]]
      BY <2>2, <3>3 DEF IsReplaced
    <3>. QED
      BY <1>3, <3>2, <3>4, StillHas
  <2>. QED
    BY <2>1, <2>2
<1>9. name # "manifest.json"
  BY NextToWrite
<1>10. new["manifest.json"] = old["manifest.json"]
  <2>1. "manifest.json" \in ResearchNames
    BY DEF ResearchNames
  <2>. QED
    BY <1>9, <2>1 DEF IsReplaced
<1>11. n + 1 >= 2 => n = 1 \/ n >= 2
  BY <1>1, OneOrMore
<1>12. ASSUME n = 1 \/ n >= 2, new["manifest.json"].exists PROVE mode \in replaced
  <2>1. CASE n >= 2
    BY <1>3, <1>10, <1>12, <2>1 DEF Disturbed
  <2>2. CASE n = 1
    <3>1. name = "raw.csv"
      BY <2>2, NextToWrite
    <3>2. Disturbs
      BY <1>10, <1>12, <3>1 DEF Disturbs
    <3>. QED
      BY <3>2 DEF Disturbed
  <2>. QED
    BY <1>12, <2>1, <2>2
<1>13. run.modes[1] = mode /\ Outputs(run.modes[1], run.arguments) = list
       /\ folders[run.modes[1]] = new
  BY DEF Mode
<1>. QED
  BY <1>3, <1>4, <1>5, <1>8, <1>12, <1>13, <1>11 DEF Underway

Advanced(run, list, hash) == [[run EXCEPT !.written = list] EXCEPT !.input_sha256 = hash]

LEMMA RunFields ==
  ASSUME NEW run, IsRun(run), NEW list, NEW hash, NEW next, next = Advanced(run, list, hash)
  PROVE  /\ IsRun(next) /\ next.modes = run.modes /\ next.arguments = run.arguments
         /\ next.requests = run.requests /\ next.written = list
<1>1. PICK a, b, c, d, e :
        run = [modes |-> a, arguments |-> b, requests |-> c, input_sha256 |-> d, written |-> e]
  BY DEF IsRun
<1>2. next = [modes |-> a, arguments |-> b, requests |-> c, input_sha256 |-> hash,
              written |-> list]
  BY <1>1 DEF Advanced
<1>. QED
  BY <1>1, <1>2 DEF IsRun

LEMMA RunAdvances ==
  ASSUME ResearchInv, WriteOutput,
         Len(research.written) + 1 # Len(Outputs(Mode, research.arguments)),
         NEW next, next = research'
  PROVE  /\ IsRun(next) /\ next.modes = research.modes /\ next.arguments = research.arguments
         /\ next.requests = research.requests
         /\ next.written = Append(research.written, NextOutput)
<1>1. PICK list : list = Append(research.written, NextOutput)
  OBVIOUS
<1>2. PICK hash : next = Advanced(research, list, hash)
  <2>1. research' = [research EXCEPT
                       !.written = Append(research.written, NextOutput),
                       !.input_sha256 = IF NextOutput = "work" THEN userTrace
                                        ELSE research.input_sha256]
    BY DEF WriteOutput
  <2>. QED
    BY <1>1, <2>1 DEF Advanced
<1>3. IsRun(research)
  BY DEF ResearchInv, Underway, WriteOutput
<1>4. /\ IsRun(next) /\ next.modes = research.modes /\ next.arguments = research.arguments
      /\ next.requests = research.requests /\ next.written = list
  BY <1>2, <1>3, RunFields
<1>. QED
  BY <1>1, <1>4

LEMMA WriteStep == ASSUME ResearchInv, WriteOutput PROVE ResearchInv'
<1>1. research # Idle
  BY DEF WriteOutput
<1>2. PICK mode, name, file :
        mode = Mode /\ name = NextOutput /\ file = Saved(OutputContents)
  OBVIOUS
<1>3. mode \in Modes /\ name \in ResearchNames
  BY <1>1, <1>2, NextToWrite
<1>4. IsReplaced(researchFiles, researchFiles', mode, name, file)
  <2>1. researchFiles' = [researchFiles EXCEPT ![mode][name] = file]
    BY <1>2 DEF WriteOutput
  <2>. QED
    BY <1>3, <2>1, FileReplaced DEF ResearchInv
<1>5. file.complete /\ file.exists
  BY <1>2, SavedFields
<1>6. AreFolders(researchFiles')
  BY <1>3, <1>4, <1>5, ReplacedFolders DEF ResearchInv
<1>7. CASE name = "manifest.json"
  <2>1. disturbed' = disturbed \ {mode}
    BY <1>2, <1>7 DEF WriteOutput
  <2>2. DescribesItself(researchFiles'[mode], mode)
    BY <1>1, <1>2, <1>4, <1>7, ManifestLast
  <2>3. \A other \in Modes : other # mode => (other \in disturbed <=> other \in disturbed')
    BY <2>1
  <2>4. \A other \in Modes \ disturbed : DescribesItself(researchFiles[other], other)
    BY DEF ResearchInv
  <2>5. \A other \in Modes \ disturbed' : DescribesItself(researchFiles'[other], other)
    BY <1>4, <2>2, <2>3, <2>4, OthersDescribed
  <2>6. research' = NextExperiment
    <3>1. Len(research.written) + 1 = Len(Outputs(Mode, research.arguments))
      BY <1>1, <1>2, <1>7, NextToWrite
    <3>. QED
      BY <3>1 DEF WriteOutput
  <2>7. research' # Idle => Underway(research', researchFiles', disturbed')
    BY <1>1, <2>6, NextBegins
  <2>. QED
    BY <1>6, <2>5, <2>7 DEF ResearchInv, WriteOutput
<1>8. CASE name # "manifest.json"
  <2>1. disturbed' = IF Disturbs THEN disturbed \cup {Mode} ELSE disturbed
    BY <1>2, <1>8 DEF WriteOutput
  <2>2. mode \notin disturbed' => DescribesItself(researchFiles'[mode], mode)
    BY <1>1, <1>2, <1>4, <1>8, <2>1, StillDescribed
  <2>3. \A other \in Modes : other # mode => (other \in disturbed <=> other \in disturbed')
    BY <1>2, <2>1
  <2>4. \A other \in Modes \ disturbed : DescribesItself(researchFiles[other], other)
    BY DEF ResearchInv
  <2>5. \A other \in Modes \ disturbed' : DescribesItself(researchFiles'[other], other)
    BY <1>4, <2>2, <2>3, <2>4, OthersDescribed
  <2>6. research' # Idle => Underway(research', researchFiles', disturbed')
    <3>1. CASE Len(research.written) + 1 = Len(Outputs(Mode, research.arguments))
      BY <1>1, <3>1, NextBegins DEF WriteOutput
    <3>2. CASE Len(research.written) + 1 # Len(Outputs(Mode, research.arguments))
      <4>1. PICK next, list : next = research' /\ list = Append(research.written, NextOutput)
        OBVIOUS
      <4>2. /\ IsRun(next) /\ next.modes = research.modes
            /\ next.arguments = research.arguments
            /\ next.requests = research.requests /\ next.written = list
        BY <3>2, <4>1, RunAdvances
      <4>3. Disturbed(disturbed')
        BY <2>1 DEF Disturbed
      <4>. QED
        BY <1>1, <1>2, <1>4, <3>2, <4>1, <4>2, <4>3, RunContinues
    <3>. QED
      BY <3>1, <3>2
  <2>. QED
    BY <1>6, <2>5, <2>6 DEF ResearchInv, WriteOutput
<1>. QED
  BY <1>7, <1>8

LEMMA StopStep == ASSUME ResearchInv, StopResearch PROVE ResearchInv'
<1>1. research # Idle /\ research' = Idle /\ commands' = commands
  BY DEF StopResearch
<1>2. CASE UNCHANGED <<researchFiles, disturbed>>
  BY <1>1, <1>2 DEF ResearchInv
<1>3. CASE /\ researchFiles' = [researchFiles EXCEPT ![Mode][NextOutput] = Torn]
           /\ disturbed' = IF Disturbs THEN disturbed \cup {Mode} ELSE disturbed
  <2>1. PICK mode, name, file : mode = Mode /\ name = NextOutput /\ file = Torn
    OBVIOUS
  <2>2. mode \in Modes /\ name \in ResearchNames
    BY <1>1, <2>1, NextToWrite
  <2>3. ~ file.complete
    BY <2>1 DEF Torn
  <2>4. IsReplaced(researchFiles, researchFiles', mode, name, file)
    <3>1. researchFiles' = [researchFiles EXCEPT ![mode][name] = file]
      BY <1>3, <2>1
    <3>. QED
      BY <2>2, <3>1, FileReplaced DEF ResearchInv
  <2>5. AreFolders(researchFiles')
    BY <2>2, <2>3, <2>4, ReplacedFolders DEF ResearchInv
  <2>6. disturbed' = IF Disturbs THEN disturbed \cup {Mode} ELSE disturbed
    BY <1>3
  <2>7. mode \notin disturbed' => DescribesItself(researchFiles'[mode], mode)
    BY <1>1, <2>1, <2>3, <2>4, <2>6, StillDescribed
  <2>8. \A other \in Modes : other # mode => (other \in disturbed <=> other \in disturbed')
    BY <2>1, <2>6
  <2>9. \A other \in Modes \ disturbed : DescribesItself(researchFiles[other], other)
    BY DEF ResearchInv
  <2>10. \A other \in Modes \ disturbed' : DescribesItself(researchFiles'[other], other)
    BY <2>4, <2>7, <2>8, <2>9, OthersDescribed
  <2>. QED
    BY <1>1, <2>5, <2>10 DEF ResearchInv
<1>. QED
  BY <1>2, <1>3 DEF StopResearch

LEMMA ResearchStep ==
  ResearchInv /\ (ResearchNext \/ UNCHANGED researchVars) => ResearchInv'
<1>. SUFFICES ASSUME ResearchInv, ResearchNext \/ UNCHANGED researchVars PROVE ResearchInv'
  OBVIOUS
<1>1. ASSUME NEW arguments \in commands, BeginResearch(arguments) PROVE ResearchInv'
  BY <1>1, BeginStep
<1>2. CASE WriteOutput
  BY <1>2, WriteStep
<1>3. CASE StopResearch
  BY <1>3, StopStep
<1>4. CASE EditTrace
  BY <1>4 DEF EditTrace, ResearchInv
<1>5. CASE UNCHANGED researchVars
  BY <1>5 DEF researchVars, ResearchInv
<1>. QED
  BY <1>1, <1>2, <1>3, <1>4, <1>5 DEF ResearchNext

LEMMA ExperimentTruthful ==
  ASSUME NEW mode \in Modes, NEW folder, NEW arguments, NEW trace, NEW hash,
         IsExperiment(folder, mode, arguments, trace, hash),
         NEW manifest, manifest = folder["manifest.json"].contents
  PROVE  /\ folder["raw.csv"].complete /\ folder["summary.csv"].complete
         /\ RawIsTrue(folder["raw.csv"].contents, manifest)
         /\ SummaryIsTrue(folder["summary.csv"].contents, manifest)
         /\ mode = "software" =>
              /\ folder["comparison_with_lru.csv"].complete
              /\ ComparisonIsTrue(folder["comparison_with_lru.csv"].contents, manifest)
         /\ manifest.plots => folder["figures"].complete
<1>1. Admitted(arguments)
  BY DEF IsExperiment
<1>2. PICK rows : rows = RowsFor(mode, arguments, trace)
  OBVIOUS
<1>3. folder["raw.csv"] = Saved(rows) /\ folder["summary.csv"] = Saved(summarize(rows))
  BY <1>2 DEF IsExperiment, HasFile
<1>4. mode = "software" => folder["comparison_with_lru.csv"] = Saved(paired_comparison(rows))
  BY <1>2 DEF IsExperiment, HasFile
<1>5. manifest = MetadataOf(mode, arguments, trace, hash)
  BY SavedFields DEF IsExperiment
<1>6. RawIsTrue(rows, manifest) /\ SummaryIsTrue(summarize(rows), manifest)
  BY <1>1, <1>2, <1>5, RawFacts, SummaryFacts
<1>7. mode = "software" => ComparisonIsTrue(paired_comparison(rows), manifest)
  BY <1>1, <1>2, <1>5, ComparisonFacts
<1>8. manifest.plots => folder["figures"].complete
  <2>1. manifest.plots = arguments.plots
    BY <1>5, ManifestFields
  <2>. QED
    BY <2>1 DEF IsExperiment, HasFile
<1>. QED
  BY <1>3, <1>4, <1>6, <1>7, <1>8, SavedFields

LEMMA ResearchTruthful == ResearchInv => ResultsTruthful
<1>. SUFFICES ASSUME ResearchInv PROVE ResultsTruthful
  OBVIOUS
<1>1. ASSUME NEW mode \in Modes \ disturbed, researchFiles[mode]["manifest.json"].complete,
             NEW results, results = researchFiles[mode],
             NEW manifest, manifest = results["manifest.json"].contents
      PROVE  /\ results["raw.csv"].complete /\ results["summary.csv"].complete
             /\ RawIsTrue(results["raw.csv"].contents, manifest)
             /\ SummaryIsTrue(results["summary.csv"].contents, manifest)
             /\ mode = "software" =>
                  /\ results["comparison_with_lru.csv"].complete
                  /\ ComparisonIsTrue(results["comparison_with_lru.csv"].contents, manifest)
             /\ manifest.plots => results["figures"].complete
  <2>1. PICK arguments, trace, hash : IsExperiment(results, mode, arguments, trace, hash)
    BY <1>1 DEF ResearchInv, DescribesItself
  <2>. QED
    BY <1>1, <2>1, ExperimentTruthful
<1>. QED
  BY <1>1 DEF ResultsTruthful

\* Whatever was killed, edited or run over before: where no later command has
\* begun to replace the results, a manifest describes its rows, means and
\* comparisons (run_experiment, summarize, paired_comparison).
THEOREM ResultsAreTruthful == CommandsSpec => []ResultsTruthful
<1>1. CommandsInit => ResearchInv
  BY ResearchInitInv DEF CommandsInit
<1>2. ResearchInv /\ [CommandsNext]_commandsVars => ResearchInv'
  <2>. SUFFICES ASSUME ResearchInv, [CommandsNext]_commandsVars PROVE ResearchInv'
    OBVIOUS
  <2>1. ResearchNext \/ UNCHANGED researchVars
    BY DEF CommandsNext, commandsVars
  <2>. QED
    BY <2>1, ResearchStep
<1>3. ResearchInv => ResultsTruthful
  BY ResearchTruthful
<1>. QED
  BY <1>1, <1>2, <1>3, PTL DEF CommandsSpec

\* What the running command writes into the folder of its mode.
Todo == Outputs(Mode, research.arguments)

\* What an unforced research command has still to write does not exist yet.
FreshInv ==
  research # Idle /\ research.arguments.sweep =>
    /\ Len(research.modes) = 1
    /\ \/ research.arguments.force
       \/ \A i \in (Len(research.written) + 1)..Len(Todo) :
            ~ researchFiles[Mode][Todo[i]].exists

\* A file of results that was there is changed by commands that may.
ResearchKeeps ==
  \A mode \in Modes, name \in ResearchNames :
    researchFiles[mode][name].exists /\ researchFiles'[mode][name] # researchFiles[mode][name] =>
      ~ research.arguments.sweep \/ research.arguments.force

LEMMA TodoFacts ==
  ASSUME ResearchInv, research # Idle
  PROVE  /\ Todo \in Seq(ResearchNames) /\ Len(Todo) \in Nat
         /\ \A i, j \in 1..Len(Todo) : Todo[i] = Todo[j] => i = j
         /\ NextOutput = Todo[Len(research.written) + 1]
         /\ Len(research.written) \in Nat /\ Len(research.written) < Len(Todo)
<1>1. Mode \in Modes
  BY NextToWrite
<1>2. IsOutputs(Todo, Mode, research.arguments)
  BY <1>1, OutputsFacts DEF Todo
<1>3. Todo \in Seq(ResearchNames) /\ \A i, j \in 1..Len(Todo) : Todo[i] = Todo[j] => i = j
  BY <1>2 DEF IsOutputs
<1>4. NextOutput = Todo[Len(research.written) + 1]
  BY DEF NextOutput, Todo
<1>5. Len(research.written) < Len(Todo)
  BY DEF ResearchInv, Underway, Todo, Mode
<1>6. Len(research.written) \in Nat
  BY NextToWrite
<1>. QED
  BY <1>3, <1>4, <1>5, <1>6

\* Writing the next file changes no other.
LEMMA FileWritten ==
  ASSUME ResearchInv, FreshInv, research # Idle, NEW file,
         researchFiles' = [researchFiles EXCEPT ![Mode][NextOutput] = file]
  PROVE  IsReplaced(researchFiles, researchFiles', Mode, NextOutput, file) /\ ResearchKeeps
<1>1. Mode \in Modes /\ NextOutput \in ResearchNames
  BY NextToWrite
<1>2. IsReplaced(researchFiles, researchFiles', Mode, NextOutput, file)
  BY <1>1, FileReplaced DEF ResearchInv
<1>3. research.arguments.sweep =>
        research.arguments.force \/ ~ researchFiles[Mode][NextOutput].exists
  <2>1. PICK k, n : k = Len(research.written) + 1 /\ n = Len(Todo)
    OBVIOUS
  <2>2. k \in k..n /\ NextOutput = Todo[k]
    BY <2>1, TodoFacts
  <2>. QED
    BY <2>1, <2>2 DEF FreshInv
<1>4. \A mode \in Modes, name \in ResearchNames :
        mode # Mode \/ name # NextOutput => researchFiles'[mode][name] = researchFiles[mode][name]
  BY <1>2 DEF IsReplaced
<1>. QED
  BY <1>2, <1>3, <1>4 DEF ResearchKeeps

\* A command that has just begun on a mode: for an unforced research command the
\* folder is empty.
LEMMA ExperimentFresh ==
  ASSUME NEW modes \in Seq(Modes), modes # <<>>, NEW arguments,
         research' = Experiment(modes, arguments),
         arguments.sweep =>
           /\ Len(modes) = 1
           /\ arguments.force \/ \A name \in ResearchNames : ~ researchFiles'[modes[1]][name].exists
  PROVE  FreshInv'
<1>1. research'.modes = modes /\ research'.arguments = arguments /\ research'.written = <<>>
  BY DEF Experiment
<1>2. Todo' = Outputs(modes[1], arguments) /\ Mode' = modes[1]
  BY <1>1 DEF Todo, Mode
<1>3. IsOutputs(Outputs(modes[1], arguments), modes[1], arguments)
  BY OutputsFacts
<1>4. Todo' \in Seq(ResearchNames) /\ Len(research'.written) = 0
  BY <1>1, <1>2, <1>3 DEF IsOutputs
<1>5. \A i \in (Len(research'.written) + 1)..Len(Todo') : Todo'[i] \in ResearchNames
  BY <1>4
<1>. QED
  BY <1>1, <1>2, <1>5 DEF FreshInv

\* The command writes another file into the same folder.
LEMMA StaysFresh ==
  ASSUME ResearchInv, FreshInv, research # Idle, NEW file,
         IsReplaced(researchFiles, researchFiles', Mode, NextOutput, file),
         research'.modes = research.modes, research'.arguments = research.arguments,
         research'.written = Append(research.written, NextOutput)
  PROVE  FreshInv'
<1>1. Mode' = Mode /\ Todo' = Todo
  BY DEF Mode, Todo
<1>2. Len(research'.written) = Len(research.written) + 1
  <2>1. research.written \in Seq(ResearchNames)
    BY DEF ResearchInv, Underway
  <2>2. NextOutput \in ResearchNames
    BY NextToWrite
  <2>. QED
    BY <2>1, <2>2, AppendProperties
<1>3. ASSUME research.arguments.sweep, ~ research.arguments.force,
             NEW i \in (Len(research'.written) + 1)..Len(Todo')
      PROVE  ~ researchFiles'[Mode'][Todo'[i]].exists
  <2>1. /\ i \in (Len(research.written) + 1)..Len(Todo) /\ i \in 1..Len(Todo)
        /\ Len(research.written) + 1 \in 1..Len(Todo) /\ i # Len(research.written) + 1
    BY <1>1, <1>2, TodoFacts
  <2>2. ~ researchFiles[Mode][Todo[i]].exists
    BY <1>3, <2>1 DEF FreshInv
  <2>3. Todo[i] # NextOutput /\ Todo[i] \in ResearchNames
    BY <2>1, TodoFacts
  <2>. QED
    BY <1>1, <2>2, <2>3 DEF IsReplaced
<1>. QED
  BY <1>1, <1>3 DEF FreshInv

\* A step of the commands of the studies keeps the invariant, and the results.
LEMMA FreshStep ==
  ASSUME ResearchInv, FreshInv, ResearchNext
  PROVE  FreshInv' /\ ResearchKeeps
<1>1. ASSUME NEW arguments \in commands, BeginResearch(arguments)
      PROVE  FreshInv' /\ ResearchKeeps
  <2>1. /\ arguments.modes \in Seq(Modes) /\ arguments.modes # <<>>
        /\ arguments.sweep => Len(arguments.modes) = 1
    BY ModeAssumption DEF ResearchInv, Modes
  <2>2. /\ research' = Experiment(arguments.modes, arguments)
        /\ researchFiles' = researchFiles
        /\ arguments.sweep /\ ~ arguments.force =>
             \A name \in ResearchNames : ~ researchFiles[arguments.modes[1]][name].exists
    BY <1>1 DEF BeginResearch, MayResearch
  <2>. QED
    BY <2>1, <2>2, ExperimentFresh DEF ResearchKeeps
<1>2. ASSUME WriteOutput
      PROVE  FreshInv' /\ ResearchKeeps
  <2>1. PICK file : researchFiles' = [researchFiles EXCEPT ![Mode][NextOutput] = file]
    BY <1>2 DEF WriteOutput
  <2>2. research # Idle
    BY <1>2 DEF WriteOutput
  <2>3. IsReplaced(researchFiles, researchFiles', Mode, NextOutput, file) /\ ResearchKeeps
    BY <2>1, <2>2, FileWritten
  <2>4. CASE Len(research.written) + 1 = Len(Outputs(Mode, research.arguments))
    <3>1. research' = NextExperiment
      BY <1>2, <2>4 DEF WriteOutput
    <3>2. CASE research' = Idle
      BY <2>3, <3>2 DEF FreshInv
    <3>3. CASE research' # Idle
      <4>1. PICK rest : rest = Tail(research.modes)
        OBVIOUS
      <4>2. rest # <<>> /\ research' = Experiment(rest, research.arguments)
        BY <3>1, <3>3, <4>1 DEF NextExperiment
      <4>3. research.modes \in Seq(Modes) /\ research.modes # <<>>
        BY <2>2 DEF ResearchInv, Underway
      <4>4. rest \in Seq(Modes) /\ Len(research.modes) # 1
        BY <4>1, <4>2, <4>3
      <4>5. ~ research.arguments.sweep
        BY <2>2, <4>4 DEF FreshInv
      <4>. QED
        BY <2>3, <4>2, <4>4, <4>5, ExperimentFresh
    <3>. QED
      BY <3>2, <3>3
  <2>5. CASE Len(research.written) + 1 # Len(Outputs(Mode, research.arguments))
    <3>1. PICK next : next = research'
      OBVIOUS
    <3>2. /\ next.modes = research.modes /\ next.arguments = research.arguments
          /\ next.written = Append(research.written, NextOutput)
      BY <1>2, <2>5, <3>1, RunAdvances
    <3>. QED
      BY <2>2, <2>3, <3>1, <3>2, StaysFresh
  <2>. QED
    BY <2>4, <2>5
<1>3. ASSUME StopResearch
      PROVE  FreshInv' /\ ResearchKeeps
  <2>1. research # Idle /\ research' = Idle
    BY <1>3 DEF StopResearch
  <2>2. CASE researchFiles' = researchFiles
    BY <2>1, <2>2 DEF FreshInv, ResearchKeeps
  <2>3. CASE researchFiles' = [researchFiles EXCEPT ![Mode][NextOutput] = Torn]
    BY <2>1, <2>3, FileWritten DEF FreshInv
  <2>. QED
    BY <1>3, <2>2, <2>3 DEF StopResearch
<1>4. ASSUME EditTrace
      PROVE  FreshInv' /\ ResearchKeeps
  BY <1>4 DEF EditTrace, FreshInv, ResearchKeeps, Todo, Mode
<1>. QED
  BY <1>1, <1>2, <1>3, <1>4 DEF ResearchNext

KeptInv == CaseInv /\ ResearchInv /\ FreshInv

\* What no command of the folders touches keeps the invariants.
LEMMA UntouchedCase ==
  ASSUME CaseInv, UNCHANGED caseVars
  PROVE  CaseInv'
BY DEF CaseInv, caseVars, GeneratorInv, IsReader

\* The same of the folders of results.
LEMMA UntouchedResearch ==
  ASSUME ResearchInv, FreshInv, UNCHANGED researchVars
  PROVE  ResearchInv' /\ FreshInv'
<1>1. ResearchInv'
  BY ResearchStep
<1>2. FreshInv'
  BY DEF FreshInv, researchVars, Todo, Mode
<1>. QED
  BY <1>1, <1>2

\* Every step of the commands keeps the invariant and the files.
LEMMA KeptStep ==
  ASSUME KeptInv, [CommandsNext]_commandsVars
  PROVE  KeptInv'
<1>1. CASE CaseNext /\ UNCHANGED researchVars
  BY <1>1, CaseStep, UntouchedResearch DEF KeptInv
<1>2. CASE ResearchNext /\ UNCHANGED caseVars
  BY <1>2, ResearchStep, FreshStep, UntouchedCase DEF KeptInv
<1>3. CASE UNCHANGED <<caseVars, researchVars>>
  BY <1>3, UntouchedCase, UntouchedResearch DEF KeptInv
<1>. QED
  BY <1>1, <1>2, <1>3 DEF CommandsNext, commandsVars

\* All hold at first.
LEMMA KeptInit == CommandsInit => KeptInv
BY CaseInitInv, ResearchInitInv DEF CommandsInit, KeptInv, FreshInv, ResearchInit

\* Whatever failed or was killed before, an unforced generate changes no file of
\* its case that was there, and an unforced research command no result.
THEOREM FilesStayKept == CommandsSpec => FilesKept
<1>. DEFINE CaseKeeps ==
       \A name \in ToSet(FILES) :
         Generating /\ caseFiles[name].exists /\ caseFiles'[name] # caseFiles[name] =>
           caseCommand.force
<1>1. KeptInv /\ [CommandsNext]_commandsVars => [CaseKeeps]_caseVars
  <2>. SUFFICES ASSUME KeptInv, [CommandsNext]_commandsVars PROVE [CaseKeeps]_caseVars
    OBVIOUS
  <2>1. CASE CaseNext
    BY <2>1, CaseStep DEF KeptInv
  <2>2. CASE UNCHANGED caseVars
    BY <2>2
  <2>. QED
    BY <2>1, <2>2 DEF CommandsNext, commandsVars
<1>2. KeptInv /\ [CommandsNext]_commandsVars => [ResearchKeeps]_researchVars
  <2>. SUFFICES ASSUME KeptInv, [CommandsNext]_commandsVars PROVE [ResearchKeeps]_researchVars
    OBVIOUS
  <2>1. CASE ResearchNext
    BY <2>1, FreshStep DEF KeptInv
  <2>2. CASE UNCHANGED researchVars
    BY <2>2
  <2>. QED
    BY <2>1, <2>2 DEF CommandsNext, commandsVars
<1>3. KeptInv /\ [CommandsNext]_commandsVars => KeptInv'
  BY KeptStep
<1>. QED
  BY KeptInit, <1>1, <1>2, <1>3, PTL
     DEF CommandsSpec, FilesKept, CaseKept, ResultsKept, ResearchKeeps

-----------------------------------------------------------------------------
(***************************************************************************)
(* The renaming of code_quality.py.                                        *)
(***************************************************************************)

\* The fixes of a file, as they are collected.
NamedFixes == [offset : Int, length : Nat, text : Seq(0..255)]

ReplacementsOK ==
  /\ originals \in [ProjectFiles -> Seq(0..255)]
  /\ \A path \in ProjectFiles :
       replacements[path] \subseteq NamedFixes /\ IsFiniteSet(replacements[path])

\* Python's order of tuples puts the fixes in a list.
LEMMA FixesInOrder ==
  ASSUME ReplacementsOK, NEW path \in ProjectFiles
  PROVE  SortedFixes(path) \in Seq(replacements[path])
<1>1. PICK fixes : fixes = replacements[path] /\ fixes \subseteq NamedFixes /\ IsFiniteSet(fixes)
  BY DEF ReplacementsOK
<1>2. \A x \in fixes : /\ x.offset \in Int /\ x.length \in Int
                       /\ x.text \in Seq(Int)
                       /\ x = [offset |-> x.offset, length |-> x.length, text |-> x.text]
  <2>. TAKE x \in fixes
  <2>1. x \in NamedFixes
    BY <1>1
  <2>2. x.text \in Seq(0..255) /\ x.offset \in Int /\ x.length \in Int
    BY <2>1 DEF NamedFixes
  <2>3. PICK t \in Seq(0..255) : t = x.text
    BY <2>2
  <2>4. t \in Seq(Int)
    <3>1. 0..255 \subseteq Int
      OBVIOUS
    <3>. QED
      BY <3>1, WiderSeq
  <2>. QED
    BY <2>1, <2>2, <2>3, <2>4 DEF NamedFixes
<1>3. PICK before : before = {pair \in fixes \X fixes : FixBefore(pair[1], pair[2])}
  OBVIOUS
<1>4. \A x, y \in fixes : <<x, y>> \in before <=> FixBefore(x, y)
  BY <1>3
<1>5. \A x \in fixes : <<x, x>> \notin before
  <2>. TAKE x \in fixes
  <2>1. ~ Precedes(x.text, x.text)
    BY <1>2, PrecedesTotal
  <2>. QED
    BY <1>2, <1>4, <2>1 DEF FixBefore
<1>6. ASSUME NEW x \in fixes, NEW y \in fixes
      PROVE  x = y \/ <<x, y>> \in before \/ <<y, x>> \in before
  <2>1. x.text # y.text => Precedes(x.text, y.text) \/ Precedes(y.text, x.text)
    BY <1>2, PrecedesTotal
  <2>2. x.offset = y.offset /\ x.length = y.length /\ x.text = y.text => x = y
    BY <1>2
  <2>. QED
    BY <1>2, <1>4, <2>1, <2>2 DEF FixBefore
<1>7. ASSUME NEW x \in fixes, NEW y \in fixes, NEW z \in fixes,
             <<x, y>> \in before, <<y, z>> \in before
      PROVE  <<x, z>> \in before
  <2>1. FixBefore(x, y) /\ FixBefore(y, z)
    BY <1>4, <1>7
  <2>2. Precedes(x.text, y.text) /\ Precedes(y.text, z.text) => Precedes(x.text, z.text)
    BY <1>2, PrecedesTransitive
  <2>3. FixBefore(x, z)
    BY <1>2, <2>1, <2>2 DEF FixBefore
  <2>. QED
    BY <1>4, <2>3
<1>8. OrdersAll(fixes, before)
  BY <1>5, <1>6, <1>7 DEF OrdersAll
<1>9. SortedBy(fixes, before) \in Seq(fixes)
  BY <1>1, <1>8, OrderedItems
<1>. QED
  BY <1>1, <1>3, <1>9 DEF SortedFixes

\* A file without a conflict gets all its fixes at once.
LEMMA UpdatedTogether ==
  ASSUME ReplacementsOK, NEW path \in ProjectFiles, ~ Conflicting(path)
  PROVE  Updated(path) = Simultaneously(path)
<1>1. PICK list : list = SortedFixes(path) /\ list \in Seq(replacements[path])
  BY FixesInOrder
<1>2. DOMAIN list = 1..Len(list) /\ Len(list) \in Nat
  BY <1>1
<1>3. \A i \in 1..Len(list) :
        /\ list[i].offset \in Int /\ list[i].length \in Nat /\ list[i].text \in Seq(0..255)
  <2>. TAKE i \in 1..Len(list)
  <2>1. list[i] \in NamedFixes
    BY <1>1, <1>2 DEF ReplacementsOK
  <2>. QED
    BY <2>1 DEF NamedFixes
<1>4. \A i \in 1..Len(list) :
        /\ ~ (list[i].offset < 0)
        /\ ~ (list[i].offset + list[i].length > Len(originals[path]))
        /\ i > 1 => ~ (list[i].offset < list[i - 1].offset + list[i - 1].length)
  BY <1>1, <1>2 DEF Conflicting
<1>5. originals[path] \in Seq(0..255) /\ Len(originals[path]) \in Nat
  BY DEF ReplacementsOK
<1>6. ASSUME NEW i \in 1..Len(list)
      PROVE  /\ list[i].offset \in Nat
             /\ list[i].offset + list[i].length <= Len(originals[path])
             /\ i > 1 => list[i - 1].offset + list[i - 1].length <= list[i].offset
  <2>1. list[i].offset \in Nat /\ list[i].offset + list[i].length <= Len(originals[path])
    BY <1>3, <1>4, <1>5
  <2>2. ASSUME i > 1 PROVE list[i - 1].offset + list[i - 1].length <= list[i].offset
    <3>1. i - 1 \in 1..Len(list)
      BY <2>2
    <3>2. ~ (list[i].offset < list[i - 1].offset + list[i - 1].length)
      BY <1>4, <2>2
    <3>3. PICK a \in Int, l \in Int, b \in Int :
            a = list[i - 1].offset /\ l = list[i - 1].length /\ b = list[i].offset
      BY <1>3, <3>1
    <3>. QED
      BY <3>2, <3>3
  <2>. QED
    BY <2>1, <2>2
<1>7. Apart(list, 0..255, originals[path])
  BY <1>2, <1>3, <1>5, <1>6 DEF Apart
<1>8. ReplacedFromEnd(originals[path], list) = ReplacedAtOnce(originals[path], list)
  BY <1>7, ReplacedTogether
<1>. QED
  BY <1>1, <1>8 DEF Updated, Simultaneously

\* A file without fixes has no conflict and stays as it is.
LEMMA UnchangedFile ==
  ASSUME ReplacementsOK, NEW path \in ProjectFiles, replacements[path] = {}
  PROVE  ~ Conflicting(path) /\ Updated(path) = originals[path]
<1>1. PICK list : list = SortedFixes(path) /\ list \in Seq(replacements[path])
  BY FixesInOrder
<1>2. Len(list) = 0 /\ DOMAIN list = {}
  BY <1>1
<1>3. ~ Conflicting(path)
  BY <1>1, <1>2 DEF Conflicting
<1>4. originals[path] \in Seq(0..255)
  BY DEF ReplacementsOK
<1>5. Apart(list, 0..255, originals[path])
  BY <1>2, <1>4 DEF Apart
<1>6. PICK changed : /\ AreReplaced(changed, 0..255, originals[path], list)
                     /\ ReplacedFromEnd(originals[path], list) = changed[1]
  BY <1>5, ReplacedByFixes
<1>7. changed[1] = originals[path]
  BY <1>2, <1>6 DEF AreReplaced
<1>. QED
  BY <1>1, <1>3, <1>6, <1>7 DEF Updated

-----------------------------------------------------------------------------
(***************************************************************************)
(* The invariant, file by file.                                            *)
(***************************************************************************)

\* As an editor has left the file.
ByHand(path) == IF edited[path] = "never" THEN InitialBytes[path] ELSE EditedBytes

\* What the script has read of a file is what an editor had left by then, unless
\* it was saved after the comparison.
ReadRight(path) ==
  path \notin unread /\ edited[path] \in {"never", "early", "meanwhile"} =>
    originals[path] = IF edited[path] = "early" THEN EditedBytes ELSE InitialBytes[path]

\* As long as a file is not compared nothing is written, and afterwards files
\* that are not to be written any more have their fixes.
BeforeWriting(path) ==
  /\ disk[path] = ByHand(path)
  /\ edited[path] \in {"never", "early", "meanwhile", "late"}
  /\ path \in unread => path \in uncompared /\ edited[path] \in {"never", "early"}

AfterComparing(path) ==
  /\ ~ Conflicting(path)
  /\ edited[path] \in {"never", "early"} /\ path \notin unwritten \cup writing =>
       disk[path] = Updated(path)

FileInv(path) ==
  /\ \/ disk[path] \in {InitialBytes[path], EditedBytes}
     \/ disk[path] = Updated(path) /\ ~ Conflicting(path)
     \/ writing = {path}
     \/ edited[path] = "open"
  /\ ReadRight(path)
  /\ edited[path] = "meanwhile" => path \in uncompared
  /\ uncompared # {} => BeforeWriting(path)
  /\ uncompared = {} => AfterComparing(path)
  /\ phase = "compare" => ~ Conflicting(path)

PhaseInv ==
  /\ phase \in {"read", "analyze", "check", "compare", "write", "applied", "stopped"}
  /\ phase \in {"read", "analyze", "check", "compare"} => uncompared # {}
  /\ phase \in {"write", "applied"} => uncompared = {}
  /\ phase \in {"analyze", "check", "compare"} => unread = {}
  /\ phase = "applied" => unwritten \cup writing = {}
  /\ uncompared # {} => unwritten \cup writing = {}
  /\ unread \subseteq uncompared
  /\ uncompared \subseteq ProjectFiles
  /\ unwritten \subseteq ProjectFiles
  /\ writing = {} \/ \E path \in ProjectFiles : writing = {path}

NamingInv ==
  /\ ReplacementsOK
  /\ disk = [path \in ProjectFiles |-> disk[path]]
  /\ edited = [path \in ProjectFiles |-> edited[path]]
  /\ PhaseInv
  /\ \A path \in ProjectFiles : FileInv(path)

LEMMA NamingInitInv == NamingInit => NamingInv
<1>. SUFFICES ASSUME NamingInit PROVE NamingInv
  OBVIOUS
<1>. USE DEF NamingInit
<1>1. ReplacementsOK
  <2>1. IsFiniteSet({}) /\ <<>> \in Seq(0..255)
    BY FS_EmptySet
  <2>. QED
    BY <2>1 DEF ReplacementsOK
<1>2. disk = [path \in ProjectFiles |-> disk[path]]
  BY FileAssumption
<1>3. ProjectFiles # {}
  BY FileAssumption
<1>4. PhaseInv
  BY <1>3 DEF PhaseInv
<1>5. \A path \in ProjectFiles : FileInv(path)
  BY <1>3 DEF FileInv, BeforeWriting, ByHand, ReadRight
<1>. QED
  BY <1>1, <1>2, <1>4, <1>5 DEF NamingInv

\* What is made from the fixes is the same when the fixes are.
LEMMA SameFixes ==
  ASSUME UNCHANGED <<originals, replacements>>, NEW path
  PROVE  Updated(path)' = Updated(path) /\ Conflicting(path)' = Conflicting(path)
BY DEF Updated, Conflicting, SortedFixes

LEMMA UntouchedNaming ==
  ASSUME NamingInv, UNCHANGED namingVars
  PROVE  NamingInv'
<1>1. UNCHANGED <<disk, unread, originals, replacements, analyzed, uncompared, unwritten,
                  writing, phase, edited>>
  BY DEF namingVars
<1>2. ReplacementsOK' /\ PhaseInv'
  BY <1>1 DEF NamingInv, ReplacementsOK, PhaseInv
<1>3. ASSUME NEW path \in ProjectFiles PROVE FileInv(path)'
  <2>1. Updated(path)' = Updated(path) /\ Conflicting(path)' = Conflicting(path)
    BY <1>1, SameFixes
  <2>. QED
    BY <1>1, <2>1 DEF NamingInv, FileInv, BeforeWriting, AfterComparing, ByHand, ReadRight
<1>. QED
  BY <1>1, <1>2, <1>3 DEF NamingInv

LEMMA NamingReadStep ==
  ASSUME NamingInv, ReadOriginal
  PROVE  NamingInv'
<1>1. /\ phase = "read"
      /\ UNCHANGED <<disk, replacements, uncompared, unwritten, writing, edited>>
  BY DEF ReadOriginal
<1>2. PICK file \in unread :
        /\ originals' = [originals EXCEPT ![file] = disk[file]]
        /\ unread' = unread \ {file}
        /\ phase' = IF unread = {file} THEN "analyze" ELSE "read"
  BY DEF ReadOriginal
<1>3. /\ originals \in [ProjectFiles -> Seq(0..255)] /\ file \in ProjectFiles
      /\ uncompared # {} /\ uncompared \subseteq ProjectFiles
  BY <1>1, <1>2 DEF NamingInv, ReplacementsOK, PhaseInv
<1>4. \A path \in ProjectFiles : BeforeWriting(path) /\ ReadRight(path)
  BY <1>3 DEF NamingInv, FileInv
<1>5. \A path \in ProjectFiles : disk[path] \in Seq(0..255)
  BY <1>4, FileAssumption DEF BeforeWriting, ByHand
<1>6. ReplacementsOK'
  BY <1>1, <1>2, <1>3, <1>5 DEF NamingInv, ReplacementsOK
<1>7. PhaseInv'
  BY <1>1, <1>2 DEF NamingInv, PhaseInv
<1>8. ASSUME NEW path \in ProjectFiles PROVE FileInv(path)'
  <2>1. BeforeWriting(path)'
    BY <1>1, <1>2, <1>4 DEF BeforeWriting, ByHand
  <2>2. ReadRight(path)'
    <3>1. CASE path = file
      BY <1>1, <1>2, <1>3, <1>4, <3>1 DEF BeforeWriting, ByHand, ReadRight
    <3>2. CASE path # file
      BY <1>1, <1>2, <1>3, <1>4, <3>2 DEF ReadRight
    <3>. QED
      BY <3>1, <3>2
  <2>3. disk'[path] \in {InitialBytes[path], EditedBytes}
    BY <1>1, <1>4 DEF BeforeWriting, ByHand
  <2>4. uncompared' # {} /\ phase' # "compare"
    BY <1>1, <1>2, <1>3
  <2>5. edited'[path] = "meanwhile" => path \in uncompared'
    BY <1>1 DEF NamingInv, FileInv
  <2>. QED
    BY <2>1, <2>2, <2>3, <2>4, <2>5 DEF FileInv
<1>. QED
  BY <1>1, <1>6, <1>7, <1>8 DEF NamingInv

LEMMA NamingAnalyzeStep ==
  ASSUME NamingInv, AnalyzeSource
  PROVE  NamingInv'
<1>. USE DEF AnalyzeSource
<1>1. phase = "analyze" /\ phase' \in {"analyze", "check", "stopped"}
  OBVIOUS
<1>2. ReplacementsOK'
  <2>1. CASE UNCHANGED replacements
    BY <2>1 DEF NamingInv, ReplacementsOK
  <2>2. ASSUME NEW report \in Reports,
               replacements' = [path \in ProjectFiles |->
                 replacements[path] \cup
                   {[offset |-> fix.offset, length |-> fix.length, text |-> fix.text] :
                      fix \in {fix \in report : fix.path = path}}]
        PROVE  ReplacementsOK'
    <3>1. \A path \in ProjectFiles :
            /\ replacements[path] \subseteq NamedFixes /\ IsFiniteSet(replacements[path])
            /\ originals[path] \in Seq(0..255)
      BY DEF NamingInv, ReplacementsOK
    <3>2. ASSUME NEW path \in ProjectFiles
          PROVE  replacements'[path] \subseteq NamedFixes /\ IsFiniteSet(replacements'[path])
      <4>1. PICK own : own = {fix \in report : fix.path = path} /\ IsFiniteSet(own)
        <5>1. IsFiniteSet(report) /\ {fix \in report : fix.path = path} \subseteq report
          BY ReportAssumption
        <5>2. IsFiniteSet({fix \in report : fix.path = path})
          BY <5>1, FS_Subset
        <5>. QED
          BY <5>2
      <4>2. PICK g : g = [fix \in own |->
                            [offset |-> fix.offset, length |-> fix.length, text |-> fix.text]]
        OBVIOUS
      <4>3. PICK new : new = {g[fix] : fix \in own}
        OBVIOUS
      <4>4. new = {[offset |-> fix.offset, length |-> fix.length, text |-> fix.text] : fix \in own}
        BY <4>2, <4>3
      <4>5. IsFiniteSet(new)
        <5>1. g \in Surjection(own, new)
          BY <4>2, <4>3 DEF Surjection
        <5>. QED
          BY <4>1, <5>1, FS_Surjection
      <4>6. new \subseteq NamedFixes
        <5>1. \A fix \in own : fix.offset \in Int /\ fix.length \in Nat /\ fix.text \in Seq(0..255)
          BY <4>1, ReportAssumption
        <5>. QED
          BY <4>4, <5>1 DEF NamedFixes
      <4>7. replacements'[path] = replacements[path] \cup new
        BY <2>2, <4>1, <4>4
      <4>8. IsFiniteSet(replacements[path] \cup new)
        BY <3>1, <4>5, FS_Union
      <4>. QED
        BY <3>1, <4>6, <4>7, <4>8
    <3>. QED
      BY <3>2 DEF NamingInv, ReplacementsOK
  <2>. QED
    BY <2>1, <2>2
<1>3. UNCHANGED <<disk, unread, originals, uncompared, unwritten, writing, edited>>
  OBVIOUS
<1>4. PhaseInv'
  BY <1>1, <1>3 DEF NamingInv, PhaseInv
<1>5. uncompared # {}
  BY <1>1 DEF NamingInv, PhaseInv
<1>6. ASSUME NEW path \in ProjectFiles PROVE FileInv(path)'
  <2>1. BeforeWriting(path) /\ ReadRight(path)
        /\ (edited[path] = "meanwhile" => path \in uncompared)
    BY <1>5 DEF NamingInv, FileInv
  <2>2. BeforeWriting(path)' /\ ReadRight(path)'
    BY <1>3, <2>1 DEF BeforeWriting, ByHand, ReadRight
  <2>3. disk'[path] \in {InitialBytes[path], EditedBytes}
    BY <1>3, <2>1 DEF BeforeWriting, ByHand
  <2>. QED
    BY <1>1, <1>3, <1>5, <2>1, <2>2, <2>3 DEF FileInv
<1>. QED
  BY <1>2, <1>3, <1>4, <1>6 DEF NamingInv

LEMMA NamingCheckStep ==
  ASSUME NamingInv, CheckFixes
  PROVE  NamingInv'
<1>. USE DEF CheckFixes
<1>1. /\ UNCHANGED <<disk, unread, originals, replacements, uncompared, unwritten, writing,
                     edited>>
      /\ phase = "check" /\ phase' \in {"compare", "stopped"}
  OBVIOUS
<1>2. ReplacementsOK' /\ PhaseInv'
  BY <1>1 DEF NamingInv, ReplacementsOK, PhaseInv
<1>3. ASSUME NEW path \in ProjectFiles PROVE FileInv(path)'
  <2>1. Updated(path)' = Updated(path) /\ Conflicting(path)' = Conflicting(path)
    BY <1>1, SameFixes
  <2>2. ASSUME phase' = "compare" PROVE ~ Conflicting(path)
    <3>1. CASE path \in Changed
      BY <2>2, <3>1
    <3>2. CASE path \notin Changed
      <4>1. replacements[path] = {}
        BY <3>2 DEF Changed
      <4>. QED
        BY <4>1, UnchangedFile DEF NamingInv
    <3>. QED
      BY <3>1, <3>2
  <2>3. FileInv(path)
    BY DEF NamingInv
  <2>. QED
    BY <1>1, <2>1, <2>2, <2>3 DEF FileInv, BeforeWriting, AfterComparing, ByHand, ReadRight
<1>. QED
  BY <1>1, <1>2, <1>3 DEF NamingInv

LEMMA NamingCompareStep ==
  ASSUME NamingInv, CompareFile
  PROVE  NamingInv'
<1>1. /\ UNCHANGED <<disk, unread, originals, replacements, writing, edited>>
      /\ phase = "compare" /\ uncompared # {} /\ unread = {} /\ unwritten = {} /\ writing = {}
  BY DEF CompareFile, NamingInv, PhaseInv
<1>2. ReplacementsOK'
  BY <1>1 DEF NamingInv, ReplacementsOK
<1>3. PICK file \in uncompared :
        IF disk[file] # originals[file]
          THEN phase' = "stopped" /\ UNCHANGED <<uncompared, unwritten>>
          ELSE /\ uncompared' = uncompared \ {file}
               /\ unwritten' = IF uncompared = {file} THEN Changed ELSE {}
               /\ phase' = IF uncompared # {file} THEN "compare"
                           ELSE IF Changed = {} THEN "applied" ELSE "write"
  BY DEF CompareFile
<1>4. Changed \subseteq ProjectFiles
  BY DEF Changed
<1>5. PhaseInv'
  BY <1>1, <1>3, <1>4 DEF NamingInv, PhaseInv
<1>6. ASSUME NEW path \in ProjectFiles PROVE FileInv(path)'
  <2>1. Updated(path)' = Updated(path) /\ Conflicting(path)' = Conflicting(path)
    BY <1>1, SameFixes
  <2>2. /\ BeforeWriting(path) /\ ReadRight(path) /\ ~ Conflicting(path)
        /\ edited[path] = "meanwhile" => path \in uncompared
    BY <1>1 DEF NamingInv, FileInv
  <2>3. disk'[path] \in {InitialBytes[path], EditedBytes}
    BY <1>1, <2>2 DEF BeforeWriting, ByHand
  <2>4. BeforeWriting(path)' /\ ReadRight(path)'
    BY <1>1, <2>2 DEF BeforeWriting, ByHand, ReadRight
  <2>5. edited[path] = "meanwhile" => path \in uncompared'
    <3>1. ASSUME edited[path] = "meanwhile" PROVE disk[path] # originals[path]
      BY <1>1, <2>2, <3>1, EditAssumption DEF BeforeWriting, ByHand, ReadRight
    <3>. QED
      BY <1>3, <2>2, <3>1
  <2>6. ASSUME uncompared' = {} PROVE AfterComparing(path)'
    <3>1. unwritten' = Changed
      BY <1>1, <1>3, <2>6
    <3>2. ASSUME edited[path] \in {"never", "early"}, path \notin Changed
          PROVE  disk[path] = Updated(path)
      <4>1. replacements[path] = {}
        BY <3>2 DEF Changed
      <4>2. Updated(path) = originals[path]
        BY <4>1, UnchangedFile DEF NamingInv
      <4>. QED
        BY <1>1, <2>2, <3>2, <4>2 DEF BeforeWriting, ByHand, ReadRight
    <3>. QED
      BY <1>1, <2>1, <2>2, <3>1, <3>2 DEF AfterComparing
  <2>. QED
    BY <1>1, <2>1, <2>2, <2>3, <2>4, <2>5, <2>6 DEF FileInv
<1>. QED
  BY <1>1, <1>2, <1>5, <1>6 DEF NamingInv

\* Steps of writing disturb only the file that is written.
LEMMA NamingOpenStep ==
  ASSUME NamingInv, OpenFile
  PROVE  NamingInv'
<1>1. /\ UNCHANGED <<unread, originals, replacements, uncompared, phase, edited>>
      /\ phase = "write" /\ uncompared = {} /\ writing = {}
  BY DEF OpenFile, NamingInv, PhaseInv
<1>2. PICK file \in unwritten :
        /\ \E n \in 0..Len(Updated(file)) :
             disk' = [disk EXCEPT ![file] = SubSeq(Updated(file), 1, n)]
        /\ unwritten' = unwritten \ {file}
        /\ writing' = {file}
  BY DEF OpenFile
<1>3. file \in ProjectFiles /\ disk = [path \in ProjectFiles |-> disk[path]]
  BY <1>2 DEF NamingInv, PhaseInv
<1>4. ReplacementsOK' /\ PhaseInv'
  BY <1>1, <1>2, <1>3 DEF NamingInv, ReplacementsOK, PhaseInv
<1>5. ASSUME NEW path \in ProjectFiles PROVE FileInv(path)'
  <2>1. Updated(path)' = Updated(path) /\ Conflicting(path)' = Conflicting(path)
    BY <1>1, SameFixes
  <2>2. FileInv(path)
    BY DEF NamingInv
  <2>3. path # file => disk'[path] = disk[path]
    BY <1>2, <1>3
  <2>. QED
    BY <1>1, <1>2, <2>1, <2>2, <2>3 DEF FileInv, AfterComparing, ReadRight
<1>. QED
  BY <1>1, <1>2, <1>3, <1>4, <1>5 DEF NamingInv

LEMMA NamingFinishStep ==
  ASSUME NamingInv, FinishFile
  PROVE  NamingInv'
<1>1. /\ UNCHANGED <<unread, originals, replacements, uncompared, unwritten, edited>>
      /\ phase = "write" /\ uncompared = {} /\ writing' = {}
      /\ phase' = IF unwritten = {} THEN "applied" ELSE "write"
  BY DEF FinishFile, NamingInv, PhaseInv
<1>2. PICK file \in writing :
        \/ disk' = [disk EXCEPT ![file] = Updated(file)]
        \/ /\ edited[file] = "open"
           /\ \/ UNCHANGED disk
              \/ \E n \in 0..Len(disk[file]) :
                   disk' = [disk EXCEPT ![file] = Overlaid(disk[file], Updated(file), n)]
  BY DEF FinishFile
<1>3. /\ file \in ProjectFiles /\ writing = {file}
      /\ disk = [path \in ProjectFiles |-> disk[path]]
  BY <1>2 DEF NamingInv, PhaseInv
<1>4. ReplacementsOK' /\ PhaseInv'
  BY <1>1 DEF NamingInv, ReplacementsOK, PhaseInv
<1>5. disk' = [path \in ProjectFiles |-> disk'[path]]
  BY <1>2, <1>3
<1>6. ASSUME NEW path \in ProjectFiles PROVE FileInv(path)'
  <2>1. Updated(path)' = Updated(path) /\ Conflicting(path)' = Conflicting(path)
    BY <1>1, SameFixes
  <2>2. FileInv(path)
    BY DEF NamingInv
  <2>3. CASE path # file
    <3>1. disk'[path] = disk[path] /\ path \notin writing
      BY <1>2, <1>3, <2>3
    <3>. QED
      BY <1>1, <2>1, <2>2, <3>1 DEF FileInv, AfterComparing, ReadRight
  <2>4. CASE path = file
    <3>1. disk'[path] = Updated(path) \/ edited[path] = "open"
      BY <1>2, <1>3, <2>4
    <3>. QED
      BY <1>1, <2>1, <2>2, <3>1 DEF FileInv, AfterComparing, ReadRight
  <2>. QED
    BY <2>3, <2>4
<1>. QED
  BY <1>1, <1>4, <1>5, <1>6 DEF NamingInv

LEMMA NamingStopStep ==
  ASSUME NamingInv, StopFixing
  PROVE  NamingInv'
<1>1. /\ UNCHANGED <<disk, unread, originals, replacements, uncompared, unwritten, writing,
                     edited>>
      /\ phase' = "stopped"
  BY DEF StopFixing
<1>2. ReplacementsOK' /\ PhaseInv'
  BY <1>1 DEF NamingInv, ReplacementsOK, PhaseInv
<1>3. ASSUME NEW path \in ProjectFiles PROVE FileInv(path)'
  <2>1. Updated(path)' = Updated(path) /\ Conflicting(path)' = Conflicting(path)
    BY <1>1, SameFixes
  <2>. QED
    BY <1>1, <2>1
       DEF NamingInv, FileInv, BeforeWriting, AfterComparing, ByHand, ReadRight
<1>. QED
  BY <1>1, <1>2, <1>3 DEF NamingInv

LEMMA NamingEditStep ==
  ASSUME NamingInv, NEW file \in ProjectFiles, EditFile(file)
  PROVE  NamingInv'
<1>1. /\ UNCHANGED <<unread, originals, replacements, uncompared, unwritten, writing, phase>>
      /\ edited[file] = "never"
      /\ disk' = [disk EXCEPT ![file] = EditedBytes]
      /\ edited' = [edited EXCEPT ![file] = Moment(file)]
  BY DEF EditFile
<1>2. ReplacementsOK' /\ PhaseInv'
  BY <1>1 DEF NamingInv, ReplacementsOK, PhaseInv
<1>3. /\ disk = [path \in ProjectFiles |-> disk[path]]
      /\ edited = [path \in ProjectFiles |-> edited[path]]
      /\ uncompared # {} => unwritten \cup writing = {}
  BY DEF NamingInv, PhaseInv
<1>4. PICK moment : moment = Moment(file)
  OBVIOUS
<1>5. /\ moment \in {"early", "meanwhile", "open", "late"}
      /\ moment = "early" => file \in unread
      /\ moment = "meanwhile" => file \notin unread /\ file \in uncompared
      /\ moment = "open" => file \in writing
      /\ moment \in {"open", "late"} => file \notin unread /\ file \notin uncompared
  BY <1>4 DEF Moment
<1>6. ASSUME NEW path \in ProjectFiles PROVE FileInv(path)'
  <2>1. FileInv(path)
    BY DEF NamingInv
  <2>2. Updated(path)' = Updated(path) /\ Conflicting(path)' = Conflicting(path)
    BY <1>1, SameFixes
  <2>3. /\ disk'[path] = IF path = file THEN EditedBytes ELSE disk[path]
        /\ edited'[path] = IF path = file THEN moment ELSE edited[path]
    BY <1>1, <1>3, <1>4
  <2>4. ReadRight(path)'
    BY <1>1, <1>5, <2>1, <2>3 DEF FileInv, ReadRight
  <2>5. ASSUME uncompared # {} PROVE BeforeWriting(path)'
    BY <1>1, <1>3, <1>5, <2>1, <2>3, <2>5 DEF FileInv, BeforeWriting, ByHand
  <2>6. ASSUME uncompared = {} PROVE AfterComparing(path)'
    <3>1. unread = {}
      BY <2>6 DEF NamingInv, PhaseInv
    <3>. QED
      BY <1>1, <1>5, <2>1, <2>2, <2>3, <2>6, <3>1 DEF FileInv, AfterComparing
  <2>. QED
    BY <1>1, <1>5, <2>1, <2>2, <2>3, <2>4, <2>5, <2>6 DEF FileInv
<1>. QED
  BY <1>1, <1>2, <1>3, <1>6 DEF NamingInv

LEMMA NamingsStep == NamingInv /\ [CommandsNext]_commandsVars => NamingInv'
<1>. SUFFICES ASSUME NamingInv, [CommandsNext]_commandsVars PROVE NamingInv'
  OBVIOUS
<1>1. CASE NamingNext
  BY <1>1, NamingReadStep, NamingAnalyzeStep, NamingCheckStep, NamingCompareStep,
     NamingOpenStep, NamingFinishStep, NamingStopStep, NamingEditStep DEF NamingNext
<1>2. CASE UNCHANGED namingVars
  BY <1>2, UntouchedNaming
<1>3. CASE CommandsNext
  BY <1>1, <1>2, <1>3 DEF CommandsNext
<1>4. CASE UNCHANGED commandsVars
  BY <1>2, <1>4 DEF commandsVars
<1>. QED
  BY <1>3, <1>4

LEMMA NamingGoal == NamingInv => FixesApplied
<1>. SUFFICES ASSUME NamingInv, NEW path \in ProjectFiles
              PROVE  /\ Whole(path) \/ writing = {path} \/ edited[path] = "open"
                     /\ edited[path] = "meanwhile" =>
                          /\ disk[path] = EditedBytes
                          /\ \A other \in ProjectFiles :
                               disk[other] \in {InitialBytes[other], EditedBytes}
                     /\ phase = "applied" /\ edited[path] \in {"never", "early"} =>
                          disk[path] = Simultaneously(path)
  BY DEF FixesApplied
<1>1. /\ FileInv(path)
      /\ phase = "applied" => uncompared = {} /\ unwritten \cup writing = {}
  BY DEF NamingInv, PhaseInv
<1>2. ~ Conflicting(path) => Updated(path) = Simultaneously(path)
  BY UpdatedTogether DEF NamingInv
<1>3. Whole(path) \/ writing = {path} \/ edited[path] = "open"
  BY <1>1, <1>2 DEF FileInv, Whole
<1>4. ASSUME edited[path] = "meanwhile"
      PROVE  /\ disk[path] = EditedBytes
             /\ \A other \in ProjectFiles : disk[other] \in {InitialBytes[other], EditedBytes}
  <2>1. \A other \in ProjectFiles : disk[other] = ByHand(other)
    BY <1>1, <1>4 DEF NamingInv, FileInv, BeforeWriting
  <2>. QED
    BY <1>4, <2>1 DEF ByHand
<1>5. phase = "applied" /\ edited[path] \in {"never", "early"} =>
        disk[path] = Simultaneously(path)
  BY <1>1, <1>2 DEF FileInv, AfterComparing
<1>. QED
  BY <1>3, <1>4, <1>5

\* FixesApplied for every set of files, of bytes and of fixes that clang-tidy may
\* propose, and for edits and kills at any time, with the exceptions FixesApplied
\* names: what is read before the first analysis is compared after the last, and
\* fixes that do not overlap give the same from the end as at once.
THEOREM FixesAreApplied == CommandsSpec => []FixesApplied
<1>1. CommandsInit => NamingInv
  BY NamingInitInv DEF CommandsInit
<1>2. NamingInv /\ [CommandsNext]_commandsVars => NamingInv'
  BY NamingsStep
<1>3. NamingInv => FixesApplied
  BY NamingGoal
<1>. QED
  BY <1>1, <1>2, <1>3, PTL DEF CommandsSpec
=============================================================================
