---------------------------- MODULE IdealMisses ----------------------------
(***************************************************************************)
(* countIdealMisses of the exact search                                    *)
(* (cacheBenchmarks/cache_exact_search.cpp) and min_misses of the research *)
(* scripts (cacheBenchmarks/research/reference.py), which are the same     *)
(* algorithm: Belady's MIN with a priority queue of next uses in which     *)
(* entries become stale, are skipped when they come to the top, and are    *)
(* thrown out when they have become too many.                              *)
(*                                                                         *)
(* The two break ties between keys differently; either choice is allowed   *)
(* here.                                                                   *)
(***************************************************************************)
EXTENDS Belady

CONSTANTS
  Traces,      \* the request sequences explored
  Capacities   \* the cache sizes explored

ASSUME TracesAssumption == \A trace \in Traces : trace \in Seq(ToSet(trace))
ASSUME CapacitiesAssumption == Capacities \subseteq Nat \ {0}

VARIABLES
  requests,         \* the arguments of the call
  capacity,
  index,            \* the request being served
  evicting,         \* the loop that looks for a page to evict is running
  residentNextUse,  \* the next use of every cached key
  evictionQueue,    \* entries <<next use, key>>, the farthest on top
  misses

idealVars == <<requests, capacity, index, evicting, residentNextUse, evictionQueue,
          misses>>

IdealInit ==
  /\ requests \in Traces
  /\ capacity \in Capacities
  /\ index = 1
  /\ evicting = FALSE
  /\ residentNextUse = <<>>
  /\ evictionQueue = {}
  /\ misses = 0

-----------------------------------------------------------------------------

Cached == DOMAIN residentNextUse

\* The first pass: where the key of a request is requested next.
NextUse(position) == NextRequest(requests, position + 1, requests[position])

Entries(nextUse) == {<<nextUse[key], key>> : key \in DOMAIN nextUse}

\* Mutant of Compacted: the queue is emptied and not filled again.
CompactedEmpty(queue, nextUse) ==
  IF Cardinality(queue) > 4 * capacity THEN {} ELSE queue

\* The queue without its stale entries, once it is four times the cache.
\* An entry occurs once: a key has a given next use at one request only.
Compacted(queue, nextUse) ==
  IF Cardinality(queue) > 4 * capacity THEN Entries(nextUse) ELSE queue

\* Mutant of Admit: a hit queues its next use without recording it.
AdmitOnMiss(nextUse, queue) ==
  LET key == requests[index]
      after == [k \in DOMAIN nextUse \cup {key} |->
                  IF k \in DOMAIN nextUse THEN nextUse[k] ELSE NextUse(index)]
  IN /\ residentNextUse' = after
     /\ evictionQueue' = Compacted(queue \cup {<<NextUse(index), key>>}, after)
     /\ index' = index + 1
     /\ evicting' = FALSE

\* The end of a request: the key is cached with its new next use.
Admit(nextUse, queue) ==
  LET key == requests[index]
      after == [k \in DOMAIN nextUse \cup {key} |-> IF k = key THEN NextUse(index) ELSE nextUse[k]]
  IN /\ residentNextUse' = after
     /\ evictionQueue' = Compacted(queue \cup {<<NextUse(index), key>>}, after)
     /\ index' = index + 1
     /\ evicting' = FALSE

\* The next request is there to be served.
Serving(key) ==
  /\ ~ evicting
  /\ index <= Len(requests)
  /\ requests[index] = key

IdealHit(key) ==
  /\ Serving(key)
  /\ key \in Cached
  /\ Admit(residentNextUse, evictionQueue)
  /\ UNCHANGED <<requests, capacity, misses>>

MissWithRoom(key) ==
  /\ Serving(key)
  /\ key \notin Cached
  /\ Cardinality(Cached) # capacity
  /\ misses' = misses + 1
  /\ Admit(residentNextUse, evictionQueue)
  /\ UNCHANGED <<requests, capacity>>

MissWhenFull(key) ==
  /\ Serving(key)
  /\ key \notin Cached
  /\ Cardinality(Cached) = capacity
  /\ misses' = misses + 1
  /\ evicting' = TRUE
  /\ UNCHANGED <<requests, capacity, index, residentNextUse, evictionQueue>>

\* The entries that may be on top of the queue.
Top == {entry \in evictionQueue :
          \A other \in evictionQueue : other[1] <= entry[1]}

Current(entry) == entry \in Entries(residentNextUse)

PopStale(entry) ==
  /\ evicting
  /\ ~ Current(entry)
  /\ evictionQueue' = evictionQueue \ {entry}
  /\ UNCHANGED <<requests, capacity, index, evicting, residentNextUse, misses>>

Evict(entry) ==
  /\ evicting
  /\ Current(entry)
  /\ Admit([key \in Cached \ {entry[2]} |-> residentNextUse[key]],
           evictionQueue \ {entry})
  /\ UNCHANGED <<requests, capacity, misses>>

\* The call has returned.
Finished == index > Len(requests) /\ UNCHANGED idealVars

IdealNext ==
  \/ \E key \in ToSet(requests) : IdealHit(key) \/ MissWithRoom(key) \/ MissWhenFull(key)
  \/ \E entry \in Top : PopStale(entry) \/ Evict(entry)
  \/ Finished

IdealSpec == IdealInit /\ [][IdealNext]_idealVars

-----------------------------------------------------------------------------

\* The queue holds the present entry of every cached key, through stale
\* entries, evictions and compactions, so that the loop that pops it always
\* finds a page before it runs dry; and it never outgrows its bound.
QueueCoversCache ==
  /\ Entries(residentNextUse) \subseteq evictionQueue
  /\ Cardinality(evictionQueue) <= 4 * capacity
  /\ Cardinality(Cached) <= capacity
  /\ evicting => evictionQueue # {}

\* After every request the misses so far and the fewest misses with which the
\* rest can be served from the pages cached add up to the fewest misses of any
\* cache of this size: the count is a true lower bound for every policy.  It is
\* the count of the cache that always evicts the farthest page, too.
CountIsMinimal ==
  /\ ~ evicting =>
       misses + MinMissesFrom(requests, capacity)[index][Cached]
         = MinMisses(requests, capacity)
  /\ index > Len(requests) => misses = FarthestMisses(requests, capacity)
=============================================================================
