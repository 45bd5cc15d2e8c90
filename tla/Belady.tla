------------------------------- MODULE Belady -------------------------------
(***************************************************************************)
(* The reference that an optimal cache is measured against: the smallest   *)
(* number of misses with which any cache of a given size that loads pages  *)
(* on demand can serve a request sequence, by trying every eviction.       *)
(***************************************************************************)
EXTENDS SequencesExt

\* For TLC: one sequence for each pattern of equal and different requests, keys
\* being numbered in the order of their first request.
NumberedByFirst(requests) ==
  \A i \in DOMAIN requests : \A key \in 1..(requests[i] - 1) :
    \E j \in 1..(i - 1) : requests[j] = key

\* The misses of the best continuation from position i with pages cached.
MinMissesFrom(requests, capacity) ==
  LET pages == ToSet(requests)
      best[i \in 1..(Len(requests) + 1)] ==
        [cached \in SUBSET pages |->
           IF i > Len(requests) THEN 0
           ELSE IF requests[i] \in cached THEN best[i + 1][cached]
           ELSE LET kept == IF Cardinality(cached) < capacity THEN {cached}
                            ELSE {cached \ {victim} : victim \in cached}
                IN 1 + Min({best[i + 1][rest \cup {requests[i]}] : rest \in kept})]
  IN best

MinMisses(requests, capacity) == MinMissesFrom(requests, capacity)[1][{}]

\* The position of the next request for key from position i on; one past the
\* end if there is none.
NextRequest(requests, i, key) ==
  Min({later \in i..Len(requests) : requests[later] = key} \cup {Len(requests) + 1})

\* The misses of a cache that always evicts a page whose next request is the
\* farthest away.
FarthestMisses(requests, capacity) ==
  LET serve(run, i) ==
        LET key == requests[i]
            farthest == CHOOSE victim \in run.cached : \A other \in run.cached :
                          NextRequest(requests, i, other) <= NextRequest(requests, i, victim)
            kept == IF Cardinality(run.cached) < capacity THEN run.cached
                    ELSE run.cached \ {farthest}
        IN IF key \in run.cached THEN run
           ELSE [cached |-> kept \cup {key}, misses |-> run.misses + 1]
      positions == [i \in DOMAIN requests |-> i]
  IN FoldLeft(serve, [cached |-> {}, misses |-> 0], positions).misses
=============================================================================
