---------------------------- MODULE PolicyReplay ----------------------------
(***************************************************************************)
(* What a fresh cache of some policy does to a whole sequence of requests  *)
(* whose loads all succeed: collectMissRequests of                         *)
(* cacheBenchmarks/cache_exact_search.cpp.  Three of its five policies are *)
(* here, as plain functions on the pages in the order the policies keep    *)
(* them in; the calls, indexes and failures of the policies are in the     *)
(* modules of their own.  2Q is the one that needs two slots.              *)
(***************************************************************************)
EXTENDS SequencesExt

\* policyNames, in the order in which the search tries them.
policyNames == <<"LRU", "LFU", "2Q">>

Policy == DOMAIN policyNames

isPolicySupported(policy, capacity) ==
  capacity >= IF policyNames[policy] = "2Q" THEN 2 ELSE 1

\* LRU: the last used page first.
AccessLRU(capacity, pages, key) ==
  LET others == RemoveFirst(pages, key)
  IN Cons(key, IF Len(others) = capacity THEN Front(others) ELSE others)

\* LFU: the last used page last, with the uses since its load.  The victim is
\* the first of the least used.
AccessLFU(capacity, pages, key) ==
  LET own == SelectSeq(pages, LAMBDA page : page.key = key)
      others == SelectSeq(pages, LAMBDA page : page.key # key)
      least == SelectInSeq(others, LAMBDA page :
                 \A other \in ToSet(others) : page.uses <= other.uses)
      kept == IF Len(others) = capacity THEN RemoveAt(others, least) ELSE others
  IN Append(kept, [key |-> key, uses |-> IF own = <<>> THEN 1 ELSE own[1].uses + 1])

\* 2Q: the queues A1in and Am of pages, A1out of keys, the newest first.
Access2Q(capacity, queues, key) ==
  LET ghost == Contains(queues.a1out, key)
      full == Len(queues.a1in) + Len(queues.am) = capacity
      fromA1in == full /\ \/ Len(queues.a1in) > Max({1, capacity \div 4})
                          \/ queues.am = <<>>
      fromAm == full /\ ~ fromA1in
      a1in == IF fromA1in THEN Front(queues.a1in) ELSE queues.a1in
      am == IF fromAm THEN Front(queues.am) ELSE queues.am
      older == RemoveFirst(queues.a1out, key)
      a1out == IF fromA1in THEN Cons(Last(queues.a1in), older) ELSE older
      limit == Max({1, capacity \div 2})
  IN IF Contains(queues.a1in, key) THEN queues
     ELSE IF Contains(queues.am, key)
       THEN [queues EXCEPT !.am = Cons(key, RemoveFirst(@, key))]
     ELSE [a1in  |-> IF ghost THEN a1in ELSE Cons(key, a1in),
           am    |-> IF ghost THEN Cons(key, am) ELSE am,
           a1out |-> IF Len(a1out) > limit THEN Front(a1out) ELSE a1out]

\* A cache of a policy: its first state, the keys it holds, and a request.
makeCache(policy) ==
  IF policyNames[policy] = "2Q" THEN [a1in |-> <<>>, am |-> <<>>, a1out |-> <<>>]
  ELSE <<>>

Holds(policy, cache, key) ==
  CASE policyNames[policy] = "LRU" -> Contains(cache, key)
    [] policyNames[policy] = "LFU" -> \E i \in DOMAIN cache : cache[i].key = key
    [] policyNames[policy] = "2Q"  -> Contains(cache.a1in, key) \/ Contains(cache.am, key)

Access(policy, capacity, cache, key) ==
  CASE policyNames[policy] = "LRU" -> AccessLRU(capacity, cache, key)
    [] policyNames[policy] = "LFU" -> AccessLFU(capacity, cache, key)
    [] policyNames[policy] = "2Q"  -> Access2Q(capacity, cache, key)

\* The requests that miss, in order: those the next level sees.
collectMissRequests(requests, policy, capacity) ==
  LET serve(run, key) ==
        [cache  |-> Access(policy, capacity, run.cache, key),
         misses |-> IF Holds(policy, run.cache, key) THEN run.misses
                    ELSE Append(run.misses, key)]
      start == [cache |-> makeCache(policy), misses |-> <<>>]
  IN FoldLeft(serve, start, requests).misses
=============================================================================
