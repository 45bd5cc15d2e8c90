----------------------------- MODULE Reference2Q -----------------------------
(***************************************************************************)
(* The linear model of the 2Q policy that the tests compare Cache2Q with   *)
(* (tests/2Q_tests.cpp, Reference2Q): three plain sequences, no index, no  *)
(* staging.  Its access(key) is cut at the loader, as a call of the cache  *)
(* is, so that it also says what nested and failing calls should do.       *)
(***************************************************************************)
EXTENDS CacheCall

CONSTANTS a1inTargetSize_, ghostLimit_

VARIABLES
  recent,    \* A1in
  repeated,  \* Am
  history    \* A1out

vars == <<recent, repeated, history, calls>>

Init ==
  /\ recent = <<>>
  /\ repeated = <<>>
  /\ history = <<>>
  /\ calls = <<>>

Cached(key) == Contains(recent, key) \/ Contains(repeated, key)

AccessRecent(key) ==
  /\ Contains(recent, key)
  /\ UNCHANGED vars

AccessRepeated(key) ==
  /\ Contains(repeated, key)
  /\ repeated' = SpliceToFront(repeated, key)
  /\ UNCHANGED <<recent, history, calls>>

Miss(key) ==
  /\ ~ Cached(key)
  /\ Enter(key)
  /\ UNCHANGED <<recent, repeated, history>>

\* history after a push to its front.
Limited(keys) == IF Len(keys) > ghostLimit_ THEN Front(keys) ELSE keys

\* The rest of access once the page is loaded.
Store(key) ==
  LET promote == Contains(history, key)
      ghosts == RemoveFirst(history, key)
      full == Len(recent) + Len(repeated) = Capacity
      fromRecent == Len(recent) > a1inTargetSize_ \/ repeated = <<>>
      recentLeft == IF full /\ fromRecent THEN Front(recent) ELSE recent
      repeatedLeft == IF full /\ ~ fromRecent THEN Front(repeated) ELSE repeated
  IN /\ Leave(key)
     /\ ~ Cached(key)
     /\ history' = IF full /\ fromRecent
                     THEN Limited(Cons(Last(recent), ghosts))
                     ELSE ghosts
     /\ recent' = IF promote THEN recentLeft ELSE Cons(key, recentLeft)
     /\ repeated' = IF promote THEN Cons(key, repeatedLeft) ELSE repeatedLeft

Fail(key) ==
  /\ Leave(key)
  /\ UNCHANGED <<recent, repeated, history>>

Next ==
  \E key \in Key :
    \/ AccessRecent(key)
    \/ AccessRepeated(key)
    \/ Miss(key)
    \/ Store(key)
    \/ Fail(key)

Spec == Init /\ [][Next]_vars
=============================================================================
