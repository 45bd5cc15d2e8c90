-------------------------------- MODULE Cache --------------------------------
(***************************************************************************)
(* What every policy promises to a client of Cache::lookupUpdate, whatever *)
(* it evicts: the specification that each policy module implements.        *)
(*                                                                         *)
(* resident is the set of keys that lookup would find.  A hit or a failed  *)
(* call leaves it alone; a completed miss adds exactly its own key, and a  *)
(* page is given up only for lack of room, and then only one.              *)
(***************************************************************************)
EXTENDS CacheCall

VARIABLE resident

vars == <<resident, calls>>

TypeOK ==
  /\ resident \subseteq Key
  /\ CallsTypeOK

Init ==
  /\ resident = {}
  /\ calls = <<>>

\* getPage finds no page for key: the miss is counted and the loader starts.
Miss(key) ==
  /\ key \notin resident
  /\ Enter(key)
  /\ UNCHANGED resident

\* The loader has returned and insert stores its page.
Insert(key) ==
  /\ Leave(key)
  /\ key \notin resident
  /\ IF Cardinality(resident) < Capacity
       THEN resident' = resident \cup {key}
       ELSE \E victim \in resident :
              resident' = (resident \ {victim}) \cup {key}

\* The loader or insert throws: the call leaves no trace in the cache.
Fail(key) ==
  /\ Leave(key)
  /\ UNCHANGED resident

Next == \E key \in Key : Miss(key) \/ Insert(key) \/ Fail(key)

Spec == Init /\ [][Next]_vars
=============================================================================
