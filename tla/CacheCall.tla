------------------------------ MODULE CacheCall ------------------------------
(***************************************************************************)
(* The calling protocol of cache::Cache<T, KeyT>::lookupUpdate, shared by  *)
(* every replacement policy.                                               *)
(*                                                                         *)
(* A call asks the policy for the page (getPage).  On a miss it runs the   *)
(* user's loader and hands the page to the policy (insert).  Between the   *)
(* two the cache is in the hands of the loader, which may call the same    *)
(* cache again, so the unfinished calls form a stack: calls[Len(calls)] is *)
(* the call whose loader is running now.  Exceptions end the innermost     *)
(* call; an enclosing loader may catch them or let them pass.              *)
(***************************************************************************)
EXTENDS Lists

CONSTANTS
  Key,        \* the keys a client asks for
  Capacity,   \* size_ of the cache
  MaxDepth    \* bound: how deep loaders re-enter the cache

\* Cache's constructor rejects capacity 0.
ASSUME CapacityAssumption == Capacity \in Nat \ {0}
ASSUME MaxDepthAssumption == MaxDepth \in Nat \ {0}

\* For TLC: no policy but REF looks into a key, so that keys may be exchanged.
KeySymmetry == Permutations(Key)

VARIABLE calls  \* the keys of the unfinished lookupUpdate calls, outermost first

CallsTypeOK ==
  /\ calls \in Seq(Key)
  /\ Len(calls) <= MaxDepth

\* getPage found no page: the loader starts.
Enter(key) ==
  /\ Len(calls) < MaxDepth
  /\ calls' = Append(calls, key)

\* The innermost call, for key, ends: by return or by an exception.
Leave(key) ==
  /\ calls # <<>>
  /\ key = Last(calls)
  /\ calls' = Front(calls)

\* A step that ends a call.
CallEnds == Len(calls') < Len(calls)
=============================================================================
