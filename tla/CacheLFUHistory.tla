--------------------------- MODULE CacheLFUHistory ---------------------------
(***************************************************************************)
(* CacheLFU with its uses recorded independently of its list and counts:   *)
(* the completed uses, in order, of the keys that are resident, each since *)
(* it was loaded.  It restricts no action.                                 *)
(***************************************************************************)
EXTENDS CacheLFU

VARIABLE uses  \* the uses of resident keys since each was loaded, oldest first

historyVars == <<cache_, frequency, pageIndex_, calls, uses>>

HistoryInit ==
  /\ Init
  /\ uses = <<>>

\* A key is used when its call hits or when its page is stored; the uses of
\* a page are forgotten with it.
Use(key) ==
  /\ Hit(key) \/ Insert(key)
  /\ uses' = Among(Append(uses, key), Resident')

NoUse(key) ==
  /\ Miss(key) \/ InsertThrows(key) \/ InsertDuplicate(key) \/ LoadThrows(key)
  /\ UNCHANGED uses

HistoryNext == \E key \in Key : Use(key) \/ NoUse(key)

HistorySpec == HistoryInit /\ [][HistoryNext]_historyVars

UsesOf(key) == Cardinality({i \in DOMAIN uses : uses[i] = key})

LastUseOf(key) == Max({i \in DOMAIN uses : uses[i] = key})

\* A page that makes room for another has been used least often since it was
\* loaded, and least recently of the pages used as rarely.
EvictsLeastUsed ==
  [][\A victim \in Resident \ Resident' : \A kept \in Resident \ {victim} :
       \/ UsesOf(victim) < UsesOf(kept)
       \/ UsesOf(victim) = UsesOf(kept) /\ LastUseOf(victim) < LastUseOf(kept)]_historyVars
=============================================================================
