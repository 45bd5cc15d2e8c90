--------------------------- MODULE MC_CacheSystem ---------------------------
(* CacheSystemHistory with three levels and a few interchangeable keys, for TLC. *)
EXTENDS CacheSystemHistory

CONSTANTS k1, k2, k3, k4

MCKey == {k1, k2, k3, k4}

MCLevelSize == <<1, 2, 3>>

KeySymmetry == Permutations(MCKey)

Contract(level) ==
  INSTANCE Cache WITH Capacity <- LevelSize[level],
                      resident <- Resident(level),
                      calls <- WaitingAt(level)

\* Every level by itself is a cache: what the other levels do, and a failure
\* above or below it, changes none of its pages.
LevelsAreCaches ==
  /\ \A level \in Level : Contract(level)!Init
  /\ [][\A level \in Level :
          Contract(level)!Next \/ UNCHANGED Contract(level)!vars]_vars
=============================================================================
