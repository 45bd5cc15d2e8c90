--------------------------- MODULE MC_BatchRunner ---------------------------
(* BatchRunner with a few experiments, for TLC. *)
EXTENDS BatchRunner

\* A single level, two levels, and what the runner refuses: 2Q with one page,
\* REF above another level.
MCStrategies == {<<"LRU">>, <<"2Q">>, <<"REF", "LRU">>}

MCBatchCapacities == {<<1>>, <<2>>, <<1, 2>>}
=============================================================================
