------------------------ MODULE MC_UnrestrictedStudy ------------------------
(* UnrestrictedStudy with small studies in one directory, for TLC. *)
EXTENDS UnrestrictedStudy

\* Studies with more patterns than threads, and studies of one size whose
\* points differ.
MCArguments ==
  {[patterns |-> <<"scan", "hot", "uniform">>, totals |-> <<8, 16>>],
   [patterns |-> <<"hot">>, totals |-> <<8>>],
   [patterns |-> <<"hot">>, totals |-> <<16>>]}
=============================================================================
