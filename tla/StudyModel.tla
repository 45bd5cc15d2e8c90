----------------------------- MODULE StudyModel -----------------------------
(***************************************************************************)
(* The strategies and the layouts that the benchmark and the studies try:  *)
(* CACHE_STRATEGIES of cacheBenchmarks/cache_benchmark.py, and             *)
(* cacheBenchmarks/research/model.py.                                      *)
(***************************************************************************)
EXTENDS Lists, Integers

CONSTANT CACHE_STRATEGIES  \* a sequence

\* The results of nested loops, one after the other.
Combined(Op(_), seq) == FlattenSeq([i \in DOMAIN seq |-> Op(seq[i])])

\* itertools.product(strategies, repeat=levels), in its order.
Products(strategies, levels) ==
  LET WithNext(chosen) == [i \in DOMAIN strategies |-> Append(chosen, strategies[i])]
      product[n \in 0..levels] ==
        IF n = 0 THEN << <<>> >> ELSE Combined(WithNext, product[n - 1])
  IN product[levels]

\* dict.fromkeys: every item where it occurs first.
FromKeys(seq) ==
  LET first == {i \in DOMAIN seq : \A j \in 1..(i - 1) : seq[j] # seq[i]}
      order == Among([i \in DOMAIN seq |-> i], first)
  IN [i \in DOMAIN order |-> seq[order[i]]]

\* Tuples as Python sorts them.
SortedTuples(tuples) ==
  SortedBy(tuples, {pair \in tuples \X tuples : Precedes(pair[1], pair[2])})

valid_strategies(strategies, capacities) ==
  /\ Len(strategies) = Len(capacities)
  /\ \A i \in DOMAIN strategies :
       capacities[i] >= IF strategies[i] \in {"2Q", "LIRS"} THEN 2 ELSE 1

\* hierarchy_layouts, as a set; none where it raises.
hierarchy_layouts(total_capacity, l1_sizes, l2_sizes, limits) ==
  LET accepted ==
        /\ total_capacity >= 3
        /\ Len(limits) = 3 /\ \A i \in 1..3 : limits[i] >= 1
        /\ l1_sizes # {} /\ l2_sizes # {}
        /\ \A size \in l1_sizes \cup l2_sizes : size >= 1
      candidates ==
        {<<l1, l2, total_capacity - l1 - l2>> : l1 \in l1_sizes, l2 \in l2_sizes}
  IN {capacities \in candidates :
        /\ accepted
        /\ \A i \in 1..3 : capacities[i] \in 1..limits[i]
        /\ capacities[1] <= capacities[2] /\ capacities[2] <= capacities[3]}

\* software_sizes: dense around the hot set and the lengths of the two cycles.
software_sizes(workload_scale) ==
  LET AtLeastOne(size) == Max({1, size})
      thresholds == {AtLeastOne(workload_scale \div 8), workload_scale \div 2,
                     workload_scale, 4 * workload_scale}
  IN {1, 2, 4, 8, 16, 24, 32, 48, 64, 96, 192, 256, 384, 512, 768, 1024}
       \cup (UNION {{AtLeastOne(t - 1), t, t + 1} : t \in thresholds})
       \cup {AtLeastOne(workload_scale \div 4), AtLeastOne((3 * workload_scale) \div 4)}
=============================================================================
