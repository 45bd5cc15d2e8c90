------------------------------- MODULE Lists -------------------------------
(***************************************************************************)
(* Operations on lists that several modules use.                           *)
(***************************************************************************)
EXTENDS SequencesExt

(***************************************************************************)
(* std::list as the policies use it: begin() is position 1, every key has  *)
(* at most one record, and splice moves a record without copying it.       *)
(***************************************************************************)
SpliceToFront(list, key) == Cons(key, RemoveFirst(list, key))

SpliceToBack(list, key) == Append(RemoveFirst(list, key), key)

\* The items of a list that are in a set, in their order: SelectSeq, in a form
\* that can be reasoned about.
Among(list, set) ==
  FoldLeft(LAMBDA kept, item : IF item \in set THEN Append(kept, item) ELSE kept, <<>>, list)

\* The order of Python's tuples and bytes.
Precedes(s, t) ==
  \E i \in DOMAIN t :
    /\ i \in DOMAIN s => s[i] < t[i]
    /\ \A j \in 1..(i - 1) : j \in DOMAIN s /\ s[j] = t[j]

\* A finite set in the order of a set of pairs: each item has a place after
\* those before it.
SortedBy(set, before) ==
  [i \in 1..Cardinality(set) |->
     CHOOSE x \in set : Cardinality({y \in set : <<y, x>> \in before}) = i - 1]

\* What is left in a file of two that write it at a time: the one that has opened
\* it last has emptied and written it when the other goes on after its first n
\* items, over what is there.
Overlaid(under, over, n) ==
  [i \in 1..Max({Len(under), Len(over)}) |->
     IF i <= n \/ i > Len(over) THEN under[i] ELSE over[i]]

\* A fix replaces length items after the first offset ones.
Replaced(contents, fix) ==
  SubSeq(contents, 1, fix.offset) \o fix.text
    \o SubSeq(contents, fix.offset + fix.length + 1, Len(contents))

\* The fixes of a list, the last one first.
ReplacedFromEnd(contents, fixes) ==
  FoldRight(LAMBDA fix, changed : Replaced(changed, fix), fixes, contents)

\* All fixes at once: before the first what was there, and from each to the next
\* its text and what was there after the range it replaces.
ReplacedAtOnce(contents, fixes) ==
  LET start(i) == IF i \in DOMAIN fixes THEN fixes[i].offset ELSE Len(contents)
      end(i) == fixes[i].offset + fixes[i].length
  IN SubSeq(contents, 1, start(1))
       \o FlattenSeq([i \in DOMAIN fixes |->
            fixes[i].text \o SubSeq(contents, end(i) + 1, start(i + 1))])
=============================================================================
