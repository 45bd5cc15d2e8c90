--------------------------- MODULE CacheARCProofs ---------------------------
(***************************************************************************)
(* Theorems about CacheARC and its history, for every set of keys, every   *)
(* capacity and every depth of nested calls.                               *)
(***************************************************************************)
EXTENDS CacheARCHistory, ListProofs

\* Starting a call keeps the stack within its bound.
LEMMA EnterKeepsCalls ==
  ASSUME NEW key \in Key, CallsTypeOK, Enter(key)
  PROVE  CallsTypeOK'
BY MaxDepthAssumption DEF CallsTypeOK, Enter

\* A call that ends takes its key, and nothing else, off the stack.
LEMMA LeaveKeepsCalls ==
  ASSUME NEW key, CallsTypeOK, Leave(key)
  PROVE  /\ CallsTypeOK'
         /\ Len(calls') = Len(calls) - 1
         /\ key \in Key
         /\ key = Last(calls)
BY FrontFacts, MaxDepthAssumption DEF CallsTypeOK, Leave

\* The names of the four lists are different.
LEMMA Names ==
  /\ ListName = {T1, T2, B1, B2}
  /\ T1 # T2 /\ T1 # B1 /\ T1 # B2 /\ T2 # B1 /\ T2 # B2 /\ B1 # B2
  /\ NoList \notin ListName
BY DEF ListName, T1, T2, B1, B2, NoList

-----------------------------------------------------------------------------
(***************************************************************************)
(* Four lists and an index that agree, and the moves that keep them so.    *)
(***************************************************************************)

FiledUnder(index, name) == {key \in Key : index[key] = name}

\* Every list holds exactly the keys that the index files under its name.
Agree(lists, index) ==
  /\ lists \in [ListName -> Seq(Key)]
  /\ index \in [Key -> ListName \cup {NoList}]
  /\ \A name \in ListName : Holds(lists[name], FiledUnder(index, name))

\* A list of some of the keys.
LEMMA ListOfKeys ==
  ASSUME NEW keyList, NEW keys \in SUBSET Key, Holds(keyList, keys)
  PROVE  keyList \in Seq(Key)
BY HoldsKeys

\* The moves: on the lists, and on the index.
WithoutBack(lists, name) == [lists EXCEPT ![name] = Front(@)]

Without(lists, name, key) == [lists EXCEPT ![name] = RemoveFirst(@, key)]

With(lists, name, key) == [lists EXCEPT ![name] = Cons(key, @)]

Refiled(index, key, name) == [index EXCEPT ![key] = name]

\* Forgetting the record at the back of a list.
LEMMA ForgetBack ==
  ASSUME NEW lists, NEW index, Agree(lists, index),
         NEW name \in ListName, lists[name] # <<>>
  PROVE  /\ Last(lists[name]) \in Key
         /\ index[Last(lists[name])] = name
         /\ Agree(WithoutBack(lists, name),
                  Refiled(index, Last(lists[name]), NoList))
         /\ Len(WithoutBack(lists, name)[name]) = Len(lists[name]) - 1
         /\ \A n \in ListName \ {name} : WithoutBack(lists, name)[n] = lists[n]
<1>1. PICK v : v = Last(lists[name])
  OBVIOUS
<1>2. PICK after : after = WithoutBack(lists, name)
  OBVIOUS
<1>3. /\ lists \in [ListName -> Seq(Key)]
      /\ index \in [Key -> ListName \cup {NoList}]
      /\ \A n \in ListName : Holds(lists[n], FiledUnder(index, n))
  BY DEF Agree
<1>4. after[name] = Front(lists[name]) /\ \A n \in ListName \ {name} : after[n] = lists[n]
  BY <1>2, <1>3 DEF WithoutBack
<1>5. /\ Holds(after[name], FiledUnder(index, name) \ {v})
      /\ v \in FiledUnder(index, name)
      /\ Len(after[name]) = Len(lists[name]) - 1
  BY <1>1, <1>3, <1>4, HoldsFront
<1>6. \A n \in ListName : Holds(after[n], FiledUnder(index, n) \ {v})
  <2>1. \A n \in ListName \ {name} : FiledUnder(index, n) \ {v} = FiledUnder(index, n)
    BY <1>5 DEF FiledUnder
  <2>. QED
    BY <2>1, <1>3, <1>4, <1>5
<1>7. \A n \in ListName :
        FiledUnder(Refiled(index, v, NoList), n) = FiledUnder(index, n) \ {v}
  BY <1>3, <1>5, Names DEF Refiled, FiledUnder
<1>8. Refiled(index, v, NoList) \in [Key -> ListName \cup {NoList}]
  BY <1>3, <1>5, Names DEF Refiled, FiledUnder
<1>9. after \in [ListName -> Seq(Key)]
  <2>1. \A n \in ListName : after[n] \in Seq(Key)
    BY <1>6, ListOfKeys DEF FiledUnder
  <2>. QED
    BY <2>1, <1>2, <1>3 DEF WithoutBack
<1>10. Agree(after, Refiled(index, v, NoList))
  BY <1>6, <1>7, <1>8, <1>9 DEF Agree
<1>. QED
  BY <1>1, <1>2, <1>4, <1>5, <1>10 DEF FiledUnder

\* Unlinking the record of an indexed key.
LEMMA Unlink ==
  ASSUME NEW lists, NEW index, Agree(lists, index),
         NEW key \in Key, index[key] \in ListName
  PROVE  /\ Agree(Without(lists, index[key], key),
                  Refiled(index, key, NoList))
         /\ Len(Without(lists, index[key], key)[index[key]])
              = Len(lists[index[key]]) - 1
         /\ \A n \in ListName \ {index[key]} :
              Without(lists, index[key], key)[n] = lists[n]
<1>1. PICK name \in ListName : name = index[key]
  OBVIOUS
<1>2. PICK after : after = Without(lists, name, key)
  OBVIOUS
<1>3. /\ lists \in [ListName -> Seq(Key)]
      /\ index \in [Key -> ListName \cup {NoList}]
      /\ \A n \in ListName : Holds(lists[n], FiledUnder(index, n))
  BY DEF Agree
<1>4. /\ after[name] = RemoveFirst(lists[name], key)
      /\ \A n \in ListName \ {name} : after[n] = lists[n]
  BY <1>2, <1>3 DEF Without
<1>5. /\ Holds(after[name], FiledUnder(index, name) \ {key})
      /\ Len(after[name]) = Len(lists[name]) - 1
  <2>1. key \in FiledUnder(index, name)
    BY <1>1 DEF FiledUnder
  <2>. QED
    BY <2>1, <1>3, <1>4, HoldsRemove
<1>6. \A n \in ListName : Holds(after[n], FiledUnder(index, n) \ {key})
  <2>1. \A n \in ListName \ {name} : FiledUnder(index, n) \ {key} = FiledUnder(index, n)
    BY <1>1 DEF FiledUnder
  <2>. QED
    BY <2>1, <1>3, <1>4, <1>5
<1>7. \A n \in ListName :
        FiledUnder(Refiled(index, key, NoList), n) = FiledUnder(index, n) \ {key}
  BY <1>3, Names DEF Refiled, FiledUnder
<1>8. Refiled(index, key, NoList) \in [Key -> ListName \cup {NoList}]
  BY <1>3, Names DEF Refiled, FiledUnder
<1>9. after \in [ListName -> Seq(Key)]
  <2>1. \A n \in ListName : after[n] \in Seq(Key)
    BY <1>6, ListOfKeys DEF FiledUnder
  <2>. QED
    BY <2>1, <1>2, <1>3 DEF Without
<1>10. Agree(after, Refiled(index, key, NoList))
  BY <1>6, <1>7, <1>8, <1>9 DEF Agree
<1>. QED
  BY <1>1, <1>2, <1>4, <1>5, <1>10

\* Putting the record of a key without an entry at the front of a list.
LEMMA PutFront ==
  ASSUME NEW lists, NEW index, Agree(lists, index),
         NEW key \in Key, index[key] = NoList, NEW name \in ListName
  PROVE  /\ Agree(With(lists, name, key), Refiled(index, key, name))
         /\ Len(With(lists, name, key)[name]) = Len(lists[name]) + 1
         /\ \A n \in ListName \ {name} : With(lists, name, key)[n] = lists[n]
<1>1. PICK after : after = With(lists, name, key)
  OBVIOUS
<1>2. /\ lists \in [ListName -> Seq(Key)]
      /\ index \in [Key -> ListName \cup {NoList}]
      /\ \A n \in ListName : Holds(lists[n], FiledUnder(index, n))
  BY DEF Agree
<1>3. /\ after[name] = Cons(key, lists[name])
      /\ \A n \in ListName \ {name} : after[n] = lists[n]
  BY <1>1, <1>2 DEF With
<1>4. /\ Holds(after[name], FiledUnder(index, name) \cup {key})
      /\ Len(after[name]) = Len(lists[name]) + 1
  <2>1. key \notin FiledUnder(index, name)
    BY Names DEF FiledUnder
  <2>. QED
    BY <2>1, <1>2, <1>3, HoldsCons
<1>5. \A n \in ListName \ {name} :
        FiledUnder(Refiled(index, key, name), n) = FiledUnder(index, n)
  <2>1. \A n \in ListName \ {name} : FiledUnder(index, n) \ {key} = FiledUnder(index, n)
    BY Names DEF FiledUnder
  <2>. QED
    BY <2>1, <1>2, Names DEF Refiled, FiledUnder
<1>6. FiledUnder(Refiled(index, key, name), name) = FiledUnder(index, name) \cup {key}
  BY <1>2, Names DEF Refiled, FiledUnder
<1>7. Refiled(index, key, name) \in [Key -> ListName \cup {NoList}]
  BY <1>2, Names DEF Refiled, FiledUnder
<1>8. \A n \in ListName : Holds(after[n], FiledUnder(Refiled(index, key, name), n))
  BY <1>2, <1>3, <1>4, <1>5, <1>6
<1>9. after \in [ListName -> Seq(Key)]
  <2>1. \A n \in ListName : after[n] \in Seq(Key)
    BY <1>8, ListOfKeys DEF FiledUnder
  <2>. QED
    BY <2>1, <1>1, <1>2 DEF With
<1>10. Agree(after, Refiled(index, key, name))
  BY <1>7, <1>8, <1>9 DEF Agree
<1>. QED
  BY <1>1, <1>3, <1>4, <1>10

\* Evicting a page: its record becomes the newest ghost.
LEMMA Evict ==
  ASSUME NEW lists, NEW index, Agree(lists, index),
         NEW source \in {T1, T2}, lists[source] # <<>>
  PROVE  /\ Last(lists[source]) \in Key
         /\ index[Last(lists[source])] = source
         /\ Agree(EvictPage(lists, source),
                  Refiled(index, Last(lists[source]), GhostListOf(source)))
         /\ Len(EvictPage(lists, source)[source]) = Len(lists[source]) - 1
         /\ Len(EvictPage(lists, source)[GhostListOf(source)])
              = Len(lists[GhostListOf(source)]) + 1
         /\ \A n \in ListName \ {source, GhostListOf(source)} :
              EvictPage(lists, source)[n] = lists[n]
<1>1. PICK ghosts \in ListName : ghosts = GhostListOf(source) /\ ghosts # source
  BY Names DEF GhostListOf
<1>2. source \in ListName /\ source # NoList
  BY Names
<1>3. PICK victim \in Key : victim = Last(lists[source]) /\ index[victim] = source
  BY <1>2, ForgetBack
<1>4. PICK l1 : l1 = WithoutBack(lists, source)
  OBVIOUS
<1>5. PICK i1 : i1 = Refiled(index, victim, NoList)
  OBVIOUS
<1>6. /\ Agree(l1, i1)
      /\ Len(l1[source]) = Len(lists[source]) - 1
      /\ \A n \in ListName \ {source} : l1[n] = lists[n]
  BY <1>2, <1>3, <1>4, <1>5, ForgetBack
<1>7. PICK l2 : l2 = With(l1, ghosts, victim)
  OBVIOUS
<1>8. i1[victim] = NoList
  BY <1>5 DEF Refiled, Agree
<1>9. /\ Agree(l2, Refiled(i1, victim, ghosts))
      /\ Len(l2[ghosts]) = Len(l1[ghosts]) + 1
      /\ \A n \in ListName \ {ghosts} : l2[n] = l1[n]
  BY <1>6, <1>7, <1>8, PutFront
<1>10. l2 = EvictPage(lists, source)
  BY <1>1, <1>2, <1>3, <1>4, <1>7 DEF EvictPage, With, WithoutBack, Agree
<1>11. Refiled(i1, victim, ghosts) = Refiled(index, victim, ghosts)
  BY <1>5 DEF Refiled, Agree
<1>. QED
  BY <1>1, <1>2, <1>3, <1>6, <1>9, <1>10, <1>11

-----------------------------------------------------------------------------
(***************************************************************************)
(* The inductive invariant.                                                *)
(***************************************************************************)

\* The sizes that the lists may have together.
Bounded(t1, t2, b1, b2) ==
  /\ t1 + t2 <= Capacity
  /\ t1 + b1 <= Capacity
  /\ t1 + b1 + t2 + b2 <= 2 * Capacity
  /\ b1 + b2 > 0 => t1 + t2 = Capacity

\* None of the four properties is inductive alone.  The directory's bound
\* needs that ghosts exist only when the cache is full, since otherwise an
\* insert into a cache with room would replace a page too early; the sizes
\* change as they should only if every list holds each key once; and the
\* index names the list to unlink a record from only if all lists agree.
Inv ==
  /\ Agree(list, pageIndex_)
  /\ paged = FiledUnder(pageIndex_, T1) \cup FiledUnder(pageIndex_, T2)
  /\ t1TargetSize_ \in 0..Capacity
  /\ Bounded(Size(T1), Size(T2), Size(B1), Size(B2))
  /\ CallsTypeOK

\* What the inductive invariant says.
LEMMA InvImplies == Inv => TypeOK /\ IndexConsistent /\ DirectoryBounded /\ GhostsOnlyWhenFull
<1>. SUFFICES ASSUME Inv
              PROVE  TypeOK /\ IndexConsistent /\ DirectoryBounded /\ GhostsOnlyWhenFull
  OBVIOUS
<1>1. TypeOK
  BY DEF Inv, Agree, FiledUnder, TypeOK
<1>2. \A name \in ListName : /\ IsInjective(list[name])
                             /\ ToSet(list[name]) = FiledUnder(pageIndex_, name)
  BY DEF Inv, Agree, Holds
<1>3. IndexConsistent
  BY <1>1, <1>2, Names DEF Inv, IndexConsistent, FiledUnder
<1>4. DirectoryBounded /\ GhostsOnlyWhenFull
  BY <1>1, Names DEF Inv, Bounded, DirectoryBounded, GhostsOnlyWhenFull, Total,
                     RecentTotal, Size, TypeOK
<1>. QED
  BY <1>1, <1>3, <1>4

\* The sizes are numbers, and a list with a key filed under it is not empty.
LEMMA SizeFacts ==
  ASSUME Inv
  PROVE  /\ Capacity \in Nat /\ Capacity >= 1
         /\ \A name \in ListName : /\ Size(name) \in Nat
                                   /\ Size(name) = 0 <=> list[name] = <<>>
         /\ \A key \in Key : pageIndex_[key] \in ListName => Size(pageIndex_[key]) > 0
<1>1. \A name \in ListName :
        /\ Len(list[name]) \in Nat
        /\ Len(list[name]) > 0 <=> list[name] # <<>>
        /\ FiledUnder(pageIndex_, name) # {} => Len(list[name]) > 0
  BY HoldsFacts DEF Inv, Agree
<1>2. \A key \in Key : FiledUnder(pageIndex_, pageIndex_[key]) # {}
  BY DEF FiledUnder
<1>. QED
  BY <1>1, <1>2, CapacityAssumption DEF Size

\* The set of pages is as large as T1 and T2 together.
LEMMA PagedCount ==
  ASSUME Inv
  PROVE  IsFiniteSet(paged) /\ Cardinality(paged) = Size(T1) + Size(T2)
<1>1. PICK u : u = FiledUnder(pageIndex_, T1)
  OBVIOUS
<1>2. PICK v : v = FiledUnder(pageIndex_, T2)
  OBVIOUS
<1>3. /\ IsFiniteSet(u) /\ Cardinality(u) = Size(T1)
      /\ IsFiniteSet(v) /\ Cardinality(v) = Size(T2)
  BY <1>1, <1>2, Names, HoldsFacts DEF Inv, Agree, Size
<1>4. u \cap v = {}
  BY <1>1, <1>2, Names DEF FiledUnder
<1>5. paged = u \cup v
  BY <1>1, <1>2 DEF Inv
<1>6. /\ IsFiniteSet(u \cup v)
      /\ Cardinality(u \cup v) = Cardinality(u) + Cardinality(v) - Cardinality(u \cap v)
  BY <1>3, FS_Union
<1>7. Cardinality(u \cap v) = 0
  BY <1>4, FS_EmptySet
<1>8. Size(T1) \in Nat /\ Size(T2) \in Nat
  BY SizeFacts, Names
<1>. QED
  BY <1>3, <1>5, <1>6, <1>7, <1>8

-----------------------------------------------------------------------------
(***************************************************************************)
(* The actions.                                                            *)
(***************************************************************************)

\* A hit moves the page to the front of T2 and changes no other list.
LEMMA HitStep ==
  ASSUME Inv, NEW key \in Key, Hit(key)
  PROVE  /\ Agree(list', pageIndex_')
         /\ FiledUnder(pageIndex_', T1) \cup FiledUnder(pageIndex_', T2) = paged
         /\ Bounded(Len(list'[T1]), Len(list'[T2]), Len(list'[B1]), Len(list'[B2]))
<1>1. /\ Agree(list, pageIndex_)
      /\ list \in [ListName -> Seq(Key)]
      /\ pageIndex_ \in [Key -> ListName \cup {NoList}]
      /\ Bounded(Size(T1), Size(T2), Size(B1), Size(B2))
      /\ \A name \in ListName : Size(name) \in Nat
  BY SizeFacts DEF Inv, Agree
<1>2. PICK source \in {T1, T2} : pageIndex_[key] = source
  BY DEF Hit
<1>3. source \in ListName /\ T2 \in ListName
  BY Names
<1>4. PICK l1 : l1 = Without(list, source, key)
  OBVIOUS
<1>5. PICK i1 : i1 = Refiled(pageIndex_, key, NoList)
  OBVIOUS
<1>6. /\ Agree(l1, i1)
      /\ Len(l1[source]) = Len(list[source]) - 1
      /\ \A n \in ListName \ {source} : l1[n] = list[n]
  BY <1>1, <1>2, <1>3, <1>4, <1>5, Unlink
<1>7. PICK l2 : l2 = With(l1, T2, key)
  OBVIOUS
<1>8. i1[key] = NoList
  BY <1>1, <1>5 DEF Refiled
<1>9. /\ Agree(l2, Refiled(i1, key, T2))
      /\ Len(l2[T2]) = Len(l1[T2]) + 1
      /\ \A n \in ListName \ {T2} : l2[n] = l1[n]
  BY <1>3, <1>6, <1>7, <1>8, PutFront
<1>10. l2 = list'
  BY <1>1, <1>2, <1>3, <1>4, <1>7, Names
     DEF Hit, RecordHit, SpliceToFront, With, Without
<1>11. Refiled(i1, key, T2) = pageIndex_'
  BY <1>1, <1>5 DEF Hit, RecordHit, Refiled
<1>12. FiledUnder(pageIndex_', T1) \cup FiledUnder(pageIndex_', T2) = paged
  <2>1. pageIndex_' = [pageIndex_ EXCEPT ![key] = T2]
    BY DEF Hit, RecordHit
  <2>. QED
    BY <1>1, <1>2, <2>1 DEF FiledUnder, Inv
<1>13. PICK t1 \in Nat, t2 \in Nat, b1 \in Nat, b2 \in Nat :
         t1 = Size(T1) /\ t2 = Size(T2) /\ b1 = Size(B1) /\ b2 = Size(B2)
  BY <1>1, Names
<1>14. Bounded(t1, t2, b1, b2)
  BY <1>1, <1>13
<1>15. CASE source = T1
  <2>1. /\ Len(l2[T1]) = t1 - 1 /\ Len(l2[T2]) = t2 + 1
        /\ Len(l2[B1]) = b1 /\ Len(l2[B2]) = b2
    <3>1. l2[T1] = l1[T1] /\ l2[B1] = l1[B1] /\ l2[B2] = l1[B2]
      BY <1>9, Names
    <3>2. l1[T2] = list[T2] /\ l1[B1] = list[B1] /\ l1[B2] = list[B2]
      BY <1>6, <1>15, Names
    <3>. QED
      BY <1>6, <1>9, <1>13, <1>15, <3>1, <3>2 DEF Size
  <2>2. Bounded(t1 - 1, t2 + 1, b1, b2)
    BY <1>14, SizeFacts DEF Bounded
  <2>. QED
    BY <1>9, <1>10, <1>11, <1>12, <2>1, <2>2
<1>16. CASE source = T2
  <2>1. /\ Len(l2[T1]) = t1 /\ Len(l2[T2]) = t2 - 1 + 1
        /\ Len(l2[B1]) = b1 /\ Len(l2[B2]) = b2
    <3>1. l2[T1] = l1[T1] /\ l2[B1] = l1[B1] /\ l2[B2] = l1[B2]
      BY <1>9, Names
    <3>2. l1[T1] = list[T1] /\ l1[B1] = list[B1] /\ l1[B2] = list[B2]
      BY <1>6, <1>16, Names
    <3>. QED
      BY <1>6, <1>9, <1>13, <1>16, <3>1, <3>2 DEF Size
  <2>2. Bounded(t1, t2 - 1 + 1, b1, b2)
    BY <1>14, SizeFacts DEF Bounded
  <2>. QED
    BY <1>9, <1>10, <1>11, <1>12, <2>1, <2>2
<1>. QED
  BY <1>15, <1>16

\* When there is a page there is one to evict, whatever the target.
LEMMA ResidentToEvict ==
  ASSUME Inv, NEW fromB2 \in BOOLEAN, Size(T1) + Size(T2) > 0
  PROVE  /\ ResidentListToEvict(fromB2) \in {T1, T2}
         /\ list[ResidentListToEvict(fromB2)] # <<>>
         /\ Back(ResidentListToEvict(fromB2))
              = {Last(list[ResidentListToEvict(fromB2)])}
<1>1. /\ Size(T1) \in Nat /\ Size(T2) \in Nat
      /\ Size(T1) = 0 <=> list[T1] = <<>>
      /\ Size(T2) = 0 <=> list[T2] = <<>>
  BY SizeFacts, Names
<1>2. /\ ResidentListToEvict(fromB2) \in {T1, T2}
      /\ list[ResidentListToEvict(fromB2)] # <<>>
  BY <1>1, Names DEF ResidentListToEvict
<1>. QED
  BY <1>2, Names DEF Back

\* The promotion of a ghost fills the place that one evicted page leaves.
LEMMA InsertGhostStep ==
  ASSUME Inv, NEW key \in Key, InsertGhost(key)
  PROVE  /\ Agree(list', pageIndex_')
         /\ FiledUnder(pageIndex_', T1) \cup FiledUnder(pageIndex_', T2) = paged'
         /\ Bounded(Len(list'[T1]), Len(list'[T2]), Len(list'[B1]), Len(list'[B2]))
         /\ key \notin paged
         /\ Size(T1) + Size(T2) = Capacity
         /\ \E victim \in paged : paged' = (paged \ {victim}) \cup {key}
<1>1. /\ Agree(list, pageIndex_)
      /\ list \in [ListName -> Seq(Key)]
      /\ pageIndex_ \in [Key -> ListName \cup {NoList}]
      /\ Bounded(Size(T1), Size(T2), Size(B1), Size(B2))
      /\ \A name \in ListName : Size(name) \in Nat
      /\ Capacity \in Nat /\ Capacity >= 1
      /\ paged = FiledUnder(pageIndex_, T1) \cup FiledUnder(pageIndex_, T2)
  BY SizeFacts DEF Inv, Agree
<1>2. PICK ghosts \in {B1, B2} : pageIndex_[key] = ghosts
  BY DEF InsertGhost
<1>3. Size(ghosts) > 0
  BY <1>2, SizeFacts, Names
<1>4. Size(T1) + Size(T2) = Capacity
  BY <1>1, <1>3, Names DEF Bounded
<1>5. PICK source \in {T1, T2} :
        /\ source = ResidentListToEvict(ghosts = B2)
        /\ list[source] # <<>>
        /\ Back(source) = {Last(list[source])}
  <2>1. PICK fromB2 \in BOOLEAN : fromB2 <=> ghosts = B2
    OBVIOUS
  <2>2. ResidentListToEvict(ghosts = B2) = ResidentListToEvict(fromB2)
    BY <2>1 DEF ResidentListToEvict
  <2>. QED
    BY <1>1, <1>4, <2>2, ResidentToEvict
<1>6. PICK victim \in Key : victim = Last(list[source]) /\ pageIndex_[victim] = source
  BY <1>1, <1>5, Evict
<1>7. PICK g \in {B1, B2} : g = GhostListOf(source)
  BY DEF GhostListOf
<1>8. PICK l1 : l1 = EvictPage(list, source)
  OBVIOUS
<1>9. PICK i1 : i1 = Refiled(pageIndex_, victim, g)
  OBVIOUS
<1>10. /\ Agree(l1, i1)
       /\ Len(l1[source]) = Size(source) - 1
       /\ Len(l1[g]) = Size(g) + 1
       /\ \A n \in ListName \ {source, g} : l1[n] = list[n]
  BY <1>1, <1>5, <1>6, <1>7, <1>8, <1>9, Evict DEF Size
<1>11. key # victim /\ i1[key] = ghosts
  BY <1>1, <1>2, <1>6, <1>9, Names DEF Refiled
<1>12. PICK l2 : l2 = Without(l1, ghosts, key)
  OBVIOUS
<1>13. PICK i2 : i2 = Refiled(i1, key, NoList)
  OBVIOUS
<1>14. /\ Agree(l2, i2)
       /\ Len(l2[ghosts]) = Len(l1[ghosts]) - 1
       /\ \A n \in ListName \ {ghosts} : l2[n] = l1[n]
  BY <1>2, <1>10, <1>11, <1>12, <1>13, Unlink, Names
<1>15. i2[key] = NoList
  BY <1>10, <1>13 DEF Refiled, Agree
<1>16. PICK l3 : l3 = With(l2, T2, key)
  OBVIOUS
<1>17. /\ Agree(l3, Refiled(i2, key, T2))
       /\ Len(l3[T2]) = Len(l2[T2]) + 1
       /\ \A n \in ListName \ {T2} : l3[n] = l2[n]
  BY <1>14, <1>15, <1>16, PutFront, Names
<1>18. list' = l3
  <2>1. list' = [EvictPage(list, source) EXCEPT ![ghosts] = RemoveFirst(@, key),
                                                ![T2] = Cons(key, @)]
    BY <1>2, <1>5 DEF InsertGhost
  <2>2. l1 \in [ListName -> Seq(Key)]
    BY <1>10 DEF Agree
  <2>. QED
    BY <1>8, <1>12, <1>16, <2>1, <2>2, Names DEF With, Without
<1>19. /\ pageIndex_' = Filed(Filed(pageIndex_, {victim}, g), {key}, T2)
       /\ paged' = (paged \cup {key}) \ {victim}
  BY <1>2, <1>5, <1>6, <1>7 DEF InsertGhost
<1>20. pageIndex_' = Refiled(i2, key, T2)
  BY <1>1, <1>9, <1>13, <1>19 DEF Filed, Refiled
<1>21. victim \in paged /\ key \notin paged
  BY <1>1, <1>2, <1>6, Names DEF FiledUnder
<1>22. paged' = (paged \ {victim}) \cup {key}
  BY <1>11, <1>19
<1>23. FiledUnder(pageIndex_', T1) \cup FiledUnder(pageIndex_', T2) = paged'
  BY <1>1, <1>6, <1>7, <1>11, <1>19, <1>22, Names DEF Filed, FiledUnder
<1>24. PICK t1 \in Nat, t2 \in Nat, b1 \in Nat, b2 \in Nat :
         t1 = Size(T1) /\ t2 = Size(T2) /\ b1 = Size(B1) /\ b2 = Size(B2)
  BY <1>1, Names
<1>25. Bounded(t1, t2, b1, b2) /\ t1 + t2 = Capacity /\ Capacity \in Nat
  BY <1>1, <1>4, <1>24
<1>26. l3[T1] = l2[T1] /\ l3[B1] = l2[B1] /\ l3[B2] = l2[B2]
  BY <1>17, Names
<1>27. Bounded(Len(l3[T1]), Len(l3[T2]), Len(l3[B1]), Len(l3[B2]))
  <2>1. CASE source = T1 /\ ghosts = B1
    <3>1. g = B1
      BY <1>7, <2>1, Names DEF GhostListOf
    <3>2. l2[T1] = l1[T1] /\ l2[T2] = l1[T2] /\ l2[B2] = l1[B2]
      BY <1>14, <2>1, Names
    <3>3. l1[T2] = list[T2] /\ l1[B2] = list[B2]
      BY <1>10, <2>1, <3>1, Names
    <3>4. /\ Len(l3[T1]) = t1 - 1
          /\ Len(l3[T2]) = t2 + 1
          /\ Len(l3[B1]) = b1 + 1 - 1
          /\ Len(l3[B2]) = b2
      BY <1>10, <1>14, <1>17, <1>24, <1>26, <2>1, <3>1, <3>2, <3>3, Names DEF Size
    <3>5. Bounded(t1 - 1, t2 + 1, b1 + 1 - 1, b2)
      BY <1>25 DEF Bounded
    <3>. QED
      BY <3>4, <3>5
  <2>2. CASE source = T1 /\ ghosts = B2
    <3>1. g = B1
      BY <1>7, <2>2, Names DEF GhostListOf
    <3>2. l2[T1] = l1[T1] /\ l2[T2] = l1[T2] /\ l2[B1] = l1[B1]
      BY <1>14, <2>2, Names
    <3>3. l1[T2] = list[T2] /\ l1[B2] = list[B2]
      BY <1>10, <2>2, <3>1, Names
    <3>4. /\ Len(l3[T1]) = t1 - 1
          /\ Len(l3[T2]) = t2 + 1
          /\ Len(l3[B1]) = b1 + 1
          /\ Len(l3[B2]) = b2 - 1
      BY <1>10, <1>14, <1>17, <1>24, <1>26, <2>2, <3>1, <3>2, <3>3, Names DEF Size
    <3>5. Bounded(t1 - 1, t2 + 1, b1 + 1, b2 - 1)
      BY <1>25 DEF Bounded
    <3>. QED
      BY <3>4, <3>5
  <2>3. CASE source = T2 /\ ghosts = B1
    <3>1. g = B2
      BY <1>7, <2>3, Names DEF GhostListOf
    <3>2. l2[T1] = l1[T1] /\ l2[T2] = l1[T2] /\ l2[B2] = l1[B2]
      BY <1>14, <2>3, Names
    <3>3. l1[T1] = list[T1] /\ l1[B1] = list[B1]
      BY <1>10, <2>3, <3>1, Names
    <3>4. /\ Len(l3[T1]) = t1
          /\ Len(l3[T2]) = t2 - 1 + 1
          /\ Len(l3[B1]) = b1 - 1
          /\ Len(l3[B2]) = b2 + 1
      BY <1>10, <1>14, <1>17, <1>24, <1>26, <2>3, <3>1, <3>2, <3>3, Names DEF Size
    <3>5. Bounded(t1, t2 - 1 + 1, b1 - 1, b2 + 1)
      BY <1>25 DEF Bounded
    <3>. QED
      BY <3>4, <3>5
  <2>4. CASE source = T2 /\ ghosts = B2
    <3>1. g = B2
      BY <1>7, <2>4, Names DEF GhostListOf
    <3>2. l2[T1] = l1[T1] /\ l2[T2] = l1[T2] /\ l2[B1] = l1[B1]
      BY <1>14, <2>4, Names
    <3>3. l1[T1] = list[T1] /\ l1[B1] = list[B1]
      BY <1>10, <2>4, <3>1, Names
    <3>4. /\ Len(l3[T1]) = t1
          /\ Len(l3[T2]) = t2 - 1 + 1
          /\ Len(l3[B1]) = b1
          /\ Len(l3[B2]) = b2 + 1 - 1
      BY <1>10, <1>14, <1>17, <1>24, <1>26, <2>4, <3>1, <3>2, <3>3, Names DEF Size
    <3>5. Bounded(t1, t2 - 1 + 1, b1, b2 + 1 - 1)
      BY <1>25 DEF Bounded
    <3>. QED
      BY <3>4, <3>5
  <2>. QED
    BY <2>1, <2>2, <2>3, <2>4
<1>. QED
  BY <1>4, <1>17, <1>18, <1>20, <1>21, <1>22, <1>23, <1>27

\* The lists and the index after evictForNewPage has forgotten a record.
Erased == IF Back(ListToErase) = {} THEN list ELSE WithoutBack(list, ListToErase)

\* When a page is replaced, the cache is full, and forgetting the oldest ghost
\* leaves room in the directory for one more record.
LEMMA ForgetGhostStep ==
  ASSUME Inv, NeedsReplacement
  PROVE  /\ Size(T1) + Size(T2) = Capacity
         /\ Agree(Erased, Filed(pageIndex_, Back(ListToErase), NoList))
         /\ Erased[T1] = list[T1] /\ Erased[T2] = list[T2]
         /\ Len(Erased[B1]) \in Nat /\ Len(Erased[B2]) \in Nat
         /\ Size(T1) + Len(Erased[B1]) < Capacity
         /\ Size(T1) + Len(Erased[B1]) + Size(T2) + Len(Erased[B2]) < 2 * Capacity
         /\ \A k \in Back(ListToErase) : k \in Key /\ pageIndex_[k] \in {B1, B2}
<1>1. Agree(list, pageIndex_)
  BY DEF Inv
<1>2. PICK t1 \in Nat, t2 \in Nat, b1 \in Nat, b2 \in Nat :
        t1 = Size(T1) /\ t2 = Size(T2) /\ b1 = Size(B1) /\ b2 = Size(B2)
  BY SizeFacts, Names
<1>3. Bounded(t1, t2, b1, b2) /\ Capacity \in Nat
  BY <1>2, SizeFacts DEF Inv
<1>4. /\ RecentTotal = t1 + b1
      /\ Total = t1 + b1 + t2 + b2
  BY <1>2 DEF RecentTotal, Total
<1>5. \/ t1 + b1 = Capacity /\ t1 < Capacity
      \/ t1 + b1 < Capacity /\ t1 + b1 + t2 + b2 >= Capacity
  BY <1>2, <1>4 DEF NeedsReplacement
<1>6. t1 + t2 = Capacity
  BY <1>3, <1>5 DEF Bounded
<1>7. ASSUME NEW ghosts \in {B1, B2}, ListToErase = ghosts, Size(ghosts) > 0
      PROVE  /\ Agree(Erased, Filed(pageIndex_, Back(ListToErase), NoList))
             /\ \A n \in ListName \ {ghosts} : Erased[n] = list[n]
             /\ Len(Erased[ghosts]) = Size(ghosts) - 1
             /\ \A k \in Back(ListToErase) : k \in Key /\ pageIndex_[k] \in {B1, B2}
  <2>1. ghosts \in ListName /\ list[ghosts] # <<>>
    BY <1>7, SizeFacts, Names
  <2>2. PICK oldest : oldest = Last(list[ghosts])
    OBVIOUS
  <2>3. Back(ListToErase) = {oldest}
    BY <1>7, <2>1, <2>2 DEF Back
  <2>4. Erased = WithoutBack(list, ghosts)
    BY <1>7, <2>3 DEF Erased
  <2>5. /\ oldest \in Key
        /\ pageIndex_[oldest] = ghosts
        /\ Agree(WithoutBack(list, ghosts), Refiled(pageIndex_, oldest, NoList))
        /\ Len(WithoutBack(list, ghosts)[ghosts]) = Len(list[ghosts]) - 1
        /\ \A n \in ListName \ {ghosts} : WithoutBack(list, ghosts)[n] = list[n]
    BY <1>1, <2>1, <2>2, ForgetBack
  <2>6. Refiled(pageIndex_, oldest, NoList) = Filed(pageIndex_, {oldest}, NoList)
    BY <1>1 DEF Refiled, Filed, Agree
  <2>. QED
    BY <2>3, <2>4, <2>5, <2>6 DEF Size
<1>8. CASE t1 + b1 = Capacity /\ t1 < Capacity
  <2>1. ListToErase = B1
    BY <1>2, <1>4, <1>8 DEF ListToErase
  <2>2. b1 > 0
    BY <1>3, <1>8
  <2>3. /\ Agree(Erased, Filed(pageIndex_, Back(ListToErase), NoList))
        /\ Erased[T1] = list[T1] /\ Erased[T2] = list[T2] /\ Erased[B2] = list[B2]
        /\ Len(Erased[B1]) = b1 - 1
        /\ \A k \in Back(ListToErase) : k \in Key /\ pageIndex_[k] \in {B1, B2}
    BY <1>2, <1>7, <2>1, <2>2, Names
  <2>4. Len(Erased[B2]) = b2
    BY <1>2, <2>3 DEF Size
  <2>5. /\ b1 - 1 \in Nat
        /\ t1 + (b1 - 1) < Capacity
        /\ t1 + (b1 - 1) + t2 + b2 < 2 * Capacity
    BY <1>3, <1>8, <2>2 DEF Bounded
  <2>. QED
    BY <1>2, <1>6, <2>3, <2>4, <2>5
<1>9. CASE t1 + b1 < Capacity /\ t1 + b1 + t2 + b2 >= 2 * Capacity
  <2>1. ListToErase = B2
    BY <1>3, <1>4, <1>9 DEF ListToErase
  <2>2. b2 > 0
    BY <1>3, <1>9 DEF Bounded
  <2>3. /\ Agree(Erased, Filed(pageIndex_, Back(ListToErase), NoList))
        /\ Erased[T1] = list[T1] /\ Erased[T2] = list[T2] /\ Erased[B1] = list[B1]
        /\ Len(Erased[B2]) = b2 - 1
        /\ \A k \in Back(ListToErase) : k \in Key /\ pageIndex_[k] \in {B1, B2}
    BY <1>2, <1>7, <2>1, <2>2, Names
  <2>4. Len(Erased[B1]) = b1
    BY <1>2, <2>3 DEF Size
  <2>5. /\ b2 - 1 \in Nat
        /\ t1 + b1 + t2 + (b2 - 1) < 2 * Capacity
    BY <1>3, <1>9, <2>2 DEF Bounded
  <2>. QED
    BY <1>2, <1>6, <1>9, <2>3, <2>4, <2>5
<1>10. CASE t1 + b1 < Capacity /\ t1 + b1 + t2 + b2 < 2 * Capacity
  <2>1. ListToErase = NoList
    BY <1>3, <1>4, <1>10 DEF ListToErase
  <2>2. Back(ListToErase) = {}
    BY <2>1, Names DEF Back
  <2>3. Erased = list
    BY <2>2 DEF Erased
  <2>4. Filed(pageIndex_, {}, NoList) = pageIndex_
    BY <1>1 DEF Filed, Agree
  <2>. QED
    BY <1>1, <1>2, <1>6, <1>10, <2>2, <2>3, <2>4 DEF Size
<1>11. t1 + b1 + t2 + b2 >= 2 * Capacity \/ t1 + b1 + t2 + b2 < 2 * Capacity
  BY <1>3
<1>. QED
  BY <1>5, <1>8, <1>9, <1>10, <1>11

\* Storing a new page when another one has to be evicted for it.
LEMMA InsertNewReplacing ==
  ASSUME Inv, NEW key \in Key, InsertNew(key), NeedsReplacement
  PROVE  /\ Agree(list', pageIndex_')
         /\ FiledUnder(pageIndex_', T1) \cup FiledUnder(pageIndex_', T2) = paged'
         /\ Bounded(Len(list'[T1]), Len(list'[T2]), Len(list'[B1]), Len(list'[B2]))
         /\ key \notin paged
         /\ Size(T1) + Size(T2) = Capacity
         /\ \E victim \in paged : paged' = (paged \ {victim}) \cup {key}
<1>1. /\ pageIndex_ \in [Key -> ListName \cup {NoList}]
      /\ paged = FiledUnder(pageIndex_, T1) \cup FiledUnder(pageIndex_, T2)
      /\ Capacity \in Nat /\ Capacity >= 1
      /\ pageIndex_[key] = NoList
  BY SizeFacts DEF Inv, Agree, InsertNew
<1>2. PICK t1 \in Nat, t2 \in Nat : t1 = Size(T1) /\ t2 = Size(T2)
  BY SizeFacts, Names
<1>3. t1 + t2 = Capacity
  BY <1>2, ForgetGhostStep
<1>4. PICK source \in {T1, T2} :
        /\ source = ResidentListToEvict(FALSE)
        /\ list[source] # <<>>
        /\ Back(source) = {Last(list[source])}
  <2>1. Size(T1) + Size(T2) > 0
    BY <1>1, <1>2, <1>3
  <2>2. PICK fromB2 \in BOOLEAN : fromB2 = FALSE
    OBVIOUS
  <2>3. /\ ResidentListToEvict(fromB2) \in {T1, T2}
        /\ list[ResidentListToEvict(fromB2)] # <<>>
        /\ Back(ResidentListToEvict(fromB2))
             = {Last(list[ResidentListToEvict(fromB2)])}
    BY <2>1, ResidentToEvict
  <2>. QED
    BY <2>2, <2>3
<1>5. PICK ghosts \in {B1, B2} : ghosts = GhostListOf(source)
  BY DEF GhostListOf
<1>6. PICK l1 : l1 = Erased
  OBVIOUS
<1>7. PICK i1 : i1 = Filed(pageIndex_, Back(ListToErase), NoList)
  OBVIOUS
<1>8. /\ Agree(l1, i1)
      /\ l1[T1] = list[T1] /\ l1[T2] = list[T2]
      /\ \A k \in Back(ListToErase) : k \in Key /\ pageIndex_[k] \in {B1, B2}
  BY <1>6, <1>7, ForgetGhostStep
<1>9. PICK c1 \in Nat, c2 \in Nat :
        /\ c1 = Len(l1[B1]) /\ c2 = Len(l1[B2])
        /\ t1 + c1 < Capacity
        /\ t1 + c1 + t2 + c2 < 2 * Capacity
  BY <1>2, <1>6, ForgetGhostStep
<1>10. t1 + c1 < Capacity /\ t1 + c1 + t2 + c2 < 2 * Capacity /\ Capacity \in Nat
  BY <1>1, <1>9
<1>11. l1[source] = list[source]
  BY <1>8
<1>12. PICK victim : victim = Last(list[source])
  OBVIOUS
<1>13. PICK l2 : l2 = EvictPage(l1, source)
  OBVIOUS
<1>14. PICK i2 : i2 = Refiled(i1, victim, ghosts)
  OBVIOUS
<1>15. /\ victim \in Key /\ i1[victim] = source
       /\ Agree(l2, i2)
       /\ Len(l2[source]) = Len(l1[source]) - 1
       /\ Len(l2[ghosts]) = Len(l1[ghosts]) + 1
       /\ \A n \in ListName \ {source, ghosts} : l2[n] = l1[n]
  <2>1. l1[source] # <<>> /\ victim = Last(l1[source])
    BY <1>4, <1>11, <1>12
  <2>2. Agree(l1, i1)
    BY <1>8
  <2>. QED
    BY <2>1, <2>2, <1>5, <1>13, <1>14, Evict
<1>16. i1[key] = NoList /\ key # victim /\ i2[key] = NoList
  <2>1. i1[key] = NoList
    BY <1>1, <1>7 DEF Filed
  <2>2. key # victim
    BY <1>15, <2>1, Names
  <2>. QED
    BY <1>8, <1>14, <2>1, <2>2 DEF Refiled, Agree
<1>17. PICK l3 : l3 = With(l2, T1, key)
  OBVIOUS
<1>18. /\ Agree(l3, Refiled(i2, key, T1))
       /\ Len(l3[T1]) = Len(l2[T1]) + 1
       /\ \A n \in ListName \ {T1} : l3[n] = l2[n]
  BY <1>15, <1>16, <1>17, PutFront, Names
<1>19. /\ list' = [EvictPage(IF Back(ListToErase) = {} THEN list
                             ELSE [list EXCEPT ![ListToErase] = Front(@)], source)
                     EXCEPT ![T1] = Cons(key, @)]
       /\ pageIndex_' = Filed(Filed(Filed(pageIndex_, {key}, T1), Back(ListToErase), NoList),
                              {victim}, ghosts)
       /\ paged' = ((paged \cup {key}) \ Back(ListToErase)) \ {victim}
  BY <1>4, <1>5, <1>12 DEF InsertNew
<1>20. list' = l3
  BY <1>6, <1>13, <1>17, <1>19 DEF Erased, With, WithoutBack
<1>21. key \notin Back(ListToErase)
  BY <1>1, <1>8, Names
<1>22. pageIndex_' = Refiled(i2, key, T1)
  BY <1>1, <1>7, <1>14, <1>15, <1>16, <1>19, <1>21 DEF Filed, Refiled
<1>23. pageIndex_[victim] = source
  BY <1>7, <1>15, Names DEF Filed
<1>24. victim \in paged /\ key \notin paged
  BY <1>1, <1>15, <1>23, Names DEF FiledUnder
<1>25. Back(ListToErase) \cap paged = {}
  BY <1>1, <1>8, Names DEF FiledUnder
<1>26. paged' = (paged \ {victim}) \cup {key}
  BY <1>16, <1>19, <1>21, <1>25
<1>27. FiledUnder(pageIndex_', T1) \cup FiledUnder(pageIndex_', T2) = paged'
  <2>1. \A k \in Key : pageIndex_'[k] = IF k = key THEN T1
                                        ELSE IF k = victim THEN ghosts
                                        ELSE IF k \in Back(ListToErase) THEN NoList
                                        ELSE pageIndex_[k]
    BY <1>16, <1>19, <1>21 DEF Filed
  <2>2. \A k \in Back(ListToErase) : k \in Key /\ k \notin paged
    BY <1>8, <1>25
  <2>. QED
    BY <1>1, <1>26, <2>1, <2>2, Names DEF FiledUnder
<1>28. Bounded(Len(l3[T1]), Len(l3[T2]), Len(l3[B1]), Len(l3[B2]))
  <2>1. l3[T2] = l2[T2] /\ l3[B1] = l2[B1] /\ l3[B2] = l2[B2]
    BY <1>18, Names
  <2>2. CASE source = T1
    <3>1. ghosts = B1
      BY <1>5, <2>2 DEF GhostListOf
    <3>2. l2[T2] = l1[T2] /\ l2[B2] = l1[B2]
      BY <1>15, <2>2, <3>1, Names
    <3>3. /\ Len(l3[T1]) = t1 - 1 + 1 /\ Len(l3[T2]) = t2
          /\ Len(l3[B1]) = c1 + 1 /\ Len(l3[B2]) = c2
      BY <1>2, <1>8, <1>9, <1>15, <1>18, <2>1, <2>2, <3>1, <3>2 DEF Size
    <3>4. Bounded(t1 - 1 + 1, t2, c1 + 1, c2)
      BY <1>3, <1>10 DEF Bounded
    <3>. QED
      BY <3>3, <3>4
  <2>3. CASE source = T2
    <3>1. ghosts = B2
      BY <1>5, <2>3, Names DEF GhostListOf
    <3>2. l2[T1] = l1[T1] /\ l2[B1] = l1[B1]
      BY <1>15, <2>3, <3>1, Names
    <3>3. /\ Len(l3[T1]) = t1 + 1 /\ Len(l3[T2]) = t2 - 1
          /\ Len(l3[B1]) = c1 /\ Len(l3[B2]) = c2 + 1
      BY <1>2, <1>8, <1>9, <1>15, <1>18, <2>1, <2>3, <3>1, <3>2 DEF Size
    <3>4. Bounded(t1 + 1, t2 - 1, c1, c2 + 1)
      BY <1>3, <1>10 DEF Bounded
    <3>. QED
      BY <3>3, <3>4
  <2>. QED
    BY <2>2, <2>3
<1>. QED
  BY <1>2, <1>3, <1>18, <1>20, <1>22, <1>24, <1>26, <1>27, <1>28

\* Storing a new page when none is replaced: either there is room, or the last
\* page of a T1 that fills the cache alone is forgotten, without a ghost.
LEMMA InsertNewPlain ==
  ASSUME Inv, NEW key \in Key, InsertNew(key), ~NeedsReplacement
  PROVE  /\ Agree(list', pageIndex_')
         /\ FiledUnder(pageIndex_', T1) \cup FiledUnder(pageIndex_', T2) = paged'
         /\ Bounded(Len(list'[T1]), Len(list'[T2]), Len(list'[B1]), Len(list'[B2]))
         /\ key \notin paged
         /\ \/ /\ Size(T1) + Size(T2) < Capacity
               /\ paged' = paged \cup {key}
            \/ /\ Size(T1) + Size(T2) = Capacity
               /\ \E victim \in paged : paged' = (paged \ {victim}) \cup {key}
<1>1. /\ Agree(list, pageIndex_)
      /\ pageIndex_ \in [Key -> ListName \cup {NoList}]
      /\ paged = FiledUnder(pageIndex_, T1) \cup FiledUnder(pageIndex_, T2)
      /\ pageIndex_[key] = NoList
  BY DEF Inv, Agree, InsertNew
<1>2. PICK t1 \in Nat, t2 \in Nat, b1 \in Nat, b2 \in Nat :
        t1 = Size(T1) /\ t2 = Size(T2) /\ b1 = Size(B1) /\ b2 = Size(B2)
  BY SizeFacts, Names
<1>3. Bounded(t1, t2, b1, b2) /\ Capacity \in Nat /\ Capacity >= 1
  BY <1>2, SizeFacts DEF Inv
<1>4. RecentTotal = t1 + b1 /\ Total = t1 + b1 + t2 + b2
  BY <1>2 DEF RecentTotal, Total
<1>5. /\ list' = [(IF Back(ListToErase) = {} THEN list
                   ELSE [list EXCEPT ![ListToErase] = Front(@)])
                    EXCEPT ![T1] = Cons(key, @)]
      /\ pageIndex_' = Filed(Filed(Filed(pageIndex_, {key}, T1), Back(ListToErase), NoList),
                             {}, B2)
      /\ paged' = (paged \cup {key}) \ Back(ListToErase)
  <2>1. Back(NoList) = {}
    BY Names DEF Back
  <2>2. GhostListOf(NoList) = B2 /\ \A lists : EvictPage(lists, NoList) = lists
    BY Names DEF GhostListOf, EvictPage
  <2>. QED
    BY <2>1, <2>2 DEF InsertNew
<1>6. key \notin paged
  BY <1>1, Names DEF FiledUnder
<1>7. \/ t1 + b1 = Capacity /\ t1 = Capacity
      \/ t1 + b1 < Capacity /\ t1 + b1 + t2 + b2 < Capacity
  <2>1. ~(t1 + b1 = Capacity /\ t1 < Capacity)
    BY <1>2, <1>4 DEF NeedsReplacement
  <2>2. ~(t1 + b1 < Capacity /\ t1 + b1 + t2 + b2 >= Capacity)
    BY <1>4 DEF NeedsReplacement
  <2>. QED
    BY <1>3, <2>1, <2>2 DEF Bounded
<1>8. CASE t1 + b1 = Capacity /\ t1 = Capacity
  <2>1. ListToErase = T1
    BY <1>2, <1>4, <1>8 DEF ListToErase
  <2>2. list[T1] # <<>>
    <3>1. Size(T1) # 0
      BY <1>2, <1>3, <1>8
    <3>. QED
      BY <3>1, SizeFacts, Names
  <2>3. PICK victim : victim = Last(list[T1])
    OBVIOUS
  <2>4. Back(ListToErase) = {victim}
    BY <2>1, <2>2, <2>3, Names DEF Back
  <2>5. PICK l1 : l1 = WithoutBack(list, T1)
    OBVIOUS
  <2>6. PICK i1 : i1 = Refiled(pageIndex_, victim, NoList)
    OBVIOUS
  <2>7. /\ victim \in Key /\ pageIndex_[victim] = T1
        /\ Agree(l1, i1)
        /\ Len(l1[T1]) = Len(list[T1]) - 1
        /\ \A n \in ListName \ {T1} : l1[n] = list[n]
    BY <1>1, <2>2, <2>3, <2>5, <2>6, ForgetBack, Names
  <2>8. key # victim /\ i1[key] = NoList
    BY <1>1, <2>6, <2>7, Names DEF Refiled
  <2>9. PICK l2 : l2 = With(l1, T1, key)
    OBVIOUS
  <2>10. /\ Agree(l2, Refiled(i1, key, T1))
         /\ Len(l2[T1]) = Len(l1[T1]) + 1
         /\ \A n \in ListName \ {T1} : l2[n] = l1[n]
    BY <2>7, <2>8, <2>9, PutFront, Names
  <2>11. list' = l2
    BY <1>5, <2>1, <2>4, <2>5, <2>9 DEF With, WithoutBack
  <2>12. pageIndex_' = Refiled(i1, key, T1)
    BY <1>1, <1>5, <2>4, <2>6, <2>8 DEF Filed, Refiled
  <2>13. paged' = (paged \ {victim}) \cup {key} /\ victim \in paged
    BY <1>1, <1>5, <2>4, <2>7, <2>8 DEF FiledUnder
  <2>14. FiledUnder(pageIndex_', T1) \cup FiledUnder(pageIndex_', T2) = paged'
    <3>1. \A k \in Key : pageIndex_'[k] = IF k = key THEN T1
                                          ELSE IF k = victim THEN NoList
                                          ELSE pageIndex_[k]
      BY <1>5, <2>4, <2>8 DEF Filed
    <3>. QED
      BY <1>1, <2>7, <2>13, <3>1, Names DEF FiledUnder
  <2>15. /\ Len(l2[T1]) = t1 - 1 + 1 /\ Len(l2[T2]) = t2
         /\ Len(l2[B1]) = b1 /\ Len(l2[B2]) = b2
    <3>1. l2[T2] = list[T2] /\ l2[B1] = list[B1] /\ l2[B2] = list[B2]
      BY <2>7, <2>10, Names
    <3>. QED
      BY <1>2, <2>7, <2>10, <3>1 DEF Size
  <2>16. Bounded(t1 - 1 + 1, t2, b1, b2) /\ t1 + t2 = Capacity
    BY <1>3, <1>8 DEF Bounded
  <2>. QED
    BY <1>2, <1>6, <2>10, <2>11, <2>12, <2>13, <2>14, <2>15, <2>16
<1>9. CASE t1 + b1 < Capacity /\ t1 + b1 + t2 + b2 < Capacity
  <2>1. ListToErase = NoList
    BY <1>3, <1>4, <1>9 DEF ListToErase
  <2>2. Back(ListToErase) = {}
    BY <2>1, Names DEF Back
  <2>3. PICK l1 : l1 = With(list, T1, key)
    OBVIOUS
  <2>4. /\ Agree(l1, Refiled(pageIndex_, key, T1))
        /\ Len(l1[T1]) = Len(list[T1]) + 1
        /\ \A n \in ListName \ {T1} : l1[n] = list[n]
    BY <1>1, <2>3, PutFront, Names
  <2>5. list' = l1
    BY <1>5, <2>2, <2>3 DEF With
  <2>6. pageIndex_' = Refiled(pageIndex_, key, T1)
    BY <1>1, <1>5, <2>2 DEF Filed, Refiled
  <2>7. paged' = paged \cup {key}
    BY <1>5, <2>2
  <2>8. FiledUnder(pageIndex_', T1) \cup FiledUnder(pageIndex_', T2) = paged'
    <3>1. \A k \in Key : pageIndex_'[k] = IF k = key THEN T1 ELSE pageIndex_[k]
      BY <1>5, <2>2 DEF Filed
    <3>. QED
      BY <1>1, <2>7, <3>1, Names DEF FiledUnder
  <2>9. /\ Len(l1[T1]) = t1 + 1 /\ Len(l1[T2]) = t2
        /\ Len(l1[B1]) = b1 /\ Len(l1[B2]) = b2
    <3>1. l1[T2] = list[T2] /\ l1[B1] = list[B1] /\ l1[B2] = list[B2]
      BY <2>4, Names
    <3>. QED
      BY <1>2, <2>4, <3>1 DEF Size
  <2>10. Bounded(t1 + 1, t2, b1, b2) /\ t1 + t2 < Capacity
    BY <1>3, <1>9 DEF Bounded
  <2>. QED
    BY <1>2, <1>6, <2>4, <2>5, <2>6, <2>7, <2>8, <2>9, <2>10
<1>. QED
  BY <1>7, <1>8, <1>9

-----------------------------------------------------------------------------
(***************************************************************************)
(* The target.                                                             *)
(***************************************************************************)

\* The larger of two numbers.
LEMMA MaxOfTwo ==
  ASSUME NEW a \in Int, NEW b \in Int
  PROVE  Max({a, b}) \in Int /\ Max({a, b}) >= a
<1>1. CASE a >= b
  BY <1>1 DEF Max
<1>2. CASE b >= a
  BY <1>2 DEF Max
<1>. QED
  BY <1>1, <1>2

\* The smaller of two numbers.
LEMMA MinOfTwo ==
  ASSUME NEW a \in Int, NEW b \in Int
  PROVE  Min({a, b}) \in {a, b} /\ Min({a, b}) <= a
<1>1. CASE a <= b
  BY <1>1 DEF Min
<1>2. CASE b <= a
  BY <1>2 DEF Min
<1>. QED
  BY <1>1, <1>2

\* Both adaptations keep the target between 0 and the capacity: the sum is
\* capped, and the difference is not taken when it would be negative.
LEMMA TargetStaysInRange ==
  ASSUME Inv, NEW key \in Key
  PROVE  /\ pageIndex_[key] = B1 => RaisedTarget \in 0..Capacity
         /\ pageIndex_[key] = B2 => LoweredTarget \in 0..Capacity
<1>1. t1TargetSize_ \in 0..Capacity /\ Capacity \in Nat
  BY SizeFacts DEF Inv
<1>2. PICK b1 \in Nat, b2 \in Nat : b1 = Size(B1) /\ b2 = Size(B2)
  BY SizeFacts, Names
<1>3. ASSUME pageIndex_[key] = B1 PROVE RaisedTarget \in 0..Capacity
  <2>1. b1 > 0
    BY <1>2, <1>3, SizeFacts, Names
  <2>2. PICK q \in Int : q = b2 \div b1
    BY <2>1
  <2>3. PICK m \in Int : m = Max({1, b2 \div b1}) /\ m >= 1
    <3>1. Max({1, q}) \in Int /\ Max({1, q}) >= 1
      BY MaxOfTwo
    <3>. QED
      BY <2>2, <3>1
  <2>4. PICK sum \in Int : sum = t1TargetSize_ + m /\ sum >= 0
    BY <1>1, <2>3
  <2>5. Min({Capacity, sum}) \in {Capacity, sum} /\ Min({Capacity, sum}) <= Capacity
    BY <1>1, MinOfTwo
  <2>6. RaisedTarget = Min({Capacity, sum})
    BY <1>2, <2>3, <2>4 DEF RaisedTarget
  <2>. QED
    BY <1>1, <2>4, <2>5, <2>6
<1>4. ASSUME pageIndex_[key] = B2 PROVE LoweredTarget \in 0..Capacity
  <2>1. b2 > 0
    BY <1>2, <1>4, SizeFacts, Names
  <2>2. PICK q \in Int : q = b1 \div b2
    BY <2>1
  <2>3. PICK m \in Int : m = Max({1, b1 \div b2}) /\ m >= 1
    <3>1. Max({1, q}) \in Int /\ Max({1, q}) >= 1
      BY MaxOfTwo
    <3>. QED
      BY <2>2, <3>1
  <2>4. LoweredTarget = IF m >= t1TargetSize_ THEN 0 ELSE t1TargetSize_ - m
    BY <1>2, <2>3 DEF LoweredTarget
  <2>. QED
    BY <1>1, <2>3, <2>4
<1>. QED
  BY <1>3, <1>4

-----------------------------------------------------------------------------
(***************************************************************************)
(* Theorems.                                                               *)
(***************************************************************************)

\* All lists are empty at first.
LEMMA InitInv == Init => Inv
<1>. SUFFICES ASSUME Init PROVE Inv
  OBVIOUS
<1>1. <<>> \in Seq(Key) /\ Len(<<>>) = 0 /\ DOMAIN <<>> = {}
  BY EmptySeq
<1>2. \A name \in ListName : FiledUnder(pageIndex_, name) = {}
  BY Names DEF Init, FiledUnder
<1>3. Holds(<<>>, {})
  BY <1>1 DEF Holds, IsInjective, ToSet
<1>4. Agree(list, pageIndex_)
  BY <1>1, <1>2, <1>3 DEF Init, Agree
<1>5. \A name \in ListName : Size(name) = 0
  BY <1>1 DEF Init, Size
<1>6. Bounded(Size(T1), Size(T2), Size(B1), Size(B2))
  <2>1. Bounded(0, 0, 0, 0)
    BY CapacityAssumption DEF Bounded
  <2>. QED
    BY <1>5, <2>1, Names
<1>7. CallsTypeOK
  BY <1>1, MaxDepthAssumption DEF Init, CallsTypeOK
<1>8. paged = FiledUnder(pageIndex_, T1) \cup FiledUnder(pageIndex_, T2)
  BY <1>2, Names DEF Init
<1>9. t1TargetSize_ \in 0..Capacity
  BY CapacityAssumption DEF Init
<1>. QED
  BY <1>4, <1>6, <1>7, <1>8, <1>9 DEF Inv

\* insert of a key that is not resident, in all its cases.
LEMMA InsertStep ==
  ASSUME Inv, NEW key \in Key, InsertGhost(key) \/ InsertNew(key)
  PROVE  /\ Agree(list', pageIndex_')
         /\ FiledUnder(pageIndex_', T1) \cup FiledUnder(pageIndex_', T2) = paged'
         /\ Bounded(Len(list'[T1]), Len(list'[T2]), Len(list'[B1]), Len(list'[B2]))
         /\ key \notin paged
         /\ \/ /\ Size(T1) + Size(T2) < Capacity
               /\ paged' = paged \cup {key}
            \/ /\ Size(T1) + Size(T2) = Capacity
               /\ \E victim \in paged : paged' = (paged \ {victim}) \cup {key}
BY InsertGhostStep, InsertNewReplacing, InsertNewPlain

\* A call that fails leaves no trace, whichever step of it throws.
LEMMA FailedInsert ==
  ASSUME Inv, NEW key \in Key,
         InsertDuplicate(key) \/ InsertThrows(key) \/ LoadThrows(key)
  PROVE  UNCHANGED store
<1>1. CASE InsertDuplicate(key) \/ LoadThrows(key)
  BY <1>1 DEF InsertDuplicate, LoadThrows
<1>2. CASE InsertThrows(key)
  <2>1. pageIndex_ \in [Key -> ListName \cup {NoList}]
    BY DEF Inv, Agree
  <2>2. pageIndex_' = pageIndex_
    BY <1>2, <2>1 DEF InsertThrows, Rollback, Filed
  <2>3. key \notin paged
    BY <1>2 DEF InsertThrows, Inv, FiledUnder
  <2>. QED
    BY <1>2, <2>2, <2>3 DEF InsertThrows, Rollback, store
<1>. QED
  BY <1>1, <1>2

\* Every action preserves the invariant.
LEMMA NextInv == Inv /\ [Next]_vars => Inv'
<1>. SUFFICES ASSUME Inv, [Next]_vars PROVE Inv'
  OBVIOUS
<1>1. ASSUME NEW key \in Key, Hit(key) PROVE Inv'
  <2>1. paged' = paged /\ t1TargetSize_' = t1TargetSize_ /\ calls' = calls
    BY <1>1 DEF Hit
  <2>. QED
    BY <1>1, <2>1, HitStep DEF Inv, Size, CallsTypeOK
<1>2. ASSUME NEW key \in Key, GhostMiss(key) PROVE Inv'
  <2>1. CallsTypeOK'
    BY <1>2, EnterKeepsCalls DEF GhostMiss, Inv
  <2>2. t1TargetSize_' \in 0..Capacity
    BY <1>2, TargetStaysInRange DEF GhostMiss
  <2>3. list' = list /\ pageIndex_' = pageIndex_ /\ paged' = paged
    BY <1>2 DEF GhostMiss
  <2>. QED
    BY <2>1, <2>2, <2>3 DEF Inv, Size
<1>3. ASSUME NEW key \in Key, Miss(key) PROVE Inv'
  <2>1. CallsTypeOK'
    BY <1>3, EnterKeepsCalls DEF Miss, Inv
  <2>. QED
    BY <1>3, <2>1 DEF Miss, store, Inv, Size
<1>4. ASSUME NEW key \in Key, InsertGhost(key) \/ InsertNew(key) PROVE Inv'
  <2>1. CallsTypeOK' /\ t1TargetSize_' = t1TargetSize_
    BY <1>4, LeaveKeepsCalls DEF InsertGhost, InsertNew, Inv
  <2>. QED
    BY <1>4, <2>1, InsertStep DEF Inv, Size
<1>5. ASSUME NEW key \in Key,
             InsertDuplicate(key) \/ InsertThrows(key) \/ LoadThrows(key)
      PROVE  Inv'
  <2>1. CallsTypeOK'
    BY <1>5, LeaveKeepsCalls DEF InsertDuplicate, InsertThrows, LoadThrows, Inv
  <2>2. UNCHANGED store
    BY <1>5, FailedInsert
  <2>. QED
    BY <2>1, <2>2 DEF store, Inv, Size
<1>6. ASSUME UNCHANGED vars PROVE Inv'
  BY <1>6 DEF vars, Inv, Size, CallsTypeOK
<1>. QED
  BY <1>1, <1>2, <1>3, <1>4, <1>5, <1>6 DEF Next

\* The four lists, the index and the pages agree and keep their bounds.
THEOREM Invariance == Spec => []Inv
<1>. QED
  BY InitInv, NextInv, PTL DEF Spec

\* CacheARC's lists and index are well formed, and no adaptation drives the
\* target out of 0..size_ (recordHit's two clamps).
THEOREM TypeCorrect == Spec => []TypeOK
BY Invariance, InvImplies, PTL

\* Every record is in the list that its index entry names, and exactly the
\* records of T1 and T2 hold pages (the invariant recordHit asserts).
THEOREM IndexCorrect == Spec => []IndexConsistent
BY Invariance, InvImplies, PTL

\* No sequence of calls makes the cache or its directory of ghosts outgrow
\* their bounds (evictForNewPage trims before it stores).
THEOREM DirectoryStaysBounded == Spec => []DirectoryBounded
BY Invariance, InvImplies, PTL

\* Ghosts exist only while the cache is full, so promoteGhostPage's unguarded
\* eviction never gives up a page that there is room for.
THEOREM GhostsNeedFullCache == Spec => []GhostsOnlyWhenFull
BY Invariance, InvImplies, PTL

\* A call that ends without caching its own key leaves every list, the index,
\* the pages and the target alone (the catch blocks of promoteGhostPage and
\* evictForNewPage).
THEOREM FailuresLeaveNoTrace == Spec => FailureAtomicity
<1>. DEFINE Atomic == CallEnds => \/ UNCHANGED store
                                  \/ /\ Last(calls) \in Resident' \ Resident
                                     /\ UNCHANGED t1TargetSize_
<1>1. Inv /\ [Next]_vars => [Atomic]_vars
  <2>. SUFFICES ASSUME Inv, Next, CallEnds
                PROVE  \/ UNCHANGED store
                       \/ /\ Last(calls) \in Resident' \ Resident
                          /\ UNCHANGED t1TargetSize_
    OBVIOUS
  <2>1. calls' # calls
    BY DEF CallEnds, Inv, CallsTypeOK
  <2>2. ASSUME NEW key \in Key, GhostMiss(key) PROVE FALSE
    <3>1. calls' = Append(calls, key) /\ calls \in Seq(Key)
      BY <2>2 DEF GhostMiss, Enter, Inv, CallsTypeOK
    <3>2. Len(calls') = Len(calls) + 1 /\ Len(calls) \in Nat
      BY <3>1
    <3>. QED
      BY <3>2 DEF CallEnds
  <2>3. ASSUME NEW key \in Key, InsertGhost(key) \/ InsertNew(key)
        PROVE  Last(calls) \in Resident' \ Resident /\ UNCHANGED t1TargetSize_
    <3>1. key = Last(calls) /\ t1TargetSize_' = t1TargetSize_
      BY <2>3 DEF InsertGhost, InsertNew, Leave
    <3>2. /\ key \in paged' /\ key \notin paged
          /\ paged' = FiledUnder(pageIndex_', T1) \cup FiledUnder(pageIndex_', T2)
      BY <2>3, InsertStep
    <3>. QED
      BY <3>1, <3>2, Names DEF Resident, FiledUnder
  <2>. QED
    BY <2>1, <2>2, <2>3, FailedInsert DEF Next, Hit, Miss
<1>. QED
  BY <1>1, Invariance, PTL DEF Spec, FailureAtomicity

-----------------------------------------------------------------------------
(***************************************************************************)
(* Refinement.                                                             *)
(***************************************************************************)

\* lookup finds exactly the records that hold a page.
LEMMA ResidentIsPaged == Inv => Resident = paged
BY Names DEF Inv, Resident, FiledUnder

\* The contract's stack of calls and its count of a set are CacheARC's own.
LEMMA SameProtocol ==
  /\ \A key : Contract!Leave(key) <=> Leave(key)
  /\ \A key : Contract!Enter(key) <=> Enter(key)
  /\ \A S : Contract!Cardinality(S) = Cardinality(S)
<1>1. \A key : Contract!Leave(key) <=> Leave(key)
  BY DEF Contract!Leave, Contract!Last, Contract!Front, Leave, Last, Front
<1>2. \A key : Contract!Enter(key) <=> Enter(key)
  BY DEF Contract!Enter, Enter
<1>3. \A S : Contract!Cardinality(S) = Cardinality(S)
  BY DEF Contract!Cardinality, Cardinality
<1>. QED
  BY <1>1, <1>2, <1>3

\* Every step of the ARC cache is a step that a client of Cache may see.
LEMMA StepRefines ==
  ASSUME Inv, Inv', [Next]_vars
  PROVE  [Contract!Next]_(Contract!vars)
<1>1. Resident = paged
  BY ResidentIsPaged
<1>2. Resident' = paged'
  BY Names DEF Inv, Resident, FiledUnder
<1>3. Cardinality(Resident) = Size(T1) + Size(T2)
  BY <1>1, PagedCount
<1>4. Size(T1) + Size(T2) \in Nat /\ Capacity \in Nat
  BY SizeFacts, Names
<1>5. ASSUME NEW key \in Key, Hit(key) PROVE UNCHANGED Contract!vars
  BY <1>1, <1>2, <1>5 DEF Hit, Contract!vars
<1>6. ASSUME NEW key \in Key, GhostMiss(key) \/ Miss(key) PROVE Contract!Miss(key)
  <2>1. key \notin paged
    BY <1>6, Names DEF GhostMiss, Miss, Inv, FiledUnder
  <2>2. paged' = paged /\ Enter(key)
    BY <1>6 DEF GhostMiss, Miss, store
  <2>. QED
    BY <1>1, <1>2, <2>1, <2>2, SameProtocol DEF Contract!Miss
<1>7. ASSUME NEW key \in Key, InsertGhost(key) \/ InsertNew(key)
      PROVE  Contract!Insert(key)
  <2>1. Contract!Leave(key)
    BY <1>7, SameProtocol DEF InsertGhost, InsertNew
  <2>2. key \notin Resident
    BY <1>1, <1>7, InsertStep
  <2>3. CASE Size(T1) + Size(T2) < Capacity
    <3>1. Resident' = Resident \cup {key}
      BY <1>1, <1>2, <1>4, <1>7, <2>3, InsertStep
    <3>. QED
      BY <1>3, <2>1, <2>2, <2>3, <3>1, SameProtocol DEF Contract!Insert
  <2>4. CASE Size(T1) + Size(T2) = Capacity
    <3>1. \E victim \in Resident : Resident' = (Resident \ {victim}) \cup {key}
      BY <1>1, <1>2, <1>4, <1>7, <2>4, InsertStep
    <3>2. ~(Cardinality(Resident) < Capacity)
      BY <1>3, <1>4, <2>4
    <3>. QED
      BY <2>1, <2>2, <3>1, <3>2, SameProtocol DEF Contract!Insert
  <2>. QED
    BY <1>7, <2>3, <2>4, InsertStep
<1>8. ASSUME NEW key \in Key,
             InsertDuplicate(key) \/ InsertThrows(key) \/ LoadThrows(key)
      PROVE  Contract!Fail(key)
  <2>1. Leave(key)
    BY <1>8 DEF InsertDuplicate, InsertThrows, LoadThrows
  <2>2. paged' = paged
    BY <1>8, FailedInsert DEF store
  <2>. QED
    BY <1>1, <1>2, <2>1, <2>2, SameProtocol DEF Contract!Fail
<1>9. ASSUME UNCHANGED vars PROVE UNCHANGED Contract!vars
  BY <1>1, <1>2, <1>9 DEF vars, Contract!vars
<1>10. CASE Next
  BY <1>5, <1>6, <1>7, <1>8, <1>10 DEF Next, Contract!Next
<1>. QED
  BY <1>9, <1>10

\* CacheARC implements the contract of Cache::lookupUpdate: ghosts are never
\* resident, and pages are given up only for want of room, one at a time.
THEOREM Refinement == Spec => ImplementsCache
<1>1. Init => Contract!Init
  <2>1. Init => Resident = {}
    BY DEF Init, Resident
  <2>. QED
    BY <2>1 DEF Init, Contract!Init
<1>2. Inv /\ Inv' /\ [Next]_vars => [Contract!Next]_(Contract!vars)
  BY StepRefines
<1>. QED
  BY <1>1, <1>2, Invariance, PTL DEF Spec, ImplementsCache, Contract!Spec

-----------------------------------------------------------------------------
(***************************************************************************)
(* The order of use.                                                       *)
(***************************************************************************)

\* The pages and the ghosts of the keys used once, and of those used again.
Recent(lists) == lists[T1] \o lists[B1]

Frequent(lists) == lists[T2] \o lists[B2]

\* The lists of an agreeing directory hold keys, each in one of them.
LEMMA AgreeFacts ==
  ASSUME NEW lists, NEW index, Agree(lists, index)
  PROVE  /\ \A n \in ListName : /\ lists[n] \in Seq(Key)
                                /\ IsInjective(lists[n])
                                /\ ToSet(lists[n]) = FiledUnder(index, n)
         /\ Recent(lists) \in Seq(Key) /\ Frequent(lists) \in Seq(Key)
<1>1. \A n \in ListName : /\ lists[n] \in Seq(Key)
                          /\ IsInjective(lists[n])
                          /\ ToSet(lists[n]) = FiledUnder(index, n)
  BY DEF Agree, Holds
<1>2. Recent(lists) \in Seq(Key) /\ Frequent(lists) \in Seq(Key)
  BY <1>1, Names, ConcatProperties DEF Recent, Frequent
<1>. QED
  BY <1>1, <1>2

\* A record that leaves its list leaves the others in their order.
LEMMA OrderWithout ==
  ASSUME NEW lists, NEW index, Agree(lists, index),
         NEW key \in Key, index[key] \in ListName, NEW after,
         after[index[key]] = Among(lists[index[key]], Key \ {key}),
         \A n \in ListName \ {index[key]} : after[n] = lists[n]
  PROVE  /\ Recent(after) = Among(Recent(lists), Key \ {key})
         /\ Frequent(after) = Among(Frequent(lists), Key \ {key})
<1>1. PICK T : T = Key \ {key}
  OBVIOUS
<1>2. \A n \in ListName : lists[n] \in Seq(Key)
  BY AgreeFacts
<1>3. \A n \in ListName : after[n] = Among(lists[n], T)
  <2>1. ASSUME NEW n \in ListName \ {index[key]} PROVE lists[n] = Among(lists[n], T)
    <3>1. PICK other \in Seq(Key) : other = lists[n]
      BY <1>2
    <3>2. ToSet(lists[n]) = FiledUnder(index, n)
      BY AgreeFacts
    <3>3. ToSet(other) \cap T = ToSet(other) \cap Key
      BY <1>1, <3>1, <3>2 DEF FiledUnder
    <3>4. Among(other, T) = other
      BY <3>3, AmongSame, AmongAll
    <3>. QED
      BY <3>1, <3>4
  <2>. QED
    BY <1>1, <2>1
<1>4. \A s \in Seq(Key) : \A t \in Seq(Key) : Among(s \o t, T) = Among(s, T) \o Among(t, T)
  BY AmongConcat
<1>5. ASSUME NEW m \in ListName, NEW n \in ListName
      PROVE  after[m] \o after[n] = Among(lists[m] \o lists[n], T)
  BY <1>2, <1>3, <1>4
<1>. QED
  BY <1>1, <1>5, Names DEF Recent, Frequent

\* Forgetting the record at the back of a list.
LEMMA OrderForgetBack ==
  ASSUME NEW lists, NEW index, Agree(lists, index),
         NEW name \in ListName, lists[name] # <<>>
  PROVE  /\ Recent(WithoutBack(lists, name)) = Among(Recent(lists), Key \ {Last(lists[name])})
         /\ Frequent(WithoutBack(lists, name)) = Among(Frequent(lists), Key \ {Last(lists[name])})
<1>1. PICK key \in Key : key = Last(lists[name]) /\ index[key] = name
  BY ForgetBack
<1>2. PICK after : after = WithoutBack(lists, name)
  OBVIOUS
<1>3. after[name] = Front(lists[name]) /\ \A n \in ListName \ {name} : after[n] = lists[n]
  BY <1>2 DEF WithoutBack, Agree
<1>4. PICK own \in Seq(Key) : own = lists[name] /\ IsInjective(own) /\ own # <<>>
  BY AgreeFacts
<1>5. Front(own) = Among(own, Key \ {Last(own)})
  BY <1>4, FrontIsAmong
<1>6. after[name] = Among(lists[name], Key \ {key})
  BY <1>1, <1>3, <1>4, <1>5
<1>7. /\ Recent(after) = Among(Recent(lists), Key \ {key})
      /\ Frequent(after) = Among(Frequent(lists), Key \ {key})
  BY <1>1, <1>3, <1>6, OrderWithout
<1>. QED
  BY <1>1, <1>2, <1>7

\* Unlinking the record of an indexed key.
LEMMA OrderUnlink ==
  ASSUME NEW lists, NEW index, Agree(lists, index),
         NEW key \in Key, index[key] \in ListName
  PROVE  /\ Recent(Without(lists, index[key], key)) = Among(Recent(lists), Key \ {key})
         /\ Frequent(Without(lists, index[key], key)) = Among(Frequent(lists), Key \ {key})
<1>1. PICK name \in ListName : name = index[key]
  OBVIOUS
<1>2. PICK after : after = Without(lists, name, key)
  OBVIOUS
<1>3. after[name] = RemoveFirst(lists[name], key) /\ \A n \in ListName \ {name} : after[n] = lists[n]
  BY <1>2 DEF Without, Agree
<1>4. PICK own \in Seq(Key) : own = lists[name] /\ IsInjective(own) /\ key \in ToSet(own)
  BY <1>1, AgreeFacts DEF FiledUnder
<1>5. RemoveFirst(own, key) = Among(own, Key \ {key})
  BY <1>4, AmongOthers
<1>6. after[name] = Among(lists[name], Key \ {key})
  BY <1>3, <1>4, <1>5
<1>7. /\ Recent(after) = Among(Recent(lists), Key \ {key})
      /\ Frequent(after) = Among(Frequent(lists), Key \ {key})
  BY <1>1, <1>3, <1>6, OrderWithout
<1>. QED
  BY <1>1, <1>2, <1>7

\* Putting a record at the front of T1, or of T2.
LEMMA OrderPutFront ==
  ASSUME NEW lists, NEW index, Agree(lists, index), NEW key \in Key
  PROVE  /\ Recent(With(lists, T1, key)) = Cons(key, Recent(lists))
         /\ Frequent(With(lists, T1, key)) = Frequent(lists)
         /\ Recent(With(lists, T2, key)) = Recent(lists)
         /\ Frequent(With(lists, T2, key)) = Cons(key, Frequent(lists))
<1>1. \A n \in ListName : lists[n] \in Seq(Key)
  BY AgreeFacts
<1>2. <<key>> \in Seq(Key)
  OBVIOUS
<1>3. \A s \in Seq(Key) : \A t \in Seq(Key) : Cons(key, s) \o t = Cons(key, s \o t)
  BY <1>2, ConcatAssociative DEF Cons
<1>4. lists \in [ListName -> Seq(Key)]
  BY DEF Agree
<1>. QED
  BY <1>1, <1>3, <1>4, Names DEF Recent, Frequent, With

\* Evicting a page moves the border between the pages and the ghosts.
LEMMA OrderEvict ==
  ASSUME NEW lists, NEW index, Agree(lists, index),
         NEW source \in {T1, T2}, lists[source] # <<>>
  PROVE  /\ Recent(EvictPage(lists, source)) = Recent(lists)
         /\ Frequent(EvictPage(lists, source)) = Frequent(lists)
<1>1. \A n \in ListName : lists[n] \in Seq(Key)
  BY AgreeFacts
<1>2. \A s \in Seq(Key) : \A t \in Seq(Key) :
        s # <<>> => Front(s) \o Cons(Last(s), t) = s \o t
  BY LastBecomesFirst
<1>3. lists \in [ListName -> Seq(Key)] /\ source # NoList
  BY Names DEF Agree
<1>4. CASE source = T1
  <2>1. EvictPage(lists, T1) = [lists EXCEPT ![T1] = Front(@), ![B1] = Cons(Last(lists[T1]), @)]
    BY <1>3, <1>4, Names DEF EvictPage, GhostListOf
  <2>. QED
    BY <1>1, <1>2, <1>3, <1>4, <2>1, Names DEF Recent, Frequent
<1>5. CASE source = T2
  <2>1. EvictPage(lists, T2) = [lists EXCEPT ![T2] = Front(@), ![B2] = Cons(Last(lists[T2]), @)]
    BY <1>3, <1>5, Names DEF EvictPage, GhostListOf
  <2>. QED
    BY <1>1, <1>2, <1>3, <1>5, <2>1, Names DEF Recent, Frequent
<1>. QED
  BY <1>4, <1>5

\* What OrderedByUse says, of any order of use of the known keys, of which some
\* were used again, and of any two lists.
Ordered(order, known, again, recent, frequent) ==
  /\ order \in Seq(Key)
  /\ IsInjective(order)
  /\ ToSet(order) = known
  /\ again \subseteq known
  /\ recent = Among(order, Key \ again)
  /\ frequent = Among(order, again)

\* The keys used again, after a use of key.
UsedAgain(again, known, key) == again \cup (IF key \in known THEN {key} ELSE {})

\* A use of key takes it, with the keys forgotten, out of the two lists, and
\* puts it at the front of one: of the keys used again if it was known.
LEMMA OrderOfUse ==
  ASSUME NEW order, NEW known, NEW again, NEW recent, NEW frequent,
         Ordered(order, known, again, recent, frequent),
         NEW key \in Key, NEW forgotten \in SUBSET Key, key \notin forgotten,
         NEW after, after = (known \cup {key}) \ forgotten,
         NEW others, others = Key \ (forgotten \cup {key})
  PROVE  Ordered(Among(SpliceToFront(order, key), after), after,
                 UsedAgain(again, known, key) \cap after,
                 IF key \in known THEN Among(recent, others)
                                  ELSE Cons(key, Among(recent, others)),
                 IF key \in known THEN Cons(key, Among(frequent, others))
                                  ELSE Among(frequent, others))
<1>1. /\ order \in Seq(Key) /\ IsInjective(order) /\ ToSet(order) = known
      /\ again \subseteq known /\ known \subseteq Key
      /\ recent = Among(order, Key \ again) /\ frequent = Among(order, again)
  <2>1. ToSet(order) \subseteq Key
    BY DEF Ordered, ToSet
  <2>. QED
    BY <2>1 DEF Ordered
<1>2. PICK kept \in Seq(Key) :
        /\ kept = Among(order, others)
        /\ ToSet(kept) = known \cap others
        /\ IsInjective(kept)
  BY <1>1, AmongType, AmongItems
<1>3. Among(SpliceToFront(order, key), after) = Cons(key, kept)
  <2>1. PICK rest \in Seq(Key) : rest = Among(order, Key \ {key})
    BY <1>1, AmongType
  <2>2. SpliceToFront(order, key) = Cons(key, rest)
    BY <1>1, <2>1, SpliceIsCons
  <2>3. Among(Cons(key, rest), after) = Cons(key, Among(rest, after))
    BY AmongCons
  <2>4. Among(rest, after) = Among(order, (Key \ {key}) \cap after)
    BY <1>1, <2>1, AmongAmong
  <2>5. known \cap ((Key \ {key}) \cap after) = known \cap others
    BY <1>1
  <2>6. Among(order, (Key \ {key}) \cap after) = Among(order, others)
    BY <1>1, <2>5, AmongSame
  <2>. QED
    BY <1>2, <2>2, <2>3, <2>4, <2>6
<1>4. PICK new \in Seq(Key) :
        /\ new = Cons(key, kept)
        /\ ToSet(new) = ToSet(kept) \cup {key}
        /\ IsInjective(new)
  <2>1. key \notin ToSet(kept)
    BY <1>2
  <2>. QED
    BY <1>2, <2>1, ConsFacts
<1>5. ToSet(new) = after
  BY <1>1, <1>2, <1>4
<1>6. ASSUME NEW U
      PROVE  Among(new, U) = IF key \in U THEN Cons(key, Among(order, others \cap U))
                                          ELSE Among(order, others \cap U)
  <2>1. Among(Cons(key, kept), U) = IF key \in U THEN Cons(key, Among(kept, U)) ELSE Among(kept, U)
    BY AmongCons
  <2>2. Among(kept, U) = Among(order, others \cap U)
    BY <1>1, <1>2, AmongAmong
  <2>. QED
    BY <1>4, <2>1, <2>2
<1>7. PICK more : more = UsedAgain(again, known, key) \cap after
  OBVIOUS
<1>8. (key \in more <=> key \in known) /\ more \subseteq after
  BY <1>1, <1>7 DEF UsedAgain
<1>9. Among(recent, others) = Among(order, others \cap (Key \ more))
  <2>1. Among(recent, others) = Among(order, (Key \ again) \cap others)
    BY <1>1, AmongAmong
  <2>2. known \cap ((Key \ again) \cap others) = known \cap (others \cap (Key \ more))
    BY <1>1, <1>7 DEF UsedAgain
  <2>3. Among(order, (Key \ again) \cap others) = Among(order, others \cap (Key \ more))
    BY <1>1, <2>2, AmongSame
  <2>. QED
    BY <2>1, <2>3
<1>10. Among(frequent, others) = Among(order, others \cap more)
  <2>1. Among(frequent, others) = Among(order, again \cap others)
    BY <1>1, AmongAmong
  <2>2. known \cap (again \cap others) = known \cap (others \cap more)
    BY <1>1, <1>7 DEF UsedAgain
  <2>3. Among(order, again \cap others) = Among(order, others \cap more)
    BY <1>1, <2>2, AmongSame
  <2>. QED
    BY <2>1, <2>3
<1>11. Among(new, Key \ more) = IF key \in known THEN Among(recent, others)
                                ELSE Cons(key, Among(recent, others))
  BY <1>6, <1>8, <1>9
<1>12. Among(new, more) = IF key \in known THEN Cons(key, Among(frequent, others))
                          ELSE Among(frequent, others)
  BY <1>6, <1>8, <1>10
<1>13. Among(SpliceToFront(order, key), after) = new
  BY <1>3, <1>4
<1>. QED
  BY <1>4, <1>5, <1>7, <1>8, <1>11, <1>12, <1>13 DEF Ordered

\* OrderedByUse, with what it needs to be inductive: the order has each known
\* key once, so that a use of one moves it and forgetting one removes it.
OrderInv == Ordered(recency, Known, reused, Recent(list), Frequent(list))

\* The use of a known key: it goes to the front of T2.
LEMMA KnownKeyUsed ==
  ASSUME OrderInv, Agree(list, pageIndex_), NEW key \in Known, Use(key), Known' = Known,
         Recent(list') = Among(Recent(list), Key \ {key}),
         Frequent(list') = Cons(key, Among(Frequent(list), Key \ {key}))
  PROVE  OrderInv'
<1>1. key \in Key /\ Known = (Known \cup {key}) \ {} /\ Key \ {key} = Key \ ({} \cup {key})
  BY DEF Known
<1>2. Ordered(Among(SpliceToFront(recency, key), Known), Known,
              UsedAgain(reused, Known, key) \cap Known,
              Among(Recent(list), Key \ {key}),
              Cons(key, Among(Frequent(list), Key \ {key})))
  BY <1>1, OrderOfUse, {} \in SUBSET Key DEF OrderInv
<1>3. /\ recency' = Among(SpliceToFront(recency, key), Known)
      /\ reused' = UsedAgain(reused, Known, key) \cap Known
  BY DEF Use, UsedAgain
<1>. QED
  BY <1>2, <1>3 DEF OrderInv, Recent, Frequent

\* The use of a key the cache does not know, while some are forgotten: it goes
\* to the front of T1.
LEMMA NewKeyUsed ==
  ASSUME OrderInv, Agree(list, pageIndex_), NEW key \in Key \ Known, Use(key),
         NEW forgotten \in SUBSET Key, key \notin forgotten,
         Known' = (Known \cup {key}) \ forgotten,
         Recent(list') = Cons(key, Among(Recent(list), Key \ forgotten)),
         Frequent(list') = Among(Frequent(list), Key \ forgotten)
  PROVE  OrderInv'
<1>1. PICK others : others = Key \ (forgotten \cup {key})
  OBVIOUS
<1>2. PICK after : after = (Known \cup {key}) \ forgotten
  OBVIOUS
<1>3. Ordered(Among(SpliceToFront(recency, key), after), after,
              UsedAgain(reused, Known, key) \cap after,
              Cons(key, Among(Recent(list), others)), Among(Frequent(list), others))
  <2>1. PICK recent, frequent : recent = Recent(list) /\ frequent = Frequent(list)
    OBVIOUS
  <2>2. Ordered(recency, Known, reused, recent, frequent) /\ key \in Key /\ key \notin Known
    BY <2>1 DEF OrderInv
  <2>3. Ordered(Among(SpliceToFront(recency, key), after), after,
                UsedAgain(reused, Known, key) \cap after,
                IF key \in Known THEN Among(recent, others) ELSE Cons(key, Among(recent, others)),
                IF key \in Known THEN Cons(key, Among(frequent, others))
                                 ELSE Among(frequent, others))
    BY <1>1, <1>2, <2>2, OrderOfUse
  <2>. QED
    BY <2>1, <2>2, <2>3
<1>4. /\ recency' = Among(SpliceToFront(recency, key), after)
      /\ reused' = UsedAgain(reused, Known, key) \cap after
  BY <1>2 DEF Use, UsedAgain
<1>5. ASSUME NEW s \in Seq(Key), key \notin ToSet(s)
      PROVE  Among(s, Key \ forgotten) = Among(s, others)
  <2>1. ToSet(s) \cap (Key \ forgotten) = ToSet(s) \cap others
    BY <1>1, <1>5
  <2>. QED
    BY <2>1, AmongSame
<1>6. /\ Recent(list) \in Seq(Key) /\ Frequent(list) \in Seq(Key)
      /\ ToSet(Recent(list)) \subseteq Known /\ ToSet(Frequent(list)) \subseteq Known
  <2>1. Recent(list) \in Seq(Key) /\ Frequent(list) \in Seq(Key)
    BY AgreeFacts
  <2>2. /\ recency \in Seq(Key) /\ ToSet(recency) = Known
        /\ Recent(list) = Among(recency, Key \ reused) /\ Frequent(list) = Among(recency, reused)
    BY DEF OrderInv, Ordered
  <2>3. /\ ToSet(Among(recency, Key \ reused)) = ToSet(recency) \cap (Key \ reused)
        /\ ToSet(Among(recency, reused)) = ToSet(recency) \cap reused
    BY <2>2, AmongItems
  <2>. QED
    BY <2>1, <2>2, <2>3
<1>7. /\ Among(Recent(list), Key \ forgotten) = Among(Recent(list), others)
      /\ Among(Frequent(list), Key \ forgotten) = Among(Frequent(list), others)
  BY <1>5, <1>6
<1>. QED
  BY <1>2, <1>3, <1>4, <1>7 DEF OrderInv, Recent, Frequent

\* A record moved to the front of T2, from whichever list it is in.
LEMMA OrderPromote ==
  ASSUME NEW lists, NEW index, Agree(lists, index),
         NEW key \in Key, index[key] \in ListName,
         NEW after, after = With(Without(lists, index[key], key), T2, key)
  PROVE  /\ Recent(after) = Among(Recent(lists), Key \ {key})
         /\ Frequent(after) = Cons(key, Among(Frequent(lists), Key \ {key}))
<1>1. PICK l1 : l1 = Without(lists, index[key], key)
  OBVIOUS
<1>2. PICK i1 : i1 = Refiled(index, key, NoList) /\ Agree(l1, i1)
  BY <1>1, Unlink
<1>3. /\ Recent(l1) = Among(Recent(lists), Key \ {key})
      /\ Frequent(l1) = Among(Frequent(lists), Key \ {key})
  BY <1>1, OrderUnlink
<1>4. /\ Recent(With(l1, T2, key)) = Recent(l1)
      /\ Frequent(With(l1, T2, key)) = Cons(key, Frequent(l1))
  BY <1>2, OrderPutFront
<1>. QED
  BY <1>1, <1>3, <1>4

\* A hit.
LEMMA HitOrder ==
  ASSUME Inv, OrderInv, NEW key \in Key, Use(key), Hit(key)
  PROVE  OrderInv'
<1>1. /\ Agree(list, pageIndex_)
      /\ list \in [ListName -> Seq(Key)]
      /\ pageIndex_ \in [Key -> ListName \cup {NoList}]
  BY DEF Inv, Agree
<1>2. pageIndex_[key] \in {T1, T2}
  BY DEF Hit
<1>3. list' = With(Without(list, pageIndex_[key], key), T2, key)
  BY <1>1, <1>2, Names DEF Hit, RecordHit, SpliceToFront, With, Without
<1>4. /\ Recent(list') = Among(Recent(list), Key \ {key})
      /\ Frequent(list') = Cons(key, Among(Frequent(list), Key \ {key}))
  BY <1>1, <1>2, <1>3, OrderPromote, Names
<1>5. key \in Known /\ Known' = Known
  BY <1>1, <1>2, Names DEF Hit, RecordHit, Known
<1>. QED
  BY <1>1, <1>4, <1>5, KnownKeyUsed

\* The promotion of a ghost.
LEMMA GhostOrder ==
  ASSUME Inv, OrderInv, NEW key \in Key, Use(key), InsertGhost(key)
  PROVE  OrderInv'
<1>1. /\ Agree(list, pageIndex_)
      /\ list \in [ListName -> Seq(Key)]
      /\ pageIndex_ \in [Key -> ListName \cup {NoList}]
      /\ Size(T1) + Size(T2) = Capacity
      /\ Capacity \in Nat /\ Capacity >= 1
  BY SizeFacts, InsertGhostStep DEF Inv, Agree
<1>2. PICK ghosts \in {B1, B2} : pageIndex_[key] = ghosts
  BY DEF InsertGhost
<1>3. PICK source \in {T1, T2} :
        /\ source = ResidentListToEvict(ghosts = B2)
        /\ list[source] # <<>>
        /\ Back(source) = {Last(list[source])}
  <2>1. PICK fromB2 \in BOOLEAN : fromB2 <=> ghosts = B2
    OBVIOUS
  <2>2. ResidentListToEvict(ghosts = B2) = ResidentListToEvict(fromB2)
    BY <2>1 DEF ResidentListToEvict
  <2>. QED
    BY <1>1, <2>2, ResidentToEvict
<1>4. PICK g \in {B1, B2} : g = GhostListOf(source)
  BY DEF GhostListOf
<1>5. PICK victim \in Key : victim = Last(list[source]) /\ pageIndex_[victim] = source
  BY <1>1, <1>3, Evict
<1>6. PICK l1 : l1 = EvictPage(list, source)
  OBVIOUS
<1>7. PICK i1 : i1 = Refiled(pageIndex_, victim, g) /\ Agree(l1, i1)
  BY <1>1, <1>3, <1>4, <1>5, <1>6, Evict
<1>8. i1[key] = ghosts
  BY <1>1, <1>2, <1>5, <1>7, Names DEF Refiled
<1>9. list' = With(Without(l1, ghosts, key), T2, key)
  <2>1. list' = [EvictPage(list, source) EXCEPT ![ghosts] = RemoveFirst(@, key),
                                                ![T2] = Cons(key, @)]
    BY <1>2, <1>3 DEF InsertGhost
  <2>2. l1 \in [ListName -> Seq(Key)]
    BY <1>7 DEF Agree
  <2>. QED
    BY <1>6, <2>1, <2>2, Names DEF With, Without
<1>10. Recent(l1) = Recent(list) /\ Frequent(l1) = Frequent(list)
  BY <1>1, <1>3, <1>6, OrderEvict
<1>11. /\ Recent(list') = Among(Recent(list), Key \ {key})
       /\ Frequent(list') = Cons(key, Among(Frequent(list), Key \ {key}))
  BY <1>7, <1>8, <1>9, <1>10, OrderPromote, Names
<1>12. key \in Known /\ Known' = Known
  <2>1. pageIndex_' = Filed(Filed(pageIndex_, {victim}, g), {key}, T2)
    BY <1>2, <1>3, <1>4, <1>5 DEF InsertGhost
  <2>. QED
    BY <1>1, <1>2, <1>4, <1>5, <2>1, Names DEF Filed, Known
<1>. QED
  BY <1>1, <1>11, <1>12, KnownKeyUsed

\* The directory after the oldest record of a list is forgotten, or none.
LEMMA ErasedOrder ==
  ASSUME Inv
  PROVE  /\ Agree(Erased, Filed(pageIndex_, Back(ListToErase), NoList))
         /\ Back(ListToErase) \subseteq Known
         /\ Recent(Erased) = Among(Recent(list), Key \ Back(ListToErase))
         /\ Frequent(Erased) = Among(Frequent(list), Key \ Back(ListToErase))
<1>1. /\ Agree(list, pageIndex_) /\ pageIndex_ \in [Key -> ListName \cup {NoList}]
      /\ Recent(list) \in Seq(Key) /\ Frequent(list) \in Seq(Key)
  BY AgreeFacts DEF Inv, Agree
<1>2. CASE Back(ListToErase) = {}
  <2>1. Filed(pageIndex_, {}, NoList) = pageIndex_
    BY <1>1 DEF Filed
  <2>2. Key \ {} = Key
    OBVIOUS
  <2>3. Among(Recent(list), Key) = Recent(list) /\ Among(Frequent(list), Key) = Frequent(list)
    BY <1>1, AmongAll
  <2>. QED
    BY <1>1, <1>2, <2>1, <2>2, <2>3 DEF Erased
<1>3. CASE Back(ListToErase) # {}
  <2>1. PICK name \in ListName :
          /\ name = ListToErase /\ list[name] # <<>>
          /\ Back(ListToErase) = {Last(list[name])}
    BY <1>3 DEF Back
  <2>2. PICK oldest \in Key :
          /\ oldest = Last(list[name]) /\ pageIndex_[oldest] = name
          /\ Agree(WithoutBack(list, name), Refiled(pageIndex_, oldest, NoList))
    BY <1>1, <2>1, ForgetBack
  <2>3. Refiled(pageIndex_, oldest, NoList) = Filed(pageIndex_, {oldest}, NoList)
    BY <1>1 DEF Refiled, Filed
  <2>4. Erased = WithoutBack(list, name)
    BY <1>3, <2>1 DEF Erased
  <2>5. /\ Recent(WithoutBack(list, name)) = Among(Recent(list), Key \ {oldest})
        /\ Frequent(WithoutBack(list, name)) = Among(Frequent(list), Key \ {oldest})
    BY <1>1, <2>1, <2>2, OrderForgetBack
  <2>6. oldest \in Known
    BY <2>2, Names DEF Known
  <2>. QED
    BY <2>1, <2>2, <2>3, <2>4, <2>5, <2>6
<1>. QED
  BY <1>2, <1>3

\* The page replaced for a new one becomes a ghost, or none is replaced.
LEMMA ReplacedOrder ==
  ASSUME Inv, NEW source,
         source = IF NeedsReplacement THEN ResidentListToEvict(FALSE) ELSE NoList
  PROVE  /\ \E index : Agree(EvictPage(Erased, source), index)
         /\ Recent(EvictPage(Erased, source)) = Recent(Erased)
         /\ Frequent(EvictPage(Erased, source)) = Frequent(Erased)
         /\ Back(source) \subseteq Known
         /\ Back(source) \cap Back(ListToErase) = {}
         /\ Back(source) # {} => GhostListOf(source) \in {B1, B2}
<1>1. Agree(Erased, Filed(pageIndex_, Back(ListToErase), NoList))
  BY ErasedOrder
<1>2. CASE ~NeedsReplacement
  <2>1. Back(source) = {} /\ EvictPage(Erased, source) = Erased
    BY <1>2, Names DEF Back, EvictPage
  <2>. QED
    BY <1>1, <2>1
<1>3. CASE NeedsReplacement
  <2>1. /\ Size(T1) + Size(T2) = Capacity
        /\ Erased[T1] = list[T1] /\ Erased[T2] = list[T2]
        /\ \A k \in Back(ListToErase) : k \in Key /\ pageIndex_[k] \in {B1, B2}
    BY <1>3, ForgetGhostStep
  <2>2. /\ source \in {T1, T2} /\ list[source] # <<>>
        /\ Back(source) = {Last(list[source])}
    <3>1. Size(T1) + Size(T2) > 0
      BY <2>1, SizeFacts
    <3>2. PICK fromB2 \in BOOLEAN : fromB2 = FALSE
      OBVIOUS
    <3>3. /\ ResidentListToEvict(fromB2) \in {T1, T2}
          /\ list[ResidentListToEvict(fromB2)] # <<>>
          /\ Back(ResidentListToEvict(fromB2)) = {Last(list[ResidentListToEvict(fromB2)])}
      BY <3>1, ResidentToEvict
    <3>. QED
      BY <1>3, <3>2, <3>3
  <2>3. Erased[source] # <<>>
    BY <2>1, <2>2
  <2>4. PICK index : Agree(EvictPage(Erased, source), index)
    BY <1>1, <2>2, <2>3, Evict
  <2>5. /\ Recent(EvictPage(Erased, source)) = Recent(Erased)
        /\ Frequent(EvictPage(Erased, source)) = Frequent(Erased)
    BY <1>1, <2>2, <2>3, OrderEvict
  <2>6. Last(list[source]) \in Key /\ pageIndex_[Last(list[source])] = source
    BY <2>2, Evict DEF Inv
  <2>. QED
    BY <2>1, <2>2, <2>4, <2>5, <2>6, Names DEF Known, GhostListOf
<1>. QED
  BY <1>2, <1>3

\* A new page.
LEMMA NewOrder ==
  ASSUME Inv, OrderInv, NEW key \in Key, Use(key), InsertNew(key)
  PROVE  OrderInv'
<1>1. /\ Agree(list, pageIndex_)
      /\ pageIndex_ \in [Key -> ListName \cup {NoList}]
      /\ pageIndex_[key] = NoList
  BY DEF Inv, Agree, InsertNew
<1>2. PICK forgotten : forgotten = Back(ListToErase)
  OBVIOUS
<1>3. PICK source : source = IF NeedsReplacement THEN ResidentListToEvict(FALSE) ELSE NoList
  OBVIOUS
<1>4. PICK l1 : l1 = EvictPage(Erased, source)
  OBVIOUS
<1>5. /\ list' = With(l1, T1, key)
      /\ pageIndex_' = Filed(Filed(Filed(pageIndex_, {key}, T1), forgotten, NoList),
                             Back(source), GhostListOf(source))
  BY <1>2, <1>3, <1>4 DEF InsertNew, Erased, With, WithoutBack
<1>6. /\ forgotten \in SUBSET Key /\ forgotten \subseteq Known /\ key \notin Known
      /\ Recent(Erased) = Among(Recent(list), Key \ forgotten)
      /\ Frequent(Erased) = Among(Frequent(list), Key \ forgotten)
  BY <1>1, <1>2, ErasedOrder DEF Known
<1>7. PICK index : Agree(l1, index)
  BY <1>3, <1>4, ReplacedOrder
<1>8. Recent(l1) = Recent(Erased) /\ Frequent(l1) = Frequent(Erased)
  BY <1>3, <1>4, ReplacedOrder
<1>9. /\ Recent(list') = Cons(key, Among(Recent(list), Key \ forgotten))
      /\ Frequent(list') = Among(Frequent(list), Key \ forgotten)
  BY <1>5, <1>6, <1>7, <1>8, OrderPutFront
<1>10. Known' = (Known \cup {key}) \ forgotten
  <2>1. /\ Back(source) \subseteq Known /\ Back(source) \cap forgotten = {}
        /\ Back(source) # {} => GhostListOf(source) # NoList
    BY <1>2, <1>3, ReplacedOrder, Names
  <2>2. T1 # NoList
    BY Names
  <2>. QED
    BY <1>1, <1>5, <1>6, <2>1, <2>2 DEF Filed, Known
<1>. QED
  BY <1>1, <1>6, <1>9, <1>10, NewKeyUsed

\* Nothing is used.
LEMMA UnusedOrder ==
  ASSUME Inv, OrderInv,
         \/ \E key \in Key : NoUse(key)
         \/ UNCHANGED historyVars
  PROVE  OrderInv'
<1>1. UNCHANGED <<list, pageIndex_, recency, reused>>
  <2>1. ASSUME NEW key \in Key, NoUse(key) PROVE UNCHANGED <<list, pageIndex_, recency, reused>>
    BY <2>1, FailedInsert DEF NoUse, GhostMiss, Miss, store
  <2>2. ASSUME UNCHANGED historyVars PROVE UNCHANGED <<list, pageIndex_, recency, reused>>
    BY <2>2 DEF historyVars
  <2>. QED
    BY <2>1, <2>2
<1>. QED
  BY <1>1 DEF OrderInv, Known, Recent, Frequent

\* Within both lists, and so at every eviction and every record forgotten, the
\* keys are in the order of their last use (splice, push_front and pop_back of
\* recordHit, promoteGhostPage, evictForNewPage and evictPage).
THEOREM EvictionsInOrder == HistorySpec => []OrderedByUse
<1>1. HistoryInit => Inv /\ OrderInv
  <2>1. SUFFICES ASSUME HistoryInit PROVE Inv /\ OrderInv
    OBVIOUS
  <2>2. Inv
    BY <2>1, InitInv DEF HistoryInit
  <2>3. /\ list = [name \in ListName |-> <<>>] /\ Known = {}
        /\ recency = <<>> /\ reused = {}
    BY <2>1 DEF HistoryInit, Init, Known
  <2>4. <<>> \in Seq(Key) /\ <<>> \o <<>> = <<>> /\ ToSet(<<>>) = {} /\ IsInjective(<<>>)
    BY ConcatEmptySeq DEF ToSet, IsInjective
  <2>5. Recent(list) = <<>> /\ Frequent(list) = <<>>
    BY <2>3, <2>4, Names DEF Recent, Frequent
  <2>6. \A U : Among(<<>>, U) = <<>>
    BY AmongEmpty
  <2>. QED
    BY <2>2, <2>3, <2>4, <2>5, <2>6 DEF OrderInv, Ordered
<1>2. Inv /\ OrderInv /\ [HistoryNext]_historyVars => Inv' /\ OrderInv'
  <2>1. SUFFICES ASSUME Inv, OrderInv, [HistoryNext]_historyVars PROVE Inv' /\ OrderInv'
    OBVIOUS
  <2>2. [Next]_vars
    BY <2>1 DEF HistoryNext, Use, NoUse, Next, historyVars, vars
  <2>3. Inv'
    BY <2>1, <2>2, NextInv
  <2>4. ASSUME NEW key \in Key, Use(key) PROVE OrderInv'
    BY <2>1, <2>4, HitOrder, GhostOrder, NewOrder DEF Use
  <2>. QED
    BY <2>1, <2>3, <2>4, UnusedOrder DEF HistoryNext
<1>3. OrderInv => OrderedByUse
  BY DEF OrderInv, Ordered, OrderedByUse, Recent, Frequent
<1>. QED
  BY <1>1, <1>2, <1>3, PTL DEF HistorySpec
=============================================================================
