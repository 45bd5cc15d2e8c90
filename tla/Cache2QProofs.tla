---------------------------- MODULE Cache2QProofs ----------------------------
(***************************************************************************)
(* Theorems about Cache2Q, for every set of keys, every capacity of two or *)
(* more and every depth of nested calls.                                   *)
(***************************************************************************)
EXTENDS Cache2Q, ListProofs

\* Starting a call keeps the stack within its bound.
LEMMA EnterKeepsCalls ==
  ASSUME NEW key \in Key, CallsTypeOK, Enter(key)
  PROVE  CallsTypeOK'
BY MaxDepthAssumption DEF CallsTypeOK, Enter

\* A call that ends takes its key, and nothing else, off the stack.
LEMMA LeaveKeepsCalls ==
  ASSUME NEW key, CallsTypeOK, Leave(key)
  PROVE  /\ CallsTypeOK'
         /\ Len(calls') = Len(calls) - 1
         /\ key \in Key
         /\ key = Last(calls)
BY FrontFacts, MaxDepthAssumption DEF CallsTypeOK, Leave

\* The four things an index entry may say are different.
LEMMA EntryNames ==
  /\ A1In # Am /\ A1In # A1Out /\ A1In # NoEntry
  /\ Am # A1Out /\ Am # NoEntry /\ A1Out # NoEntry
BY DEF A1In, Am, A1Out, NoEntry

\* Both limits are at least one.
LEMMA LimitFacts ==
  /\ Capacity \in Nat /\ Capacity >= 2
  /\ a1inTargetSize_ \in Nat /\ a1inTargetSize_ >= 1
  /\ ghostLimit_ \in Nat /\ ghostLimit_ >= 1
<1>1. Capacity \in Nat /\ Capacity >= 2
  BY CapacityAssumption, TwoSlotsAssumption
<1>2. ASSUME NEW n \in Nat
      PROVE  Max({1, n}) \in Nat /\ Max({1, n}) >= 1
  <2>1. \E x \in {1, n} : \A y \in {1, n} : x >= y
    OBVIOUS
  <2>2. Max({1, n}) \in {1, n} /\ \A y \in {1, n} : Max({1, n}) >= y
    BY <2>1 DEF Max
  <2>. QED
    BY <2>2
<1>3. Capacity \div 4 \in Nat /\ Capacity \div 2 \in Nat
  BY <1>1
<1>. QED
  BY <1>1, <1>2, <1>3 DEF a1inTargetSize_, ghostLimit_

\* The keys whose entries name a queue.
Under(index, queue) == {key \in Key : index[key] = queue}

\* A list of some of the keys.
LEMMA ListOfKeys ==
  ASSUME NEW list, NEW keys \in SUBSET Key, Holds(list, keys)
  PROVE  list \in Seq(Key) /\ IsInjective(list) /\ ToSet(list) = keys
BY HoldsKeys DEF Holds

\* The keys under a name are keys.
LEMMA UnderKeys ==
  ASSUME NEW index, NEW queue
  PROVE  Under(index, queue) \in SUBSET Key
BY DEF Under

-----------------------------------------------------------------------------
(***************************************************************************)
(* The queues and the index.                                               *)
(***************************************************************************)

Agree(in, main, out, index) ==
  /\ index \in [Key -> {A1In, Am, A1Out, NoEntry}]
  /\ Holds(in, Under(index, A1In))
  /\ Holds(main, Under(index, Am))
  /\ Holds(out, Under(index, A1Out))

Bounded(in, main, out) ==
  /\ Len(in) + Len(main) <= Capacity
  /\ Len(out) <= ghostLimit_
  /\ out # <<>> => Len(in) + Len(main) >= Capacity

Inv ==
  /\ Agree(a1in_, am_, a1out_, pageIndex_)
  /\ Bounded(a1in_, am_, a1out_)
  /\ CallsTypeOK

\* The invariant is IndexConsistent, said by the lists of the lemmas.
LEMMA InvMeaning == Inv <=> IndexConsistent
<1>1. ASSUME NEW list, NEW queue
      PROVE  Holds(list, Under(pageIndex_, queue)) <=>
               /\ list \in Seq(Key)
               /\ IsInjective(list)
               /\ ToSet(list) = Under(pageIndex_, queue)
  BY ListOfKeys, UnderKeys, SeqOfElements DEF Holds
<1>2. Agree(a1in_, am_, a1out_, pageIndex_) <=>
        /\ pageIndex_ \in [Key -> {A1In, Am, A1Out, NoEntry}]
        /\ a1in_ \in Seq(Key) /\ IsInjective(a1in_) /\ ToSet(a1in_) = Under(pageIndex_, A1In)
        /\ am_ \in Seq(Key) /\ IsInjective(am_) /\ ToSet(am_) = Under(pageIndex_, Am)
        /\ a1out_ \in Seq(Key) /\ IsInjective(a1out_) /\ ToSet(a1out_) = Under(pageIndex_, A1Out)
  BY <1>1 DEF Agree
<1>. QED
  BY <1>2 DEF Inv, Bounded, IndexConsistent, TypeOK, Under, Full

\* Filing keys under another name, by the sets of keys under each name.
LEMMA FiledUnder ==
  ASSUME NEW index \in [Key -> {A1In, Am, A1Out, NoEntry}], NEW keys \in SUBSET Key,
         NEW queue \in {A1In, Am, A1Out, NoEntry}
  PROVE  /\ Filed(index, keys, queue) \in [Key -> {A1In, Am, A1Out, NoEntry}]
         /\ Under(Filed(index, keys, queue), queue) = Under(index, queue) \cup keys
         /\ \A other \in {A1In, Am, A1Out, NoEntry} \ {queue} :
              Under(Filed(index, keys, queue), other) = Under(index, other) \ keys
<1>1. PICK filed : filed = Filed(index, keys, queue)
  OBVIOUS
<1>2. /\ filed \in [Key -> {A1In, Am, A1Out, NoEntry}]
      /\ \A key \in Key : filed[key] = IF key \in keys THEN queue ELSE index[key]
  BY <1>1 DEF Filed
<1>3. Under(filed, queue) = Under(index, queue) \cup keys
  BY <1>2 DEF Under
<1>4. \A other \in {A1In, Am, A1Out, NoEntry} \ {queue} :
        Under(filed, other) = Under(index, other) \ keys
  BY <1>2 DEF Under
<1>. QED
  BY <1>1, <1>2, <1>3, <1>4

\* A new page goes to the front of a1in_.
LEMMA NewPageFiled ==
  ASSUME NEW in, NEW main, NEW out, NEW index, Agree(in, main, out, index),
         NEW key \in Key, index[key] = NoEntry
  PROVE  /\ Agree(Cons(key, in), main, out, Filed(index, {key}, A1In))
         /\ Len(Cons(key, in)) = Len(in) + 1
<1>1. PICK filed : filed = Filed(index, {key}, A1In)
  OBVIOUS
<1>2. /\ filed \in [Key -> {A1In, Am, A1Out, NoEntry}]
      /\ Under(filed, A1In) = Under(index, A1In) \cup {key}
      /\ Under(filed, Am) = Under(index, Am) \ {key}
      /\ Under(filed, A1Out) = Under(index, A1Out) \ {key}
  BY <1>1, FiledUnder, EntryNames DEF Agree
<1>3. key \notin Under(index, A1In) \cup Under(index, Am) \cup Under(index, A1Out)
  BY EntryNames DEF Under
<1>4. Under(filed, Am) = Under(index, Am) /\ Under(filed, A1Out) = Under(index, A1Out)
  BY <1>2, <1>3
<1>5. Holds(Cons(key, in), Under(filed, A1In)) /\ Len(Cons(key, in)) = Len(in) + 1
  BY <1>2, <1>3, HoldsCons DEF Agree
<1>. QED
  BY <1>1, <1>2, <1>4, <1>5 DEF Agree

\* A ghost whose page is loaded again goes from a1out_ to the front of am_.
LEMMA GhostFiled ==
  ASSUME NEW in, NEW main, NEW out, NEW index, Agree(in, main, out, index),
         NEW key \in Key, index[key] = A1Out
  PROVE  /\ Agree(in, Cons(key, main), RemoveFirst(out, key), Filed(index, {key}, Am))
         /\ Len(Cons(key, main)) = Len(main) + 1
         /\ Len(RemoveFirst(out, key)) = Len(out) - 1
<1>1. PICK filed : filed = Filed(index, {key}, Am)
  OBVIOUS
<1>2. /\ filed \in [Key -> {A1In, Am, A1Out, NoEntry}]
      /\ Under(filed, Am) = Under(index, Am) \cup {key}
      /\ Under(filed, A1In) = Under(index, A1In) \ {key}
      /\ Under(filed, A1Out) = Under(index, A1Out) \ {key}
  BY <1>1, FiledUnder, EntryNames DEF Agree
<1>3. key \notin Under(index, A1In) \cup Under(index, Am) /\ key \in Under(index, A1Out)
  BY EntryNames DEF Under
<1>4. Under(filed, A1In) = Under(index, A1In)
  BY <1>2, <1>3
<1>5. Holds(Cons(key, main), Under(filed, Am)) /\ Len(Cons(key, main)) = Len(main) + 1
  BY <1>2, <1>3, HoldsCons DEF Agree
<1>6. /\ Holds(RemoveFirst(out, key), Under(filed, A1Out))
      /\ Len(RemoveFirst(out, key)) = Len(out) - 1
  BY <1>2, <1>3, HoldsRemove DEF Agree
<1>. QED
  BY <1>1, <1>2, <1>4, <1>5, <1>6 DEF Agree

-----------------------------------------------------------------------------
(***************************************************************************)
(* Evictions.                                                              *)
(***************************************************************************)

\* The lengths of the queues are numbers, zero for the empty queue only.
LEMMA LengthFacts ==
  ASSUME Inv
  PROVE  /\ Len(a1in_) \in Nat /\ Len(am_) \in Nat /\ Len(a1out_) \in Nat
         /\ a1in_ # <<>> <=> Len(a1in_) > 0
         /\ am_ # <<>> <=> Len(am_) > 0
         /\ a1out_ # <<>> <=> Len(a1out_) > 0
BY HoldsFacts DEF Inv, Agree

\* Where there is room nothing is evicted.
LEMMA NothingEvicted ==
  ASSUME Inv, ~ Full, NEW promotingGhost \in BOOLEAN
  PROVE  /\ FromA1in = {} /\ FromAm = {} /\ GhostToForget(promotingGhost) = {}
         /\ A1inKept = a1in_ /\ AmKept = am_ /\ GhostsAfter(promotingGhost) = a1out_
         /\ IndexAfter(promotingGhost) = pageIndex_
<1>1. FromA1in = {} /\ FromAm = {} /\ GhostToForget(promotingGhost) = {}
  BY DEF FromA1in, FromAm, GhostToForget
<1>2. pageIndex_ \in [Key -> {A1In, Am, A1Out, NoEntry}]
  BY DEF Inv, Agree
<1>3. \A queue : Filed(pageIndex_, {}, queue) = pageIndex_
  BY <1>2 DEF Filed
<1>. QED
  BY <1>1, <1>3 DEF A1inKept, AmKept, GhostsAfter, IndexAfter

\* The ghost that is forgotten for another: the oldest, if there is one too many.
LEMMA ForgottenGhost ==
  ASSUME Inv, Full, EvictFromA1in, NEW promotingGhost \in BOOLEAN
  PROVE  LET forgotten == GhostToForget(promotingGhost)
             kept == IF forgotten = {} THEN a1out_ ELSE Front(a1out_)
         IN /\ forgotten \subseteq Under(pageIndex_, A1Out)
            /\ promotingGhost => forgotten = {}
            /\ Holds(kept, Under(pageIndex_, A1Out) \ forgotten)
            /\ Len(kept) <= ghostLimit_
            /\ ~ promotingGhost => Len(kept) <= ghostLimit_ - 1
<1>1. FromA1in # {}
  BY DEF FromA1in
<1>2. Len(a1out_) <= ghostLimit_ /\ Holds(a1out_, Under(pageIndex_, A1Out))
  BY DEF Inv, Bounded, Agree
<1>3. CASE ~ promotingGhost /\ Len(a1out_) >= ghostLimit_
  <2>1. GhostToForget(promotingGhost) = {Last(a1out_)}
    BY <1>1, <1>3 DEF GhostToForget
  <2>2. a1out_ # <<>>
    BY <1>3, LimitFacts, LengthFacts
  <2>3. /\ Holds(Front(a1out_), Under(pageIndex_, A1Out) \ {Last(a1out_)})
        /\ Last(a1out_) \in Under(pageIndex_, A1Out)
        /\ Len(Front(a1out_)) = Len(a1out_) - 1
    BY <1>2, <2>2, HoldsFront
  <2>. QED
    BY <1>2, <1>3, <2>1, <2>3, LimitFacts, LengthFacts
<1>4. CASE ~ (~ promotingGhost /\ Len(a1out_) >= ghostLimit_)
  <2>1. GhostToForget(promotingGhost) = {}
    BY <1>4 DEF GhostToForget
  <2>2. Under(pageIndex_, A1Out) \ {} = Under(pageIndex_, A1Out)
    OBVIOUS
  <2>. QED
    BY <1>2, <1>4, <2>1, <2>2, LimitFacts, LengthFacts
<1>. QED
  BY <1>3, <1>4

\* What an eviction has done when it is committed.
Evicted(promotingGhost) ==
  /\ Agree(A1inKept, AmKept, GhostsAfter(promotingGhost), IndexAfter(promotingGhost))
  /\ Len(A1inKept) + Len(AmKept) = Len(a1in_) + Len(am_) - 1
  /\ Len(GhostsAfter(promotingGhost)) <= ghostLimit_ + 1
  /\ ~ promotingGhost => Len(GhostsAfter(promotingGhost)) <= ghostLimit_
  /\ \A key \in Key : pageIndex_[key] = NoEntry => IndexAfter(promotingGhost)[key] = NoEntry
  /\ promotingGhost =>
       \A key \in Key : pageIndex_[key] = A1Out => IndexAfter(promotingGhost)[key] = A1Out
  /\ \E victim \in Under(pageIndex_, A1In) \cup Under(pageIndex_, Am) :
       Under(IndexAfter(promotingGhost), A1In) \cup Under(IndexAfter(promotingGhost), Am) =
         (Under(pageIndex_, A1In) \cup Under(pageIndex_, Am)) \ {victim}

\* The oldest page of a1in_ becomes a ghost.
LEMMA EvictedFromA1in ==
  ASSUME Inv, Full, EvictFromA1in, NEW promotingGhost \in BOOLEAN
  PROVE  Evicted(promotingGhost)
<1>1. PICK v : v = Last(a1in_)
  OBVIOUS
<1>2. PICK forgotten : forgotten = GhostToForget(promotingGhost)
  OBVIOUS
<1>3. PICK kept : kept = IF forgotten = {} THEN a1out_ ELSE Front(a1out_)
  OBVIOUS
<1>4. FromA1in = {v} /\ FromAm = {}
  BY <1>1 DEF FromA1in, FromAm
<1>5. a1in_ # <<>>
  BY LengthFacts, LimitFacts DEF Full, EvictFromA1in
<1>6. /\ pageIndex_ \in [Key -> {A1In, Am, A1Out, NoEntry}]
      /\ Holds(a1in_, Under(pageIndex_, A1In))
      /\ Holds(am_, Under(pageIndex_, Am))
  BY DEF Inv, Agree
<1>7. /\ Holds(Front(a1in_), Under(pageIndex_, A1In) \ {v})
      /\ v \in Under(pageIndex_, A1In) /\ v \in Key
      /\ Len(Front(a1in_)) = Len(a1in_) - 1
  BY <1>1, <1>5, <1>6, HoldsFront, UnderKeys
<1>8. /\ forgotten \subseteq Under(pageIndex_, A1Out)
      /\ promotingGhost => forgotten = {}
      /\ Holds(kept, Under(pageIndex_, A1Out) \ forgotten)
      /\ Len(kept) <= ghostLimit_
      /\ ~ promotingGhost => Len(kept) <= ghostLimit_ - 1
  BY <1>2, <1>3, ForgottenGhost
<1>9. v \notin Under(pageIndex_, A1Out) /\ v \notin Under(pageIndex_, Am)
  BY <1>7, EntryNames DEF Under
<1>10. /\ A1inKept = Front(a1in_) /\ AmKept = am_
       /\ GhostsAfter(promotingGhost) = Cons(v, kept)
  BY <1>1, <1>2, <1>3, <1>4 DEF A1inKept, AmKept, GhostsAfter
<1>11. /\ Holds(Cons(v, kept), (Under(pageIndex_, A1Out) \ forgotten) \cup {v})
       /\ Len(Cons(v, kept)) = Len(kept) + 1
  BY <1>7, <1>8, <1>9, HoldsCons
<1>12. PICK between : between = Filed(pageIndex_, forgotten, NoEntry)
  OBVIOUS
<1>13. PICK after : after = Filed(between, {v}, A1Out)
  OBVIOUS
<1>14. IndexAfter(promotingGhost) = after
  <2>1. forgotten \cup {} = forgotten
    OBVIOUS
  <2>. QED
    BY <1>2, <1>4, <1>12, <1>13, <2>1 DEF IndexAfter
<1>15. forgotten \in SUBSET Key
  BY <1>8 DEF Under
<1>16. /\ between \in [Key -> {A1In, Am, A1Out, NoEntry}]
       /\ Under(between, A1In) = Under(pageIndex_, A1In) \ forgotten
       /\ Under(between, Am) = Under(pageIndex_, Am) \ forgotten
       /\ Under(between, A1Out) = Under(pageIndex_, A1Out) \ forgotten
  BY <1>6, <1>12, <1>15, FiledUnder, EntryNames
<1>17. /\ after \in [Key -> {A1In, Am, A1Out, NoEntry}]
       /\ Under(after, A1In) = Under(between, A1In) \ {v}
       /\ Under(after, Am) = Under(between, Am) \ {v}
       /\ Under(after, A1Out) = Under(between, A1Out) \cup {v}
  BY <1>7, <1>13, <1>16, FiledUnder, EntryNames
<1>18. forgotten \cap Under(pageIndex_, A1In) = {} /\ forgotten \cap Under(pageIndex_, Am) = {}
  BY <1>8, EntryNames DEF Under
<1>19. /\ Under(after, A1In) = Under(pageIndex_, A1In) \ {v}
       /\ Under(after, Am) = Under(pageIndex_, Am)
       /\ Under(after, A1Out) = (Under(pageIndex_, A1Out) \ forgotten) \cup {v}
  BY <1>9, <1>16, <1>17, <1>18
<1>20. Agree(Front(a1in_), am_, Cons(v, kept), after)
  BY <1>6, <1>7, <1>11, <1>17, <1>19 DEF Agree
<1>21. /\ Len(Front(a1in_)) + Len(am_) = Len(a1in_) + Len(am_) - 1
       /\ Len(kept) \in Nat
  BY <1>7, <1>8, LengthFacts, HoldsFacts
<1>22. /\ Len(Cons(v, kept)) <= ghostLimit_ + 1
       /\ ~ promotingGhost => Len(Cons(v, kept)) <= ghostLimit_
  BY <1>8, <1>11, <1>21, LimitFacts
<1>23. \A key \in Key : /\ between[key] = IF key \in forgotten THEN NoEntry ELSE pageIndex_[key]
                        /\ after[key] = IF key = v THEN A1Out ELSE between[key]
  BY <1>12, <1>13 DEF Filed
<1>24. \A key \in Key : pageIndex_[key] = NoEntry => after[key] = NoEntry
  BY <1>7, <1>23, EntryNames DEF Under
<1>25. promotingGhost => \A key \in Key : pageIndex_[key] = A1Out => after[key] = A1Out
  BY <1>8, <1>23
<1>26. Under(after, A1In) \cup Under(after, Am) =
         (Under(pageIndex_, A1In) \cup Under(pageIndex_, Am)) \ {v}
  BY <1>9, <1>19
<1>. QED
  BY <1>7, <1>10, <1>14, <1>20, <1>21, <1>22, <1>24, <1>25, <1>26 DEF Evicted

\* The oldest page of am_ is forgotten.
LEMMA EvictedFromAm ==
  ASSUME Inv, Full, ~ EvictFromA1in, NEW promotingGhost \in BOOLEAN
  PROVE  Evicted(promotingGhost)
<1>1. PICK v : v = Last(am_)
  OBVIOUS
<1>2. FromA1in = {} /\ FromAm = {v} /\ GhostToForget(promotingGhost) = {}
  BY <1>1 DEF FromA1in, FromAm, GhostToForget
<1>3. am_ # <<>>
  BY DEF EvictFromA1in
<1>4. /\ pageIndex_ \in [Key -> {A1In, Am, A1Out, NoEntry}]
      /\ Holds(a1in_, Under(pageIndex_, A1In))
      /\ Holds(am_, Under(pageIndex_, Am))
      /\ Holds(a1out_, Under(pageIndex_, A1Out))
      /\ Len(a1out_) <= ghostLimit_
  BY DEF Inv, Agree, Bounded
<1>5. /\ Holds(Front(am_), Under(pageIndex_, Am) \ {v})
      /\ v \in Under(pageIndex_, Am) /\ v \in Key
      /\ Len(Front(am_)) = Len(am_) - 1
  BY <1>1, <1>3, <1>4, HoldsFront, UnderKeys
<1>6. /\ A1inKept = a1in_ /\ AmKept = Front(am_)
      /\ GhostsAfter(promotingGhost) = a1out_
  BY <1>2 DEF A1inKept, AmKept, GhostsAfter
<1>7. PICK after : after = Filed(pageIndex_, {v}, NoEntry)
  OBVIOUS
<1>8. /\ after \in [Key -> {A1In, Am, A1Out, NoEntry}]
      /\ Under(after, A1In) = Under(pageIndex_, A1In) \ {v}
      /\ Under(after, Am) = Under(pageIndex_, Am) \ {v}
      /\ Under(after, A1Out) = Under(pageIndex_, A1Out) \ {v}
  BY <1>4, <1>5, <1>7, FiledUnder, EntryNames
<1>9. v \notin Under(pageIndex_, A1In) /\ v \notin Under(pageIndex_, A1Out)
  BY <1>5, EntryNames DEF Under
<1>10. IndexAfter(promotingGhost) = after
  <2>1. {} \cup {v} = {v}
    OBVIOUS
  <2>2. Filed(after, {}, A1Out) = after
    BY <1>8 DEF Filed
  <2>. QED
    BY <1>2, <1>7, <2>1, <2>2 DEF IndexAfter
<1>11. /\ Under(after, A1In) = Under(pageIndex_, A1In)
       /\ Under(after, A1Out) = Under(pageIndex_, A1Out)
  BY <1>8, <1>9
<1>12. Agree(a1in_, Front(am_), a1out_, after)
  BY <1>4, <1>5, <1>8, <1>11 DEF Agree
<1>13. Len(a1in_) + Len(Front(am_)) = Len(a1in_) + Len(am_) - 1
  BY <1>5, LengthFacts
<1>14. \A key \in Key : after[key] = IF key = v THEN NoEntry ELSE pageIndex_[key]
  BY <1>7 DEF Filed
<1>15. \A key \in Key : /\ pageIndex_[key] = NoEntry => after[key] = NoEntry
                        /\ pageIndex_[key] = A1Out => after[key] = A1Out
  BY <1>5, <1>14, EntryNames DEF Under
<1>16. Under(after, A1In) \cup Under(after, Am) =
         (Under(pageIndex_, A1In) \cup Under(pageIndex_, Am)) \ {v}
  BY <1>8, <1>9, <1>11
<1>. QED
  BY <1>4, <1>5, <1>6, <1>10, <1>12, <1>13, <1>15, <1>16, LimitFacts, LengthFacts DEF Evicted

\* Where there is no room, one page is evicted.
LEMMA EvictedWhenFull ==
  ASSUME Inv, Full, NEW promotingGhost \in BOOLEAN
  PROVE  Evicted(promotingGhost)
BY EvictedFromA1in, EvictedFromAm

-----------------------------------------------------------------------------
(***************************************************************************)
(* The steps.                                                              *)
(***************************************************************************)

\* The resident keys are those filed under one of the two page queues.
LEMMA ResidentMeaning ==
  Resident = Under(pageIndex_, A1In) \cup Under(pageIndex_, Am)
BY DEF Resident, Under

\* A page is stored: in place of another exactly if the cache is full.
Stored(key) ==
  /\ key \notin Resident
  /\ Full => \E victim \in Resident : Resident' = (Resident \ {victim}) \cup {key}
  /\ ~ Full => Resident' = Resident \cup {key}

\* insertNewPage.
LEMMA NewPageStep ==
  ASSUME Inv, NEW key \in Key, InsertNewPage(key)
  PROVE  Inv' /\ Stored(key)
<1>1. PICK in0, main0, out0, index0 :
        /\ in0 = A1inKept /\ main0 = AmKept
        /\ out0 = GhostsAfter(FALSE) /\ index0 = IndexAfter(FALSE)
  OBVIOUS
<1>2. /\ a1in_' = Cons(key, in0) /\ am_' = main0 /\ a1out_' = out0
      /\ pageIndex_' = Filed(index0, {key}, A1In)
      /\ pageIndex_[key] = NoEntry
  BY <1>1 DEF InsertNewPage
<1>3. CallsTypeOK'
  BY LeaveKeepsCalls DEF InsertNewPage, Inv
<1>4. key \notin Resident
  BY <1>2, EntryNames DEF Resident
<1>5. /\ Agree(in0, main0, out0, index0)
      /\ index0[key] = NoEntry
      /\ Len(out0) <= ghostLimit_
      /\ Full => /\ Len(in0) + Len(main0) = Len(a1in_) + Len(am_) - 1
                 /\ \E victim \in Resident :
                      Under(index0, A1In) \cup Under(index0, Am) = Resident \ {victim}
      /\ ~ Full => /\ in0 = a1in_ /\ main0 = am_ /\ out0 = a1out_
                   /\ Under(index0, A1In) \cup Under(index0, Am) = Resident
  <2>1. CASE Full
    <3>1. Evicted(FALSE)
      BY <2>1, EvictedWhenFull
    <3>. QED
      BY <1>1, <1>2, <2>1, <3>1, ResidentMeaning DEF Evicted
  <2>2. CASE ~ Full
    <3>1. in0 = a1in_ /\ main0 = am_ /\ out0 = a1out_ /\ index0 = pageIndex_
      BY <1>1, <2>2, NothingEvicted
    <3>. QED
      BY <1>2, <2>2, <3>1, ResidentMeaning DEF Inv, Bounded
  <2>. QED
    BY <2>1, <2>2
<1>6. /\ Agree(a1in_', am_', a1out_', pageIndex_')
      /\ Len(a1in_') = Len(in0) + 1
  BY <1>2, <1>5, NewPageFiled
<1>7. /\ Len(in0) \in Nat /\ Len(main0) \in Nat /\ Len(out0) \in Nat
  BY <1>5, HoldsFacts DEF Agree
<1>8. Bounded(a1in_', am_', a1out_')
  <2>1. CASE Full
    BY <1>2, <1>5, <1>6, <1>7, <2>1, LengthFacts, LimitFacts DEF Bounded, Full, Inv
  <2>2. CASE ~ Full
    <3>1. out0 = <<>>
      BY <1>5, <2>2 DEF Inv, Bounded, Full
    <3>. QED
      BY <1>2, <1>5, <1>6, <1>7, <2>2, <3>1, LengthFacts, LimitFacts DEF Bounded, Full, Inv
  <2>. QED
    BY <2>1, <2>2
<1>9. Resident' = Under(index0, A1In) \cup Under(index0, Am) \cup {key}
  <2>1. PICK filed : filed = Filed(index0, {key}, A1In)
    OBVIOUS
  <2>2. /\ Under(filed, A1In) = Under(index0, A1In) \cup {key}
        /\ Under(filed, Am) = Under(index0, Am) \ {key}
    BY <1>5, <2>1, FiledUnder, EntryNames DEF Agree
  <2>3. Resident' = Under(filed, A1In) \cup Under(filed, Am)
    BY <1>2, <2>1 DEF Resident, Under
  <2>. QED
    BY <2>2, <2>3
<1>. QED
  BY <1>3, <1>4, <1>5, <1>6, <1>8, <1>9 DEF Inv, Stored

\* promoteGhostPage: the cache is full, since it has a ghost.
LEMMA GhostStep ==
  ASSUME Inv, NEW key \in Key, PromoteGhostPage(key)
  PROVE  Inv' /\ Full /\ Stored(key)
<1>1. PICK in0, main0, out0, index0 :
        /\ in0 = A1inKept /\ main0 = AmKept
        /\ out0 = GhostsAfter(TRUE) /\ index0 = IndexAfter(TRUE)
  OBVIOUS
<1>2. /\ a1in_' = in0 /\ am_' = Cons(key, main0) /\ a1out_' = RemoveFirst(out0, key)
      /\ pageIndex_' = Filed(index0, {key}, Am)
      /\ pageIndex_[key] = A1Out
  BY <1>1 DEF PromoteGhostPage
<1>3. CallsTypeOK'
  BY LeaveKeepsCalls DEF PromoteGhostPage, Inv
<1>4. key \notin Resident
  BY <1>2, EntryNames DEF Resident
<1>5. Full
  <2>1. key \in Under(pageIndex_, A1Out) /\ Holds(a1out_, Under(pageIndex_, A1Out))
    BY <1>2 DEF Under, Inv, Agree
  <2>2. a1out_ # <<>>
    BY <2>1, HoldsFacts
  <2>. QED
    BY <2>2 DEF Inv, Bounded, Full
<1>6. Evicted(TRUE)
  BY <1>5, EvictedWhenFull
<1>7. /\ Agree(in0, main0, out0, index0)
      /\ index0[key] = A1Out
      /\ Len(out0) <= ghostLimit_ + 1
      /\ Len(in0) + Len(main0) = Len(a1in_) + Len(am_) - 1
      /\ \E victim \in Resident :
           Under(index0, A1In) \cup Under(index0, Am) = Resident \ {victim}
  BY <1>1, <1>2, <1>6, ResidentMeaning DEF Evicted
<1>8. /\ Agree(a1in_', am_', a1out_', pageIndex_')
      /\ Len(am_') = Len(main0) + 1
      /\ Len(a1out_') = Len(out0) - 1
  BY <1>2, <1>7, GhostFiled
<1>9. /\ Len(in0) \in Nat /\ Len(main0) \in Nat /\ Len(out0) \in Nat
  BY <1>7, HoldsFacts DEF Agree
<1>10. Bounded(a1in_', am_', a1out_')
  BY <1>2, <1>5, <1>7, <1>8, <1>9, LengthFacts, LimitFacts DEF Bounded, Full, Inv
<1>11. Resident' = Under(index0, A1In) \cup Under(index0, Am) \cup {key}
  <2>1. PICK filed : filed = Filed(index0, {key}, Am)
    OBVIOUS
  <2>2. /\ Under(filed, Am) = Under(index0, Am) \cup {key}
        /\ Under(filed, A1In) = Under(index0, A1In) \ {key}
    BY <1>7, <2>1, FiledUnder, EntryNames DEF Agree
  <2>3. Resident' = Under(filed, A1In) \cup Under(filed, Am)
    BY <1>2, <2>1 DEF Resident, Under
  <2>. QED
    BY <2>2, <2>3
<1>. QED
  BY <1>3, <1>4, <1>5, <1>7, <1>8, <1>10, <1>11 DEF Inv, Stored

\* A failed call changes nothing: the entry of the staged page is gone again.
LEMMA FailedStep ==
  ASSUME Inv, NEW key \in Key, InsertDuplicate(key) \/ PlanThrows(key) \/ LoadThrows(key)
  PROVE  Leave(key) /\ UNCHANGED store
<1>1. ASSUME pageIndex_[key] = NoEntry, Rollback(key)
      PROVE  pageIndex_' = pageIndex_
  <2>1. PICK staged : staged = Filed(pageIndex_, {key}, A1In)
    OBVIOUS
  <2>2. pageIndex_ \in [Key -> {A1In, Am, A1Out, NoEntry}]
    BY DEF Inv, Agree
  <2>3. pageIndex_' = [k \in Key |-> IF k \in {key} THEN NoEntry ELSE staged[k]]
    BY <1>1, <2>1 DEF Rollback, Filed
  <2>4. \A k \in Key : staged[k] = IF k \in {key} THEN A1In ELSE pageIndex_[k]
    BY <2>1 DEF Filed
  <2>. QED
    BY <1>1, <2>2, <2>3, <2>4
<1>. QED
  BY <1>1 DEF InsertDuplicate, PlanThrows, LoadThrows, store

\* A hit moves its record within am_.
LEMMA HitStep ==
  ASSUME Inv, NEW key \in Key, Hit(key)
  PROVE  Inv'
<1>1. /\ a1in_' = a1in_ /\ a1out_' = a1out_ /\ pageIndex_' = pageIndex_ /\ calls' = calls
      /\ Holds(am_, Under(pageIndex_, Am))
  BY DEF Hit, Inv, Agree
<1>2. Holds(am_', Under(pageIndex_, Am)) /\ Len(am_') = Len(am_)
  <2>1. CASE am_' = am_
    BY <1>1, <2>1
  <2>2. CASE pageIndex_[key] = Am /\ am_' = SpliceToFront(am_, key)
    <3>1. key \in Under(pageIndex_, Am)
      BY <2>2 DEF Under
    <3>. QED
      BY <1>1, <2>2, <3>1, HoldsSplice
  <2>. QED
    BY <2>1, <2>2 DEF Hit
<1>. QED
  BY <1>1, <1>2 DEF Inv, Agree, Bounded, CallsTypeOK

\* The empty cache satisfies the invariant.
LEMMA InitInv == Init => Inv
<1>. SUFFICES ASSUME Init PROVE Inv
  OBVIOUS
<1>1. Holds(<<>>, {})
  BY DEF Holds, IsInjective, ToSet
<1>2. /\ Under(pageIndex_, A1In) = {} /\ Under(pageIndex_, Am) = {}
      /\ Under(pageIndex_, A1Out) = {}
  BY EntryNames DEF Init, Under
<1>3. Agree(a1in_, am_, a1out_, pageIndex_)
  <2>1. pageIndex_ \in [Key -> {A1In, Am, A1Out, NoEntry}]
    BY DEF Init
  <2>2. a1in_ = <<>> /\ am_ = <<>> /\ a1out_ = <<>>
    BY DEF Init
  <2>. QED
    BY <1>1, <1>2, <2>1, <2>2 DEF Agree
<1>4. Bounded(a1in_, am_, a1out_)
  BY LimitFacts DEF Init, Bounded
<1>5. CallsTypeOK
  BY MaxDepthAssumption DEF Init, CallsTypeOK
<1>. QED
  BY <1>3, <1>4, <1>5 DEF Inv

\* No operation of the cache breaks the invariant.
LEMMA NextInv == Inv /\ [Next]_vars => Inv'
<1>. SUFFICES ASSUME Inv, [Next]_vars PROVE Inv'
  OBVIOUS
<1>1. ASSUME NEW key \in Key, Hit(key) PROVE Inv'
  BY <1>1, HitStep
<1>2. ASSUME NEW key \in Key, Miss(key) PROVE Inv'
  BY <1>2, EnterKeepsCalls DEF Miss, store, Inv
<1>3. ASSUME NEW key \in Key, InsertNewPage(key) PROVE Inv'
  BY <1>3, NewPageStep
<1>4. ASSUME NEW key \in Key, PromoteGhostPage(key) PROVE Inv'
  BY <1>4, GhostStep
<1>5. ASSUME NEW key \in Key, InsertDuplicate(key) \/ PlanThrows(key) \/ LoadThrows(key)
      PROVE  Inv'
  <2>1. Leave(key) /\ UNCHANGED store
    BY <1>5, FailedStep
  <2>. QED
    BY <2>1, LeaveKeepsCalls DEF store, Inv
<1>6. ASSUME UNCHANGED vars PROVE Inv'
  BY <1>6 DEF vars, Inv, CallsTypeOK
<1>. QED
  BY <1>1, <1>2, <1>3, <1>4, <1>5, <1>6 DEF Next

\* The lists and the index agree, within their limits, in every state that
\* calls of the cache, nested and failing ones too, can reach.
THEOREM Invariance == Spec => []Inv
BY InitInv, NextInv, PTL DEF Spec

\* Every record and ghost is in the queue that its index entry names, pages and
\* ghosts stay within their limits, and ghosts need a full cache.
THEOREM IndexCorrect == Spec => []IndexConsistent
BY Invariance, InvMeaning, PTL

\* A call that ends without its page leaves the queues and the index alone.
THEOREM FailuresLeaveNoTrace == Spec => FailureAtomicity
<1>. DEFINE Atomic == CallEnds => \/ UNCHANGED store
                                  \/ Last(calls) \in Resident' \ Resident
<1>1. Inv /\ [Next]_vars => [Atomic]_vars
  <2>. SUFFICES ASSUME Inv, Next, CallEnds PROVE Atomic
    OBVIOUS
  <2>1. calls \in Seq(Key) /\ calls' # calls
    BY DEF CallEnds, Inv, CallsTypeOK
  <2>2. ASSUME NEW key \in Key, Miss(key) PROVE FALSE
    <3>1. Len(calls') = Len(calls) + 1 /\ Len(calls) \in Nat
      BY <2>1, <2>2 DEF Miss, Enter
    <3>. QED
      BY <3>1 DEF CallEnds
  <2>3. ASSUME NEW key \in Key, InsertNewPage(key) \/ PromoteGhostPage(key) PROVE Atomic
    <3>1. key = Last(calls)
      BY <2>3 DEF InsertNewPage, PromoteGhostPage, Leave
    <3>2. Stored(key)
      BY <2>3, NewPageStep, GhostStep
    <3>. QED
      BY <3>1, <3>2 DEF Stored
  <2>. QED
    BY <2>1, <2>2, <2>3, FailedStep DEF Next, Hit
<1>. QED
  BY <1>1, Invariance, PTL DEF Spec, FailureAtomicity

-----------------------------------------------------------------------------
(***************************************************************************)
(* The contract of a cache.                                                *)
(***************************************************************************)

\* There are as many resident keys as pages in the two queues.
LEMMA ResidentCount ==
  ASSUME Inv
  PROVE  Cardinality(Resident) = Len(a1in_) + Len(am_)
<1>1. PICK in : in = Under(pageIndex_, A1In)
  OBVIOUS
<1>2. PICK main : main = Under(pageIndex_, Am)
  OBVIOUS
<1>3. /\ IsFiniteSet(in) /\ Cardinality(in) = Len(a1in_)
      /\ IsFiniteSet(main) /\ Cardinality(main) = Len(am_)
  BY <1>1, <1>2, HoldsFacts DEF Inv, Agree
<1>4. in \cap main = {}
  BY <1>1, <1>2, EntryNames DEF Under
<1>5. Cardinality(in \cap main) = 0
  BY <1>4, FS_EmptySet
<1>6. Cardinality(in \cup main) = Cardinality(in) + Cardinality(main) - Cardinality(in \cap main)
  BY <1>3, FS_Union
<1>. QED
  BY <1>1, <1>2, <1>3, <1>5, <1>6, ResidentMeaning, LengthFacts

\* The contract's stack of calls and its count of a set are Cache2Q's own.
LEMMA SameProtocol ==
  /\ \A key : Contract!Leave(key) <=> Leave(key)
  /\ \A key : Contract!Enter(key) <=> Enter(key)
  /\ \A S : Contract!Cardinality(S) = Cardinality(S)
<1>1. \A key : Contract!Leave(key) <=> Leave(key)
  BY DEF Contract!Leave, Contract!Last, Contract!Front, Leave, Last, Front
<1>2. \A key : Contract!Enter(key) <=> Enter(key)
  BY DEF Contract!Enter, Enter
<1>3. \A S : Contract!Cardinality(S) = Cardinality(S)
  BY DEF Contract!Cardinality, Cardinality
<1>. QED
  BY <1>1, <1>2, <1>3

\* Every step of the 2Q cache is one that a client of Cache may see.
LEMMA StepRefines ==
  ASSUME Inv, [Next]_vars
  PROVE  [Contract!Next]_(Contract!vars)
<1>1. ASSUME NEW key \in Key, Hit(key) PROVE UNCHANGED Contract!vars
  BY <1>1 DEF Hit, Resident, Contract!vars
<1>2. ASSUME NEW key \in Key, Miss(key) PROVE Contract!Miss(key)
  <2>1. key \notin Resident
    BY <1>2, EntryNames DEF Miss, Resident
  <2>2. Resident' = Resident /\ Enter(key)
    BY <1>2 DEF Miss, store, Resident
  <2>. QED
    BY <2>1, <2>2, SameProtocol DEF Contract!Miss
<1>3. ASSUME NEW key \in Key, InsertNewPage(key) \/ PromoteGhostPage(key)
      PROVE  Contract!Insert(key)
  <2>1. Contract!Leave(key)
    BY <1>3, SameProtocol DEF InsertNewPage, PromoteGhostPage
  <2>2. Stored(key)
    BY <1>3, NewPageStep, GhostStep
  <2>3. Contract!Cardinality(Resident) < Capacity <=> ~ Full
    BY ResidentCount, SameProtocol, LengthFacts, LimitFacts DEF Full
  <2>. QED
    BY <2>1, <2>2, <2>3 DEF Stored, Contract!Insert
<1>4. ASSUME NEW key \in Key, InsertDuplicate(key) \/ PlanThrows(key) \/ LoadThrows(key)
      PROVE  Contract!Fail(key)
  <2>1. Leave(key) /\ UNCHANGED store
    BY <1>4, FailedStep
  <2>. QED
    BY <2>1, SameProtocol DEF store, Resident, Contract!Fail
<1>5. ASSUME UNCHANGED vars PROVE UNCHANGED Contract!vars
  BY <1>5 DEF vars, Resident, Contract!vars
<1>6. CASE Next
  BY <1>1, <1>2, <1>3, <1>4, <1>6 DEF Next, Contract!Next
<1>. QED
  BY <1>5, <1>6

\* Cache2Q implements the contract of Cache::lookupUpdate: ghosts are never
\* resident, and pages are given up only for want of room, one at a time.
THEOREM Refinement == Spec => ImplementsCache
<1>1. Init => Contract!Init
  <2>1. Init => Resident = {}
    BY EntryNames DEF Init, Resident
  <2>. QED
    BY <2>1 DEF Init, Contract!Init
<1>. QED
  BY <1>1, StepRefines, Invariance, PTL DEF Spec, ImplementsCache, Contract!Spec

-----------------------------------------------------------------------------
(***************************************************************************)
(* The linear model of the tests.                                          *)
(***************************************************************************)

\* The model's list operations and its stack of calls are Cache2Q's own.
LEMMA SameOperations ==
  /\ \A key : Reference!Leave(key) <=> Leave(key)
  /\ \A key : Reference!Enter(key) <=> Enter(key)
  /\ \A list, key : Reference!Contains(list, key) <=> Contains(list, key)
  /\ \A list, key : Reference!Cons(key, list) = Cons(key, list)
  /\ \A list : Reference!Front(list) = Front(list) /\ Reference!Last(list) = Last(list)
  /\ \A list, key : Reference!RemoveFirst(list, key) = RemoveFirst(list, key)
  /\ \A list, key : Reference!SpliceToFront(list, key) = SpliceToFront(list, key)
<1>1. \A key : Reference!Leave(key) <=> Leave(key)
  BY DEF Reference!Leave, Reference!Last, Reference!Front, Leave, Last, Front
<1>2. \A key : Reference!Enter(key) <=> Enter(key)
  BY DEF Reference!Enter, Enter
<1>3. \A list, key : Reference!Contains(list, key) <=> Contains(list, key)
  BY DEF Reference!Contains, Contains
<1>4. \A list, key : Reference!Cons(key, list) = Cons(key, list)
  BY DEF Reference!Cons, Cons
<1>5. \A list : Reference!Front(list) = Front(list) /\ Reference!Last(list) = Last(list)
  BY DEF Reference!Front, Reference!Last, Front, Last
<1>6. \A list, key : Reference!RemoveFirst(list, key) = RemoveFirst(list, key)
  BY DEF Reference!RemoveFirst, Reference!RemoveAt, Reference!SelectInSeq, Reference!Min,
         RemoveFirst, RemoveAt, SelectInSeq, Min
<1>7. \A list, key : Reference!SpliceToFront(list, key) = SpliceToFront(list, key)
  BY <1>4, <1>6 DEF Reference!SpliceToFront, SpliceToFront
<1>. QED
  BY <1>1, <1>2, <1>3, <1>4, <1>5, <1>6, <1>7

\* A list with a record pushed to its front, under a name of its own.
LEMMA LongerList ==
  ASSUME NEW S, NEW s \in Seq(S), NEW e \in S
  PROVE  \E c \in Seq(S) :
           /\ c = Cons(e, s)
           /\ Len(c) = Len(s) + 1 /\ c[1] = e
           /\ \A i \in 2..(Len(s) + 1) : c[i] = s[i - 1]
<1>1. /\ Cons(e, s) \in Seq(S)
      /\ Len(Cons(e, s)) = Len(s) + 1 /\ Cons(e, s)[1] = e
      /\ \A i \in 2..(Len(s) + 1) : Cons(e, s)[i] = s[i - 1]
  BY ConsFacts
<1>. QED
  BY <1>1, Zenon

\* A list without its last record, under a name of its own.
LEMMA ShorterList ==
  ASSUME NEW S, NEW s \in Seq(S), s # <<>>
  PROVE  \E a \in Seq(S) :
           /\ a = Front(s)
           /\ Len(a) = Len(s) - 1
           /\ \A i \in 1..(Len(s) - 1) : a[i] = s[i]
<1>1. /\ Front(s) \in Seq(S)
      /\ Len(Front(s)) = Len(s) - 1
      /\ \A i \in 1..(Len(s) - 1) : Front(s)[i] = s[i]
  BY FrontFacts
<1>. QED
  BY <1>1, Zenon

\* The back of a longer list is the back of the list.
LEMMA FrontOfCons ==
  ASSUME NEW S, NEW s \in Seq(S), s # <<>>, NEW e \in S
  PROVE  Front(Cons(e, s)) = Cons(e, Front(s))
<1>1. Len(s) \in Nat /\ Len(s) > 0
  BY EmptySeq
<1>2. PICK c \in Seq(S) :
        /\ c = Cons(e, s)
        /\ Len(c) = Len(s) + 1 /\ c[1] = e
        /\ \A i \in 2..(Len(s) + 1) : c[i] = s[i - 1]
  BY LongerList
<1>3. /\ Len(c) = Len(s) + 1 /\ c[1] = e
      /\ \A i \in 2..(Len(s) + 1) : c[i] = s[i - 1]
  BY <1>2
<1>4. c # <<>>
  BY <1>1, <1>3
<1>5. PICK f \in Seq(S) : f = Front(s)
  BY FrontFacts
<1>6. Len(f) = Len(s) - 1 /\ \A i \in 1..(Len(s) - 1) : f[i] = s[i]
  BY <1>5, FrontFacts
<1>7. PICK a \in Seq(S) :
        /\ a = Front(c)
        /\ Len(a) = Len(c) - 1 /\ \A i \in 1..(Len(c) - 1) : a[i] = c[i]
  BY <1>4, ShorterList
<1>8. Len(a) = Len(s) /\ \A i \in 1..Len(s) : a[i] = c[i]
  BY <1>1, <1>3, <1>7
<1>9. PICK b \in Seq(S) :
        /\ b = Cons(e, f)
        /\ Len(b) = Len(f) + 1 /\ b[1] = e
        /\ \A i \in 2..(Len(f) + 1) : b[i] = f[i - 1]
  BY LongerList
<1>10. /\ Len(b) = Len(s) /\ b[1] = e
       /\ \A i \in 2..Len(s) : b[i] = f[i - 1]
  BY <1>1, <1>6, <1>9
<1>11. \A i \in 1..Len(s) : a[i] = b[i]
  BY <1>1, <1>3, <1>6, <1>8, <1>10
<1>12. a = b
  BY <1>1, <1>8, <1>10, <1>11, SeqEqual
<1>. QED
  BY <1>2, <1>5, <1>7, <1>9, <1>12

\* Removing another record than the first.
LEMMA RemoveFromCons ==
  ASSUME NEW list, NEW keys, Holds(list, keys), NEW key \in keys,
         keys \subseteq Key, NEW first \in Key, first \notin keys
  PROVE  RemoveFirst(Cons(first, list), key) = Cons(first, RemoveFirst(list, key))
<1>1. list \in Seq(Key) /\ IsInjective(list) /\ ToSet(list) = keys /\ Len(list) \in Nat
  BY HoldsFacts, ListOfKeys
<1>2. PICK c \in Seq(Key) :
        /\ c = Cons(first, list)
        /\ Len(c) = Len(list) + 1 /\ c[1] = first
        /\ \A i \in 2..(Len(list) + 1) : c[i] = list[i - 1]
  BY <1>1, LongerList
<1>3. /\ c \in Seq(Key) /\ IsInjective(c) /\ key \in ToSet(c)
      /\ Len(c) = Len(list) + 1 /\ c[1] = first
      /\ \A i \in 2..(Len(list) + 1) : c[i] = list[i - 1]
  <2>1. IsInjective(Cons(first, list)) /\ ToSet(Cons(first, list)) = ToSet(list) \cup {first}
    <3>1. list \in Seq(Key) /\ IsInjective(list) /\ first \notin ToSet(list)
      BY <1>1
    <3>. QED
      BY <3>1, ConsFacts
  <2>2. IsInjective(c) /\ ToSet(c) = ToSet(list) \cup {first}
    BY <1>2, <2>1
  <2>. QED
    BY <1>1, <1>2, <2>2
<1>4. PICK r \in Seq(Key) : r = RemoveFirst(list, key)
  BY <1>1, RemoveFirstAt
<1>5. r \in Seq(Key) /\ Len(r) = Len(list) - 1
  BY <1>1, <1>4, RemoveFirstAt
<1>6. PICK p \in 1..Len(list) :
        /\ list[p] = key
        /\ \A i \in 1..(Len(list) - 1) : r[i] = IF i < p THEN list[i] ELSE list[i + 1]
  BY <1>1, <1>4, RemoveFirstAt
<1>7. PICK a : a = RemoveFirst(c, key)
  OBVIOUS
<1>8. a \in Seq(Key) /\ Len(a) = Len(list)
  BY <1>1, <1>3, <1>7, RemoveFirstAt
<1>9. PICK q \in 1..Len(c) :
        /\ c[q] = key
        /\ \A i \in 1..(Len(c) - 1) : a[i] = IF i < q THEN c[i] ELSE c[i + 1]
  BY <1>3, <1>7, RemoveFirstAt
<1>10. q = p + 1
  <2>1. p + 1 \in 1..Len(c) /\ c[p + 1] = key
    BY <1>1, <1>3, <1>6
  <2>2. DOMAIN c = 1..Len(c)
    BY <1>3
  <2>. QED
    BY <1>3, <1>9, <2>1, <2>2 DEF IsInjective
<1>11. PICK b \in Seq(Key) :
         /\ b = Cons(first, r)
         /\ Len(b) = Len(r) + 1 /\ b[1] = first
         /\ \A i \in 2..(Len(r) + 1) : b[i] = r[i - 1]
  BY LongerList
<1>12. /\ b \in Seq(Key) /\ Len(b) = Len(list) /\ b[1] = first
       /\ \A i \in 2..Len(list) : b[i] = r[i - 1]
  <2>1. Len(r) + 1 = Len(list)
    BY <1>1, <1>5
  <2>. QED
    BY <1>11, <2>1
<1>13. \A i \in 1..Len(list) : a[i] = b[i]
  <2>. SUFFICES ASSUME NEW i \in 1..Len(list) PROVE a[i] = b[i]
    OBVIOUS
  <2>1. a[i] = IF i < p + 1 THEN c[i] ELSE c[i + 1]
    BY <1>1, <1>3, <1>9, <1>10
  <2>2. CASE i = 1
    BY <1>3, <1>6, <1>12, <2>1, <2>2
  <2>3. CASE i > 1 /\ i < p + 1
    <3>1. i \in 2..(Len(list) + 1) /\ i \in 2..Len(list) /\ i - 1 \in 1..(Len(list) - 1)
          /\ i - 1 < p
      BY <1>1, <2>3
    <3>. QED
      BY <1>3, <1>6, <1>12, <2>1, <2>3, <3>1
  <2>4. CASE i > 1 /\ ~ (i < p + 1)
    <3>1. /\ i + 1 \in 2..(Len(list) + 1) /\ (i + 1) - 1 = i
          /\ i \in 2..Len(list) /\ i - 1 \in 1..(Len(list) - 1)
          /\ ~ (i - 1 < p) /\ (i - 1) + 1 = i
      BY <1>1, <2>4
    <3>2. r[i - 1] = list[i]
      BY <1>6, <3>1
    <3>3. c[i + 1] = list[i]
      BY <1>3, <3>1
    <3>. QED
      BY <1>12, <2>1, <2>4, <3>1, <3>2, <3>3
  <2>. QED
    BY <2>2, <2>3, <2>4
<1>14. a = b
  BY <1>8, <1>12, <1>13, SeqEqual
<1>. QED
  BY <1>2, <1>4, <1>7, <1>11, <1>14

\* A list says of a key what the index says of it.
LEMMA ListedKeys ==
  ASSUME Inv, NEW key \in Key
  PROVE  /\ Contains(a1in_, key) <=> pageIndex_[key] = A1In
         /\ Contains(am_, key) <=> pageIndex_[key] = Am
         /\ Contains(a1out_, key) <=> pageIndex_[key] = A1Out
<1>1. ASSUME NEW list, NEW keys, Holds(list, keys)
      PROVE  Contains(list, key) <=> key \in keys
  <2>1. list \in Seq(keys) /\ ToSet(list) = keys
    BY <1>1 DEF Holds
  <2>2. DOMAIN list = 1..Len(list)
    BY <2>1
  <2>. QED
    BY <2>1, <2>2 DEF Contains, ToSet
<1>2. /\ Contains(a1in_, key) <=> key \in Under(pageIndex_, A1In)
      /\ Contains(am_, key) <=> key \in Under(pageIndex_, Am)
      /\ Contains(a1out_, key) <=> key \in Under(pageIndex_, A1Out)
  BY <1>1 DEF Inv, Agree
<1>. QED
  BY <1>2 DEF Under

\* The model evicts when Cache2Q does, from the list that Cache2Q chooses.
LEMMA SameEviction ==
  ASSUME Inv
  PROVE  /\ Len(a1in_) + Len(am_) = Capacity <=> Full
         /\ A1inKept = IF Full /\ EvictFromA1in THEN Front(a1in_) ELSE a1in_
         /\ AmKept = IF Full /\ ~ EvictFromA1in THEN Front(am_) ELSE am_
         /\ \A promotingGhost \in BOOLEAN :
              ~ (Full /\ EvictFromA1in) => GhostsAfter(promotingGhost) = a1out_
<1>1. Len(a1in_) + Len(am_) = Capacity <=> Full
  BY LengthFacts, LimitFacts DEF Inv, Bounded, Full
<1>2. FromA1in # {} <=> Full /\ EvictFromA1in
  BY DEF FromA1in
<1>3. FromAm # {} <=> Full /\ ~ EvictFromA1in
  BY DEF FromAm
<1>. QED
  BY <1>1, <1>2, <1>3 DEF A1inKept, AmKept, GhostsAfter, GhostToForget

\* Forgetting a ghost before the new one is filed, or after.
LEMMA LimitedHistory ==
  ASSUME Inv, Full, EvictFromA1in
  PROVE  Reference!Limited(Cons(Last(a1in_), a1out_)) = GhostsAfter(FALSE)
<1>1. a1in_ # <<>> /\ a1in_ \in Seq(Key) /\ a1out_ \in Seq(Key)
  BY LengthFacts, LimitFacts, ListOfKeys, UnderKeys DEF Full, EvictFromA1in, Inv, Agree
<1>2. PICK v \in Key : v = Last(a1in_)
  BY <1>1, FrontFacts
<1>3. PICK c \in Seq(Key) : c = Cons(v, a1out_) /\ Len(c) = Len(a1out_) + 1
  BY <1>1, LongerList
<1>4. FromA1in = {v}
  BY <1>2 DEF FromA1in
<1>5. CASE Len(a1out_) >= ghostLimit_
  <2>1. a1out_ # <<>> /\ Len(c) > ghostLimit_
    BY <1>3, <1>5, LengthFacts, LimitFacts
  <2>2. Reference!Limited(c) = Front(c)
    BY <2>1, SameOperations DEF Reference!Limited
  <2>3. Front(c) = Cons(v, Front(a1out_))
    BY <1>1, <1>3, <2>1, FrontOfCons
  <2>4. GhostToForget(FALSE) = {Last(a1out_)}
    BY <1>4, <1>5 DEF GhostToForget
  <2>5. GhostsAfter(FALSE) = Cons(v, Front(a1out_))
    BY <1>2, <1>4, <2>4 DEF GhostsAfter
  <2>. QED
    BY <1>2, <1>3, <2>2, <2>3, <2>5
<1>6. CASE ~ (Len(a1out_) >= ghostLimit_)
  <2>1. ~ (Len(c) > ghostLimit_)
    BY <1>3, <1>6, LengthFacts, LimitFacts
  <2>2. Reference!Limited(c) = c
    BY <2>1 DEF Reference!Limited
  <2>3. GhostToForget(FALSE) = {}
    BY <1>6 DEF GhostToForget
  <2>4. GhostsAfter(FALSE) = c
    BY <1>2, <1>3, <1>4, <2>3 DEF GhostsAfter
  <2>. QED
    BY <1>2, <1>3, <2>2, <2>4
<1>. QED
  BY <1>5, <1>6

\* Taking the ghost that is promoted before the new one is filed, or after.
LEMMA PromotedHistory ==
  ASSUME Inv, Full, EvictFromA1in, NEW key \in Key, pageIndex_[key] = A1Out
  PROVE  Reference!Limited(Cons(Last(a1in_), RemoveFirst(a1out_, key))) =
           RemoveFirst(GhostsAfter(TRUE), key)
<1>1. /\ a1in_ # <<>>
      /\ Holds(a1in_, Under(pageIndex_, A1In))
      /\ Holds(a1out_, Under(pageIndex_, A1Out))
      /\ Len(a1out_) <= ghostLimit_
  BY LengthFacts, LimitFacts DEF Full, EvictFromA1in, Inv, Agree, Bounded
<1>2. PICK v : v = Last(a1in_)
  OBVIOUS
<1>3. v \in Under(pageIndex_, A1In)
  BY <1>1, <1>2, HoldsFront
<1>4. v \in Key /\ v \notin Under(pageIndex_, A1Out) /\ key \in Under(pageIndex_, A1Out)
  BY <1>3, EntryNames DEF Under
<1>5. RemoveFirst(Cons(v, a1out_), key) = Cons(v, RemoveFirst(a1out_, key))
  BY <1>1, <1>4, RemoveFromCons, UnderKeys
<1>6. PICK r \in Seq(Key) : r = RemoveFirst(a1out_, key) /\ Len(r) = Len(a1out_) - 1
  <2>1. a1out_ \in Seq(Key) /\ IsInjective(a1out_) /\ key \in ToSet(a1out_)
    BY <1>1, <1>4, ListOfKeys, UnderKeys
  <2>. QED
    BY <2>1, RemoveFirstFacts
<1>7. PICK c \in Seq(Key) : c = Cons(v, r) /\ Len(c) = Len(r) + 1
  BY <1>4, LongerList
<1>8. Reference!Limited(c) = c
  <2>1. ~ (Len(c) > ghostLimit_)
    BY <1>1, <1>6, <1>7, LengthFacts, LimitFacts
  <2>. QED
    BY <2>1 DEF Reference!Limited
<1>9. GhostsAfter(TRUE) = Cons(v, a1out_)
  <2>1. FromA1in = {v}
    BY <1>2 DEF FromA1in
  <2>2. GhostToForget(TRUE) = {}
    BY DEF GhostToForget
  <2>. QED
    BY <1>2, <2>1, <2>2 DEF GhostsAfter
<1>. QED
  BY <1>2, <1>5, <1>6, <1>7, <1>8, <1>9

\* Storing a page, new or promoted, is what the model does with it.
LEMMA StoreStep ==
  ASSUME Inv, NEW key \in Key, InsertNewPage(key) \/ PromoteGhostPage(key)
  PROVE  Reference!Store(key)
<1>1. Reference!Leave(key)
  BY SameOperations DEF InsertNewPage, PromoteGhostPage
<1>2. ~ Reference!Cached(key)
  BY ListedKeys, SameOperations, EntryNames
     DEF Reference!Cached, InsertNewPage, PromoteGhostPage
<1>3. CASE InsertNewPage(key)
  <2>1. /\ a1in_' = Cons(key, A1inKept) /\ am_' = AmKept /\ a1out_' = GhostsAfter(FALSE)
        /\ ~ Contains(a1out_, key)
    BY <1>3, ListedKeys, EntryNames DEF InsertNewPage
  <2>2. RemoveFirst(a1out_, key) = a1out_
    BY <2>1 DEF RemoveFirst, Contains
  <2>3. a1out_' = IF Full /\ EvictFromA1in
                    THEN Reference!Limited(Cons(Last(a1in_), a1out_))
                    ELSE a1out_
    BY <2>1, SameEviction, LimitedHistory
  <2>. QED
    BY <1>1, <1>2, <2>1, <2>2, <2>3, SameEviction, SameOperations
       DEF Reference!Store, EvictFromA1in
<1>4. CASE PromoteGhostPage(key)
  <2>1. /\ a1in_' = A1inKept /\ am_' = Cons(key, AmKept)
        /\ a1out_' = RemoveFirst(GhostsAfter(TRUE), key)
        /\ pageIndex_[key] = A1Out /\ Contains(a1out_, key)
    BY <1>4, ListedKeys DEF PromoteGhostPage
  <2>2. a1out_' = IF Full /\ EvictFromA1in
                    THEN Reference!Limited(Cons(Last(a1in_), RemoveFirst(a1out_, key)))
                    ELSE RemoveFirst(a1out_, key)
    BY <2>1, SameEviction, PromotedHistory
  <2>. QED
    BY <1>1, <1>2, <2>1, <2>2, SameEviction, SameOperations
       DEF Reference!Store, EvictFromA1in
<1>. QED
  BY <1>3, <1>4

\* Every step of the 2Q cache is a step of the linear model.
LEMMA StepFollowsReference ==
  ASSUME Inv, [Next]_vars
  PROVE  [Reference!Next]_(Reference!vars)
<1>1. ASSUME NEW key \in Key, Hit(key)
      PROVE  Reference!AccessRecent(key) \/ Reference!AccessRepeated(key) \/ UNCHANGED Reference!vars
  <2>1. a1in_' = a1in_ /\ a1out_' = a1out_ /\ calls' = calls
    BY <1>1 DEF Hit
  <2>2. CASE am_' = am_
    BY <2>1, <2>2 DEF Reference!vars
  <2>3. CASE pageIndex_[key] = Am /\ am_' = SpliceToFront(am_, key)
    BY <2>1, <2>3, ListedKeys, SameOperations DEF Reference!AccessRepeated
  <2>. QED
    BY <1>1, <2>2, <2>3 DEF Hit
<1>2. ASSUME NEW key \in Key, Miss(key) PROVE Reference!Miss(key)
  <2>1. Enter(key) /\ UNCHANGED <<a1in_, am_, a1out_>> /\ pageIndex_[key] \notin {A1In, Am}
    BY <1>2, EntryNames DEF Miss, store
  <2>. QED
    BY <2>1, ListedKeys, SameOperations DEF Reference!Miss, Reference!Cached
<1>3. ASSUME NEW key \in Key, InsertDuplicate(key) \/ PlanThrows(key) \/ LoadThrows(key)
      PROVE  Reference!Fail(key)
  <2>1. Leave(key) /\ UNCHANGED store
    BY <1>3, FailedStep
  <2>. QED
    BY <2>1, SameOperations DEF store, Reference!Fail
<1>4. ASSUME UNCHANGED vars PROVE UNCHANGED Reference!vars
  BY <1>4 DEF vars, Reference!vars
<1>5. CASE Next
  BY <1>1, <1>2, <1>3, <1>5, StoreStep DEF Next, Reference!Next
<1>. QED
  BY <1>4, <1>5

\* The indexed, staged implementation does to its three queues exactly what
\* the linear model of the tests does, through nested and failing calls too.
THEOREM FollowsReference == Spec => ImplementsReference
<1>1. Init => Reference!Init
  BY DEF Init, Reference!Init
<1>. QED
  BY <1>1, StepFollowsReference, Invariance, PTL
     DEF Spec, ImplementsReference, Reference!Spec
=============================================================================
