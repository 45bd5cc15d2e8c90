----------------------------- MODULE ListProofs -----------------------------
(***************************************************************************)
(* Facts about the operations of module Lists, for lists whose records     *)
(* have different keys, and about what is made of lists elsewhere: what    *)
(* the parser and the runner make of the files of an experiment, whole,    *)
(* torn or mixed, and combinations of strategies.                          *)
(***************************************************************************)
EXTENDS Lists, ExperimentFiles, StudyModel, FiniteSetTheorems, SequenceTheorems, TLAPS

\* The list without its last record, as pop_back leaves it.
LEMMA FrontFacts ==
  ASSUME NEW S, NEW s \in Seq(S), s # <<>>
  PROVE  /\ Front(s) \in Seq(S)
         /\ Len(Front(s)) = Len(s) - 1
         /\ Last(s) \in S
         /\ Last(s) \in ToSet(s)
         /\ \A i \in 1..(Len(s) - 1) : Front(s)[i] = s[i]
<1>1. Len(s) \in Nat \ {0} /\ DOMAIN s = 1..Len(s) /\ \A i \in 1..Len(s) : s[i] \in S
  BY EmptySeq
<1>2. Last(s) \in S /\ Last(s) \in ToSet(s)
  BY <1>1 DEF Last, ToSet
<1>3. /\ SubSeq(s, 1, Len(s) - 1) \in Seq(S)
      /\ Len(SubSeq(s, 1, Len(s) - 1)) = IF 1 <= Len(s) - 1 THEN Len(s) - 1 - 1 + 1 ELSE 0
      /\ \A i \in 1..(Len(s) - 1 - 1 + 1) : SubSeq(s, 1, Len(s) - 1)[i] = s[1 + i - 1]
  BY <1>1, SubSeqProperties
<1>. QED
  BY <1>1, <1>2, <1>3 DEF Front

\* pop_back takes away exactly the last record's key.
LEMMA FrontOfInjective ==
  ASSUME NEW S, NEW s \in Seq(S), s # <<>>, IsInjective(s)
  PROVE  /\ IsInjective(Front(s))
         /\ ToSet(Front(s)) = ToSet(s) \ {Last(s)}
<1>1. /\ Front(s) \in Seq(S)
      /\ Len(Front(s)) = Len(s) - 1
      /\ \A i \in 1..(Len(s) - 1) : Front(s)[i] = s[i]
  BY FrontFacts
<1>2. DOMAIN s = 1..Len(s) /\ Len(s) \in Nat \ {0}
  OBVIOUS
<1>3. DOMAIN Front(s) = 1..(Len(s) - 1)
  BY <1>1
<1>4. IsInjective(Front(s))
  BY <1>1, <1>2, <1>3 DEF IsInjective
<1>5. ToSet(Front(s)) = ToSet(s) \ {Last(s)}
  BY <1>1, <1>2, <1>3 DEF ToSet, Last, IsInjective
<1>. QED
  BY <1>4, <1>5

\* push_front, or a splice from another list, of a key the list does not hold.
LEMMA ConsFacts ==
  ASSUME NEW S, NEW s \in Seq(S), NEW e \in S
  PROVE  /\ Cons(e, s) \in Seq(S)
         /\ Len(Cons(e, s)) = Len(s) + 1
         /\ Cons(e, s)[1] = e
         /\ \A i \in 2..(Len(s) + 1) : Cons(e, s)[i] = s[i - 1]
         /\ ToSet(Cons(e, s)) = ToSet(s) \cup {e}
         /\ e \notin ToSet(s) /\ IsInjective(s) => IsInjective(Cons(e, s))
<1>. DEFINE c == Cons(e, s)
<1>1. /\ c \in Seq(S)
      /\ Len(c) = Len(s) + 1
      /\ c[1] = e
      /\ \A i \in 2..(Len(s) + 1) : c[i] = s[i - 1]
  BY DEF Cons
<1>2. DOMAIN c = 1..(Len(s) + 1) /\ DOMAIN s = 1..Len(s) /\ Len(s) \in Nat
  BY <1>1
<1>. HIDE DEF c
<1>3. ToSet(c) = ToSet(s) \cup {e}
  <2>1. ASSUME NEW x \in ToSet(s) PROVE x \in ToSet(c)
    <3>1. PICK i \in 1..Len(s) : x = s[i]
      BY <1>2 DEF ToSet
    <3>2. c[i + 1] = x /\ i + 1 \in DOMAIN c
      BY <1>1, <1>2, <3>1
    <3>. QED
      BY <3>2 DEF ToSet
  <2>2. e \in ToSet(c)
    BY <1>1, <1>2 DEF ToSet
  <2>3. ASSUME NEW x \in ToSet(c) PROVE x \in ToSet(s) \cup {e}
    BY <1>1, <1>2 DEF ToSet
  <2>. QED
    BY <2>1, <2>2, <2>3
<1>4. e \notin ToSet(s) /\ IsInjective(s) => IsInjective(c)
  <2>. SUFFICES ASSUME e \notin ToSet(s), IsInjective(s),
                       NEW i \in DOMAIN c, NEW j \in DOMAIN c, c[i] = c[j]
                PROVE  i = j
    BY DEF IsInjective
  <2>1. \A k \in 2..(Len(s) + 1) : c[k] # e
    BY <1>1, <1>2, SMTT(30) DEF ToSet
  <2>2. CASE i = 1 \/ j = 1
    BY <2>1, <2>2, <1>1, <1>2
  <2>3. CASE i # 1 /\ j # 1
    <3>1. i - 1 \in DOMAIN s /\ j - 1 \in DOMAIN s
      BY <2>3, <1>2
    <3>2. s[i - 1] = c[i] /\ s[j - 1] = c[j]
      BY <2>3, <1>1, <1>2
    <3>3. i - 1 = j - 1
      BY <3>1, <3>2 DEF IsInjective
    <3>. QED
      BY <3>3, <1>2
  <2>. QED
    BY <2>2, <2>3
<1>. QED
  BY <1>1, <1>3, <1>4 DEF c

\* The records before position p, and those after it.
LEMMA BeforeAndAfter ==
  ASSUME NEW S, NEW s \in Seq(S), NEW p \in 1..Len(s)
  PROVE  /\ SubSeq(s, 1, p - 1) \in Seq(S)
         /\ Len(SubSeq(s, 1, p - 1)) = p - 1
         /\ \A i \in 1..(p - 1) : SubSeq(s, 1, p - 1)[i] = s[i]
         /\ SubSeq(s, p + 1, Len(s)) \in Seq(S)
         /\ Len(SubSeq(s, p + 1, Len(s))) = Len(s) - p
         /\ \A i \in 1..(Len(s) - p) : SubSeq(s, p + 1, Len(s))[i] = s[p + i]
<1>1. Len(s) \in Nat /\ \A i \in 1..Len(s) : s[i] \in S
  OBVIOUS
<1>2. PICK a : a = SubSeq(s, 1, p - 1)
  OBVIOUS
<1>3. PICK b : b = SubSeq(s, p + 1, Len(s))
  OBVIOUS
<1>4. /\ a \in Seq(S)
      /\ Len(a) = p - 1
      /\ \A i \in 1..(p - 1) : a[i] = s[i]
  <2>1. /\ a \in Seq(S)
        /\ Len(a) = IF 1 <= p - 1 THEN p - 1 - 1 + 1 ELSE 0
        /\ \A i \in 1..(p - 1 - 1 + 1) : a[i] = s[1 + i - 1]
    BY <1>1, <1>2, SubSeqProperties
  <2>. QED
    BY <1>1, <2>1
<1>5. /\ b \in Seq(S)
      /\ Len(b) = Len(s) - p
      /\ \A i \in 1..(Len(s) - p) : b[i] = s[p + i]
  <2>1. /\ b \in Seq(S)
        /\ Len(b) = IF p + 1 <= Len(s) THEN Len(s) - (p + 1) + 1 ELSE 0
        /\ \A i \in 1..(Len(s) - (p + 1) + 1) : b[i] = s[p + 1 + i - 1]
    BY <1>1, <1>3, SubSeqProperties
  <2>2. Len(b) = Len(s) - p
    BY <1>1, <2>1
  <2>3. ASSUME NEW i \in 1..(Len(s) - p) PROVE b[i] = s[p + i]
    <3>1. i \in 1..(Len(s) - (p + 1) + 1) /\ p + 1 + i - 1 = p + i
      BY <1>1
    <3>. QED
      BY <2>1, <3>1
  <2>. QED
    BY <2>1, <2>2, <2>3
<1>. QED
  BY <1>2, <1>3, <1>4, <1>5

\* Unlinking a record closes the gap it leaves; the others keep their order.
LEMMA RemoveFirstAt ==
  ASSUME NEW S, NEW s \in Seq(S), IsInjective(s), NEW e \in ToSet(s)
  PROVE  /\ RemoveFirst(s, e) \in Seq(S)
         /\ Len(RemoveFirst(s, e)) = Len(s) - 1
         /\ \E p \in 1..Len(s) :
              /\ s[p] = e
              /\ \A i \in 1..(Len(s) - 1) :
                   RemoveFirst(s, e)[i] = IF i < p THEN s[i] ELSE s[i + 1]
<1>. DEFINE r == RemoveFirst(s, e)
<1>1. DOMAIN s = 1..Len(s) /\ Len(s) \in Nat
  OBVIOUS
<1>2. PICK p \in 1..Len(s) : s[p] = e
  BY <1>1 DEF ToSet
<1>. DEFINE a == SubSeq(s, 1, p - 1)
            b == SubSeq(s, p + 1, Len(s))
<1>3. r = a \o b
  <2>1. {i \in 1..Len(s) : s[i] = e} = {p}
    BY <1>1, <1>2 DEF IsInjective
  <2>2. Min({p}) = p
    BY <1>1, <1>2 DEF Min
  <2>3. SelectInSeq(s, LAMBDA v : v = e) = p
    BY <2>1, <2>2 DEF SelectInSeq
  <2>. QED
    BY <1>2, <2>3 DEF RemoveFirst, RemoveAt
<1>4. /\ a \in Seq(S)
      /\ Len(a) = p - 1
      /\ \A i \in 1..(p - 1) : a[i] = s[i]
      /\ b \in Seq(S)
      /\ Len(b) = Len(s) - p
      /\ \A i \in 1..(Len(s) - p) : b[i] = s[p + i]
  BY <1>2, BeforeAndAfter
<1>. HIDE DEF a, b
<1>5. /\ a \o b \in Seq(S)
      /\ Len(a \o b) = Len(a) + Len(b)
      /\ \A i \in 1..(Len(a) + Len(b)) :
           (a \o b)[i] = IF i <= Len(a) THEN a[i] ELSE b[i - Len(a)]
  BY <1>4, ConcatProperties
<1>6. Len(a \o b) = Len(s) - 1
  BY <1>1, <1>2, <1>4, <1>5
<1>7. ASSUME NEW i \in 1..(Len(s) - 1)
      PROVE  (a \o b)[i] = IF i < p THEN s[i] ELSE s[i + 1]
  <2>1. CASE i < p
    BY <2>1, <1>1, <1>2, <1>4, <1>5
  <2>2. CASE i >= p
    <3>1. i - Len(a) \in 1..(Len(s) - p) /\ p + (i - Len(a)) = i + 1
      BY <2>2, <1>1, <1>2, <1>4
    <3>2. (a \o b)[i] = b[i - Len(a)]
      BY <2>2, <1>1, <1>2, <1>4, <1>5
    <3>. QED
      BY <2>2, <3>1, <3>2, <1>4
  <2>3. i < p \/ i >= p
    BY <1>1, <1>2
  <2>. QED
    BY <2>1, <2>2, <2>3
<1>. HIDE DEF r
<1>. QED
  BY <1>2, <1>3, <1>5, <1>6, <1>7 DEF r

\* Unlinking the record of a key that the list holds once.
LEMMA RemoveFirstFacts ==
  ASSUME NEW S, NEW s \in Seq(S), IsInjective(s), NEW e \in ToSet(s)
  PROVE  /\ RemoveFirst(s, e) \in Seq(S)
         /\ Len(RemoveFirst(s, e)) = Len(s) - 1
         /\ IsInjective(RemoveFirst(s, e))
         /\ ToSet(RemoveFirst(s, e)) = ToSet(s) \ {e}
<1>1. DOMAIN s = 1..Len(s) /\ Len(s) \in Nat
  OBVIOUS
<1>2. PICK r \in Seq(S) : r = RemoveFirst(s, e)
  BY RemoveFirstAt
<1>3. Len(r) = Len(s) - 1
  BY <1>2, RemoveFirstAt
<1>4. PICK p \in 1..Len(s) :
        /\ s[p] = e
        /\ \A i \in 1..(Len(s) - 1) : r[i] = IF i < p THEN s[i] ELSE s[i + 1]
  BY <1>2, RemoveFirstAt
<1>5. DOMAIN r = 1..(Len(s) - 1)
  BY <1>3, <1>4
<1>6. IsInjective(r)
  <2>. SUFFICES ASSUME NEW i \in 1..(Len(s) - 1), NEW j \in 1..(Len(s) - 1),
                       r[i] = r[j]
                PROVE  i = j
    BY <1>5 DEF IsInjective
  <2>. DEFINE Old(k) == IF k < p THEN k ELSE k + 1
  <2>1. r[i] = s[Old(i)] /\ r[j] = s[Old(j)]
    BY <1>1, <1>3, <1>4
  <2>2. Old(i) \in DOMAIN s /\ Old(j) \in DOMAIN s
    BY <1>1
  <2>3. Old(i) = Old(j)
    <3>. HIDE DEF Old
    <3>. QED
      BY <2>1, <2>2 DEF IsInjective
  <2>. QED
    BY <2>3, <1>1
<1>7. ToSet(r) = ToSet(s) \ {e}
  <2>1. ASSUME NEW x \in ToSet(s), x # e PROVE x \in ToSet(r)
    <3>1. PICK i \in 1..Len(s) : x = s[i]
      BY <1>1 DEF ToSet
    <3>2. CASE i < p
      BY <3>1, <3>2, <1>1, <1>3, <1>4, <1>5 DEF ToSet
    <3>3. CASE i > p
      <4>1. i - 1 \in DOMAIN r /\ r[i - 1] = x
        BY <3>1, <3>3, <1>1, <1>3, <1>4, <1>5
      <4>. QED
        BY <4>1 DEF ToSet
    <3>. QED
      BY <3>1, <3>2, <3>3, <1>4, <2>1
  <2>2. ASSUME NEW x \in ToSet(r) PROVE x \in ToSet(s) /\ x # e
    <3>1. PICK i \in 1..(Len(s) - 1) : x = r[i]
      BY <1>5 DEF ToSet
    <3>. DEFINE k == IF i < p THEN i ELSE i + 1
    <3>2. k \in 1..Len(s) /\ k # p /\ x = s[k]
      BY <3>1, <1>1, <1>3, <1>4
    <3>. HIDE DEF k
    <3>. QED
      BY <3>2, <1>1, <1>4 DEF ToSet, IsInjective
  <2>. QED
    BY <2>1, <2>2
<1>. QED
  BY <1>2, <1>3, <1>6, <1>7

\* Moving a record of the list to its front keeps the records.
LEMMA SpliceToFrontFacts ==
  ASSUME NEW S, NEW s \in Seq(S), IsInjective(s), NEW e \in ToSet(s)
  PROVE  /\ SpliceToFront(s, e) \in Seq(S)
         /\ Len(SpliceToFront(s, e)) = Len(s)
         /\ IsInjective(SpliceToFront(s, e))
         /\ ToSet(SpliceToFront(s, e)) = ToSet(s)
<1>1. e \in S
  BY DEF ToSet
<1>2. PICK r \in Seq(S) : /\ r = RemoveFirst(s, e)
                           /\ Len(r) = Len(s) - 1
                           /\ IsInjective(r)
                           /\ ToSet(r) = ToSet(s) \ {e}
  BY RemoveFirstFacts
<1>3. e \notin ToSet(r)
  BY <1>2
<1>4. /\ Cons(e, r) \in Seq(S)
      /\ Len(Cons(e, r)) = Len(r) + 1
      /\ ToSet(Cons(e, r)) = ToSet(r) \cup {e}
      /\ e \notin ToSet(r) /\ IsInjective(r) => IsInjective(Cons(e, r))
  BY <1>1, ConsFacts
<1>5. Len(Cons(e, r)) = Len(s)
  BY <1>2, <1>4
<1>6. ToSet(Cons(e, r)) = ToSet(s)
  BY <1>2, <1>4
<1>. QED
  BY <1>2, <1>3, <1>4, <1>5, <1>6 DEF SpliceToFront

\* Where each record is after a move to the front.
LEMMA SpliceToFrontAt ==
  ASSUME NEW S, NEW s \in Seq(S), IsInjective(s), NEW e \in ToSet(s)
  PROVE  \E p \in 1..Len(s) :
           /\ s[p] = e
           /\ \A i \in 1..Len(s) :
                SpliceToFront(s, e)[i] =
                  IF i = 1 THEN e ELSE IF i <= p THEN s[i - 1] ELSE s[i]
<1>1. Len(s) \in Nat /\ e \in S
  BY DEF ToSet
<1>2. PICK r \in Seq(S) : r = RemoveFirst(s, e)
  BY RemoveFirstAt
<1>3. Len(r) = Len(s) - 1
  BY <1>2, RemoveFirstAt
<1>4. PICK p \in 1..Len(s) :
        /\ s[p] = e
        /\ \A i \in 1..(Len(s) - 1) : r[i] = IF i < p THEN s[i] ELSE s[i + 1]
  BY <1>2, RemoveFirstAt
<1>5. PICK c \in Seq(S) : /\ c = SpliceToFront(s, e)
                          /\ c[1] = e
                          /\ \A i \in 2..(Len(r) + 1) : c[i] = r[i - 1]
  <2>1. /\ Cons(e, r) \in Seq(S)
        /\ Cons(e, r)[1] = e
        /\ \A i \in 2..(Len(r) + 1) : Cons(e, r)[i] = r[i - 1]
    BY <1>1, ConsFacts
  <2>. QED
    BY <1>2, <2>1 DEF SpliceToFront
<1>6. ASSUME NEW i \in 1..Len(s), i # 1
      PROVE  c[i] = IF i <= p THEN s[i - 1] ELSE s[i]
  <2>1. i \in 2..(Len(r) + 1) /\ i - 1 \in 1..(Len(s) - 1) /\ (i - 1) + 1 = i
    BY <1>1, <1>3, <1>6
  <2>2. c[i] = r[i - 1]
    BY <1>5, <2>1
  <2>3. r[i - 1] = IF i - 1 < p THEN s[i - 1] ELSE s[(i - 1) + 1]
    BY <1>4, <2>1
  <2>4. i - 1 < p <=> i <= p
    BY <1>1, <1>4
  <2>. QED
    BY <2>1, <2>2, <2>3, <2>4
<1>. QED
  BY <1>4, <1>5, <1>6

\* Moving to the front a key that the list does not hold adds it there.
LEMMA SpliceOfAbsent ==
  ASSUME NEW S, NEW s \in Seq(S), NEW e \in S, e \notin ToSet(s)
  PROVE  SpliceToFront(s, e) = Cons(e, s)
<1>1. ~ \E i \in 1..Len(s) : s[i] = e
  BY DEF ToSet
<1>. QED
  BY <1>1 DEF SpliceToFront, RemoveFirst

\* A move to the front, or an addition there, keeps the keys different.
LEMMA SpliceKeepsInjective ==
  ASSUME NEW S, NEW s \in Seq(S), IsInjective(s), NEW e \in S
  PROVE  /\ SpliceToFront(s, e) \in Seq(S)
         /\ IsInjective(SpliceToFront(s, e))
<1>1. CASE e \in ToSet(s)
  BY <1>1, SpliceToFrontFacts
<1>2. CASE e \notin ToSet(s)
  <2>1. Cons(e, s) \in Seq(S) /\ IsInjective(Cons(e, s))
    BY <1>2, ConsFacts
  <2>. QED
    BY <1>2, <2>1, SpliceOfAbsent
<1>. QED
  BY <1>1, <1>2

\* A list is a prefix of another when it agrees with it position by position.
LEMMA PrefixByIndex ==
  ASSUME NEW S, NEW s \in Seq(S), NEW t \in Seq(S)
  PROVE  IsPrefix(s, t) <=> /\ Len(s) <= Len(t)
                            /\ \A i \in 1..Len(s) : s[i] = t[i]
<1>1. Len(s) \in Nat /\ Len(t) \in Nat /\ DOMAIN s = 1..Len(s)
  OBVIOUS
<1>2. /\ SubSeq(s, 1, Len(s)) \in Seq(S)
      /\ Len(SubSeq(s, 1, Len(s))) = Len(s)
      /\ \A i \in 1..Len(s) : SubSeq(s, 1, Len(s))[i] = s[i]
  BY <1>1
<1>3. ASSUME Len(s) <= Len(t)
      PROVE  /\ SubSeq(t, 1, Len(s)) \in Seq(S)
             /\ Len(SubSeq(t, 1, Len(s))) = Len(s)
             /\ \A i \in 1..Len(s) : SubSeq(t, 1, Len(s))[i] = t[i]
  BY <1>1, <1>3
<1>4. ASSUME Len(s) <= Len(t), \A i \in 1..Len(s) : s[i] = t[i]
      PROVE  SubSeq(s, 1, Len(s)) = SubSeq(t, 1, Len(s))
  BY <1>2, <1>3, <1>4, SeqEqual
<1>. QED
  BY <1>2, <1>3, <1>4 DEF IsPrefix

\* Moving a record to the front, in a list and in one it is a prefix of,
\* leaves it a prefix.
LEMMA SpliceKeepsPrefix ==
  ASSUME NEW S, NEW s \in Seq(S), NEW t \in Seq(S),
         IsInjective(s), IsInjective(t), IsPrefix(s, t), NEW e \in ToSet(s)
  PROVE  IsPrefix(SpliceToFront(s, e), SpliceToFront(t, e))
<1>1. /\ Len(s) <= Len(t) /\ Len(s) \in Nat /\ Len(t) \in Nat
      /\ DOMAIN s = 1..Len(s) /\ DOMAIN t = 1..Len(t)
      /\ \A i \in 1..Len(s) : s[i] = t[i]
  BY PrefixByIndex
<1>2. e \in ToSet(t)
  BY <1>1 DEF ToSet
<1>3. PICK u \in Seq(S) : u = SpliceToFront(s, e) /\ Len(u) = Len(s)
  BY SpliceToFrontFacts
<1>4. PICK v \in Seq(S) : v = SpliceToFront(t, e) /\ Len(v) = Len(t)
  BY <1>2, SpliceToFrontFacts
<1>5. PICK p \in 1..Len(s) :
        /\ s[p] = e
        /\ \A i \in 1..Len(s) :
             u[i] = IF i = 1 THEN e ELSE IF i <= p THEN s[i - 1] ELSE s[i]
  BY <1>3, SpliceToFrontAt
<1>6. PICK q \in 1..Len(t) :
        /\ t[q] = e
        /\ \A i \in 1..Len(t) :
             v[i] = IF i = 1 THEN e ELSE IF i <= q THEN t[i - 1] ELSE t[i]
  <2>1. \E q \in 1..Len(t) :
          /\ t[q] = e
          /\ \A i \in 1..Len(t) :
               SpliceToFront(t, e)[i] =
                 IF i = 1 THEN e ELSE IF i <= q THEN t[i - 1] ELSE t[i]
    BY <1>2, SpliceToFrontAt
  <2>. QED
    BY <1>4, <2>1
<1>7. p = q
  BY <1>1, <1>5, <1>6, SMTT(30) DEF IsInjective
<1>8. ASSUME NEW i \in 1..Len(s) PROVE u[i] = v[i]
  <2>1. i \in 1..Len(t) /\ (i # 1 => i - 1 \in 1..Len(s))
    BY <1>1
  <2>2. s[i] = t[i] /\ (i # 1 => s[i - 1] = t[i - 1])
    BY <1>1, <2>1
  <2>. QED
    BY <1>5, <1>6, <1>7, <2>1, <2>2
<1>. QED
  BY <1>1, <1>3, <1>4, <1>8, PrefixByIndex

\* Putting a new key before part of a list, and moving it to the front of one
\* that the list is a prefix of, leaves a prefix.
LEMMA StoreKeepsPrefix ==
  ASSUME NEW S, NEW s \in Seq(S), NEW t \in Seq(S), IsInjective(t),
         IsPrefix(s, t), NEW r \in Seq(S), IsPrefix(r, s),
         NEW e \in S, e \notin ToSet(s)
  PROVE  IsPrefix(Cons(e, r), SpliceToFront(t, e))
<1>1. /\ Len(s) <= Len(t) /\ Len(s) \in Nat /\ Len(t) \in Nat
      /\ Len(r) <= Len(s) /\ Len(r) \in Nat
      /\ DOMAIN s = 1..Len(s) /\ DOMAIN t = 1..Len(t)
      /\ \A i \in 1..Len(s) : s[i] = t[i]
      /\ \A i \in 1..Len(r) : r[i] = s[i]
  BY PrefixByIndex
<1>2. PICK u \in Seq(S) : /\ u = Cons(e, r)
                          /\ Len(u) = Len(r) + 1
                          /\ u[1] = e
                          /\ \A i \in 2..(Len(r) + 1) : u[i] = r[i - 1]
  BY ConsFacts
<1>3. CASE e \in ToSet(t)
  <2>1. PICK v \in Seq(S) : v = SpliceToFront(t, e) /\ Len(v) = Len(t)
    BY <1>3, SpliceToFrontFacts
  <2>2. PICK q \in 1..Len(t) :
          /\ t[q] = e
          /\ \A i \in 1..Len(t) :
               v[i] = IF i = 1 THEN e ELSE IF i <= q THEN t[i - 1] ELSE t[i]
    <3>1. \E q \in 1..Len(t) :
            /\ t[q] = e
            /\ \A i \in 1..Len(t) :
                 SpliceToFront(t, e)[i] =
                   IF i = 1 THEN e ELSE IF i <= q THEN t[i - 1] ELSE t[i]
      BY <1>3, SpliceToFrontAt
    <3>. QED
      BY <2>1, <3>1
  <2>3. q > Len(s)
    <3>1. q \notin 1..Len(s)
      BY <1>1, <2>2 DEF ToSet
    <3>. QED
      BY <1>1, <2>2, <3>1
  <2>4. Len(u) <= Len(v)
    BY <1>1, <1>2, <2>1, <2>2, <2>3
  <2>5. ASSUME NEW i \in 1..Len(u) PROVE u[i] = v[i]
    <3>1. i \in 1..Len(t) /\ i <= q
      BY <1>1, <1>2, <2>2, <2>3
    <3>2. CASE i = 1
      BY <1>2, <2>2, <3>1, <3>2
    <3>3. CASE i # 1
      <4>1. i \in 2..(Len(r) + 1) /\ i - 1 \in 1..Len(r) /\ i - 1 \in 1..Len(s)
        BY <1>1, <1>2, <3>3
      <4>2. u[i] = t[i - 1]
        BY <1>1, <1>2, <4>1
      <4>. QED
        BY <2>2, <3>1, <3>3, <4>2
    <3>. QED
      BY <3>2, <3>3
  <2>. QED
    BY <1>2, <2>1, <2>4, <2>5, PrefixByIndex
<1>4. CASE e \notin ToSet(t)
  <2>1. PICK v \in Seq(S) : /\ v = Cons(e, t)
                            /\ Len(v) = Len(t) + 1
                            /\ v[1] = e
                            /\ \A i \in 2..(Len(t) + 1) : v[i] = t[i - 1]
    BY ConsFacts
  <2>2. v = SpliceToFront(t, e)
    BY <1>4, <2>1, SpliceOfAbsent
  <2>3. Len(u) <= Len(v)
    BY <1>1, <1>2, <2>1
  <2>4. ASSUME NEW i \in 1..Len(u) PROVE u[i] = v[i]
    <3>1. CASE i = 1
      BY <1>2, <2>1, <3>1
    <3>2. CASE i # 1
      <4>1. /\ i \in 2..(Len(r) + 1) /\ i \in 2..(Len(t) + 1)
            /\ i - 1 \in 1..Len(r) /\ i - 1 \in 1..Len(s)
        BY <1>1, <1>2, <3>2
      <4>. QED
        BY <1>1, <1>2, <2>1, <4>1
    <3>. QED
      BY <3>1, <3>2
  <2>. QED
    BY <1>2, <2>2, <2>3, <2>4, PrefixByIndex
<1>. QED
  BY <1>3, <1>4

\* A list of different keys has as many keys as records.
LEMMA InjectiveCardinality ==
  ASSUME NEW S, NEW s \in Seq(S), IsInjective(s)
  PROVE  IsFiniteSet(ToSet(s)) /\ Cardinality(ToSet(s)) = Len(s)
<1>1. DOMAIN s = 1..Len(s) /\ Len(s) \in Nat
  OBVIOUS
<1>2. s \in Bijection(1..Len(s), ToSet(s))
  BY <1>1 DEF Bijection, Injection, Surjection, ToSet, IsInjective
<1>3. IsFiniteSet(1..Len(s)) /\ Cardinality(1..Len(s)) = Len(s)
  BY <1>1, FS_Interval
<1>. QED
  BY <1>2, <1>3, FS_Bijection DEF ExistsBijection
-----------------------------------------------------------------------------
(***************************************************************************)
(* The list operations by the set of keys they leave in a list.            *)
(***************************************************************************)

\* The list has one record for each of the keys, and no other.
Holds(list, keys) ==
  /\ list \in Seq(keys)
  /\ IsInjective(list)
  /\ ToSet(list) = keys

\* A list is one of its own elements, and of any set they are in.
LEMMA SeqOfElements ==
  ASSUME NEW S, NEW s \in Seq(S)
  PROVE  /\ s \in Seq(ToSet(s))
         /\ \A T : ToSet(s) \subseteq T => s \in Seq(T)
<1>1. \A i \in 1..Len(s) : s[i] \in ToSet(s)
  BY DEF ToSet
<1>2. ASSUME NEW T, ToSet(s) \subseteq T PROVE s \in Seq(T)
  <2>1. \A i \in 1..Len(s) : s[i] \in T
    BY <1>1, <1>2
  <2>. QED
    BY <2>1, IsASeq
<1>. QED
  BY <1>2

\* A list of some keys is one of keys.
LEMMA HoldsKeys ==
  ASSUME NEW list, NEW keys, Holds(list, keys), NEW T, keys \subseteq T
  PROVE  list \in Seq(T)
BY SeqOfElements DEF Holds

\* As many positions as keys.
LEMMA HoldsFacts ==
  ASSUME NEW list, NEW keys, Holds(list, keys)
  PROVE  /\ list \in Seq(keys)
         /\ Len(list) \in Nat
         /\ keys # {} => Len(list) > 0
         /\ Len(list) > 0 <=> list # <<>>
         /\ IsFiniteSet(keys)
         /\ Cardinality(keys) = Len(list)
<1>1. list \in Seq(keys) /\ Len(list) \in Nat /\ DOMAIN list = 1..Len(list)
  BY DEF Holds
<1>2. keys # {} => Len(list) > 0
  BY <1>1 DEF Holds, ToSet
<1>3. Len(list) > 0 <=> list # <<>>
  BY <1>1, EmptySeq
<1>. QED
  BY <1>1, <1>2, <1>3, InjectiveCardinality DEF Holds

\* Without its last key.
LEMMA HoldsFront ==
  ASSUME NEW list, NEW keys, Holds(list, keys), list # <<>>
  PROVE  /\ Holds(Front(list), keys \ {Last(list)})
         /\ Last(list) \in keys
         /\ Len(Front(list)) = Len(list) - 1
<1>1. list \in Seq(keys) /\ IsInjective(list) /\ ToSet(list) = keys
  BY DEF Holds
<1>2. /\ Front(list) \in Seq(keys) /\ Len(Front(list)) = Len(list) - 1
      /\ Last(list) \in keys
  BY <1>1, FrontFacts
<1>3. IsInjective(Front(list)) /\ ToSet(Front(list)) = keys \ {Last(list)}
  BY <1>1, FrontOfInjective
<1>4. Front(list) \in Seq(keys \ {Last(list)})
  BY <1>2, <1>3, SeqOfElements
<1>. QED
  BY <1>2, <1>3, <1>4 DEF Holds

\* With a new key at the front.
LEMMA HoldsCons ==
  ASSUME NEW list, NEW keys, Holds(list, keys), NEW key, key \notin keys
  PROVE  /\ Holds(Cons(key, list), keys \cup {key})
         /\ Len(Cons(key, list)) = Len(list) + 1
<1>1. list \in Seq(keys \cup {key})
  BY HoldsKeys
<1>2. IsInjective(list) /\ ToSet(list) = keys
  BY DEF Holds
<1>3. /\ Cons(key, list) \in Seq(keys \cup {key})
      /\ Len(Cons(key, list)) = Len(list) + 1
      /\ ToSet(Cons(key, list)) = ToSet(list) \cup {key}
      /\ key \notin ToSet(list) /\ IsInjective(list) => IsInjective(Cons(key, list))
  BY <1>1, ConsFacts
<1>. QED
  BY <1>2, <1>3 DEF Holds

\* Without a key.
LEMMA HoldsRemove ==
  ASSUME NEW list, NEW keys, Holds(list, keys), NEW key \in keys
  PROVE  /\ Holds(RemoveFirst(list, key), keys \ {key})
         /\ Len(RemoveFirst(list, key)) = Len(list) - 1
<1>1. list \in Seq(keys) /\ IsInjective(list) /\ ToSet(list) = keys
  BY DEF Holds
<1>2. PICK rest \in Seq(keys) : rest = RemoveFirst(list, key)
  BY <1>1, RemoveFirstFacts
<1>3. Len(rest) = Len(list) - 1 /\ IsInjective(rest) /\ ToSet(rest) = keys \ {key}
  BY <1>1, <1>2, RemoveFirstFacts
<1>4. rest \in Seq(keys \ {key})
  BY <1>3, SeqOfElements
<1>. QED
  BY <1>2, <1>3, <1>4 DEF Holds

\* A key moved to the front.
LEMMA HoldsSplice ==
  ASSUME NEW list, NEW keys, Holds(list, keys), NEW key \in keys
  PROVE  /\ Holds(SpliceToFront(list, key), keys)
         /\ Len(SpliceToFront(list, key)) = Len(list)
BY SpliceToFrontFacts DEF Holds

-----------------------------------------------------------------------------
(***************************************************************************)
(* Induction.  The library's induction theorems take the property as an    *)
(* operator; here it is a set.                                             *)
(***************************************************************************)

\* A set of numbers has a least one.
LEMMA Smallest ==
  ASSUME NEW T \in SUBSET Nat, T # {}
  PROVE  Min(T) \in T /\ \A n \in T : Min(T) <= n
<1>. DEFINE Below == {1..n : n \in T}
<1>1. Below \subseteq FiniteSubsetsOf(Nat) /\ Below # {}
  <2>1. ASSUME NEW n \in T PROVE 1..n \in FiniteSubsetsOf(Nat)
    <3>1. IsFiniteSet(1..n)
      BY FS_Interval
    <3>. QED
      BY <3>1 DEF FiniteSubsetsOf
  <2>. QED
    BY <2>1
<1>2. PICK x \in Below : \A y \in Below : ~ (<<y, x>> \in StrictSubsetOrdering(Nat))
  BY <1>1, FS_StrictSubsetOrderingWellFounded, WFMin
<1>3. PICK m \in T : x = 1..m
  OBVIOUS
<1>4. ASSUME NEW n \in T PROVE m <= n
  <2>1. SUFFICES ASSUME n < m PROVE FALSE
    OBVIOUS
  <2>2. 1..n \subseteq 1..m /\ 1..n # 1..m /\ 1..n \in SUBSET Nat /\ 1..m \in SUBSET Nat
    <3>1. m \in 1..m /\ m \notin 1..n
      BY <2>1
    <3>. QED
      BY <2>1, <3>1
  <2>3. <<1..n, 1..m>> \in StrictSubsetOrdering(Nat)
    BY <2>2 DEF StrictSubsetOrdering
  <2>4. 1..n \in Below
    OBVIOUS
  <2>. QED
    BY <1>2, <1>3, <2>3, <2>4
<1>. QED
  BY <1>4 DEF Min

\* Induction, for a property given as the set of the numbers that have it.
LEMMA Induction ==
  ASSUME NEW P \in SUBSET Nat, 0 \in P, \A n \in P : n + 1 \in P
  PROVE  \A n \in Nat : n \in P
<1>. DEFINE T == Nat \ P
<1>1. SUFFICES ASSUME T # {} PROVE FALSE
  OBVIOUS
<1>2. PICK m \in T : \A n \in T : m <= n
  BY <1>1, Smallest, T \in SUBSET Nat
<1>3. m - 1 \in Nat /\ m - 1 \notin T
  BY <1>2
<1>. QED
  BY <1>3, m = (m - 1) + 1

\* A way to pick an element of every subset.
IsPick(pick, S) ==
  /\ pick \in [(SUBSET S) \ {{}} -> S]
  /\ \A s \in SUBSET S : s # {} => pick[s] \in s

\* What a recursion over the subsets computes, each value made from the one for
\* the subset without the picked element.
IsRecursion(iter, S, pick, base, step) ==
  /\ iter[{}] = base
  /\ \A s \in SUBSET S : s # {} => iter[s] = step[<<pick[s], iter[s \ {pick[s]}]>>]

\* A property of subsets that an element more does not end.
Grows(P, S, pick) ==
  \A s \in SUBSET S : s # {} /\ s \ {pick[s]} \in P => s \in P

\* A function of the finite subsets of a set, each value made from that of the
\* subset without one element.
LEMMA SubsetRecursion ==
  ASSUME NEW S, IsFiniteSet(S), NEW pick, IsPick(pick, S),
         NEW V, NEW base \in V, NEW step \in [S \X V -> V]
  PROVE  \E iter \in [SUBSET S -> V] : IsRecursion(iter, S, pick, base, step)
<1>. DEFINE Small(n) == {s \in SUBSET S : Cardinality(s) <= n}
            Good(n, iter) ==
              /\ iter \in [Small(n) -> V]
              /\ iter[{}] = base
              /\ \A s \in Small(n) : s # {} =>
                   iter[s] = step[<<pick[s], iter[s \ {pick[s]}]>>]
            P == {n \in Nat : \E iter : Good(n, iter)}
<1>1. ASSUME NEW s \in SUBSET S
      PROVE  IsFiniteSet(s) /\ Cardinality(s) \in Nat /\ (Cardinality(s) = 0 <=> s = {})
  BY FS_Subset, FS_CardinalityType, FS_EmptySet
<1>2. ASSUME NEW s \in SUBSET S, s # {}
      PROVE  /\ pick[s] \in S /\ s \ {pick[s]} \in SUBSET S
             /\ Cardinality(s \ {pick[s]}) = Cardinality(s) - 1
  BY <1>1, <1>2, FS_RemoveElement DEF IsPick
<1>3. 0 \in P
  <2>1. Small(0) = {{}}
    BY <1>1
  <2>2. Good(0, [s \in Small(0) |-> base])
    BY <2>1
  <2>. QED
    BY <2>2
<1>4. ASSUME NEW n \in P PROVE n + 1 \in P
  <2>1. PICK iter : Good(n, iter)
    OBVIOUS
  <2>. DEFINE next == [s \in Small(n + 1) |->
                         IF s = {} THEN base ELSE step[<<pick[s], iter[s \ {pick[s]}]>>]]
  <2>2. ASSUME NEW s \in Small(n + 1), s # {}
        PROVE  s \ {pick[s]} \in Small(n)
    BY <1>1, <1>2, <2>2
  <2>3. {} \in Small(n) /\ {} \in Small(n + 1)
    BY FS_EmptySet
  <2>4. \A s \in Small(n) : s \in Small(n + 1) /\ next[s] = iter[s]
    <3>1. ASSUME NEW s \in Small(n) PROVE s \in Small(n + 1) /\ next[s] = iter[s]
      <4>1. s \in Small(n + 1)
        BY <1>1
      <4>2. next[s] = IF s = {} THEN base ELSE step[<<pick[s], iter[s \ {pick[s]}]>>]
        BY <4>1
      <4>. HIDE DEF next
      <4>. QED
        BY <4>1, <4>2, <2>1
    <3>. QED
      BY <3>1
  <2>5. next \in [Small(n + 1) -> V]
    <3>1. ASSUME NEW s \in Small(n + 1)
          PROVE  (IF s = {} THEN base ELSE step[<<pick[s], iter[s \ {pick[s]}]>>]) \in V
      BY <1>2, <2>1, <2>2
    <3>. QED
      BY <3>1
  <2>6. next[{}] = base
    BY <2>3
  <2>7. ASSUME NEW s \in Small(n + 1), s # {}
        PROVE  next[s] = step[<<pick[s], next[s \ {pick[s]}]>>]
    <3>1. next[s] = step[<<pick[s], iter[s \ {pick[s]}]>>]
      BY <2>7
    <3>2. next[s \ {pick[s]}] = iter[s \ {pick[s]}]
      BY <2>2, <2>4, <2>7
    <3>. HIDE DEF next
    <3>. QED
      BY <3>1, <3>2
  <2>. HIDE DEF next
  <2>8. Good(n + 1, next)
    BY <2>5, <2>6, <2>7
  <2>. HIDE DEF Good
  <2>. QED
    BY <2>8
<1>. HIDE DEF P
<1>5. P \in SUBSET Nat
  BY DEF P
<1>6. Cardinality(S) \in P
  BY <1>1, <1>3, <1>4, <1>5, Induction
<1>7. Small(Cardinality(S)) = SUBSET S
  BY <1>1, FS_Subset
<1>8. PICK iter : Good(Cardinality(S), iter)
  BY <1>6 DEF P
<1>9. IsRecursion(iter, S, pick, base, step)
  BY <1>7, <1>8 DEF IsRecursion
<1>. QED
  BY <1>7, <1>8, <1>9

\* Induction over the subsets of a finite set, for a property given as the set
\* of the subsets that have it.
LEMMA SubsetInduction ==
  ASSUME NEW S, IsFiniteSet(S), NEW P \in SUBSET (SUBSET S), {} \in P,
         NEW pick, IsPick(pick, S), Grows(P, S, pick)
  PROVE  \A s \in SUBSET S : s \in P
<1>. DEFINE N == {n \in Nat : \A s \in SUBSET S : Cardinality(s) <= n => s \in P}
<1>1. ASSUME NEW s \in SUBSET S
      PROVE  IsFiniteSet(s) /\ Cardinality(s) \in Nat /\ (Cardinality(s) = 0 <=> s = {})
  BY FS_Subset, FS_CardinalityType, FS_EmptySet
<1>2. 0 \in N
  <2>1. ASSUME NEW s \in SUBSET S, Cardinality(s) <= 0 PROVE s \in P
    <3>1. Cardinality(s) = 0
      BY <1>1, <2>1
    <3>2. s = {}
      BY <1>1, <3>1
    <3>. QED
      BY <3>2
  <2>. QED
    BY <2>1
<1>3. ASSUME NEW n \in N PROVE n + 1 \in N
  <2>1. ASSUME NEW s \in SUBSET S, Cardinality(s) <= n + 1, s # {}
        PROVE  s \in P
    <3>1. /\ pick[s] \in s /\ s \ {pick[s]} \in SUBSET S
          /\ Cardinality(s \ {pick[s]}) = Cardinality(s) - 1
      BY <1>1, <2>1, FS_RemoveElement DEF IsPick
    <3>2. s \ {pick[s]} \in P
      BY <1>1, <2>1, <3>1
    <3>. QED
      BY <2>1, <3>2 DEF Grows
  <2>2. \A s \in SUBSET S : Cardinality(s) <= n + 1 => s \in P
    BY <2>1
  <2>. QED
    BY <2>2
<1>. HIDE DEF N
<1>4. N \in SUBSET Nat
  BY DEF N
<1>5. \A n \in Nat : n \in N
  BY <1>2, <1>3, <1>4, Induction
<1>. QED
  BY <1>1, <1>5 DEF N

-----------------------------------------------------------------------------
(***************************************************************************)
(* Sums.                                                                   *)
(***************************************************************************)

\* The sums of f over the subsets of S.
AreSums(iter, S, f) ==
  /\ iter \in [SUBSET S -> Int]
  /\ iter[{}] = 0
  /\ \A s \in SUBSET S : s # {} =>
       iter[s] = f[CHOOSE x \in s : TRUE] + iter[s \ {CHOOSE x \in s : TRUE}]

\* SumFunction takes the elements one by one, in some order.
LEMMA SumByElements ==
  ASSUME NEW S, IsFiniteSet(S), NEW f \in [S -> Int]
  PROVE  \E iter : AreSums(iter, S, f) /\ SumFunction(f) = iter[S]
<1>. DEFINE pick == [s \in (SUBSET S) \ {{}} |-> CHOOSE x \in s : TRUE]
            step == [a \in S \X Int |-> f[a[1]] + a[2]]
            Eq(g) == g = [s \in SUBSET S |->
                            IF s = {} THEN 0
                            ELSE f[CHOOSE x \in s : TRUE] + g[s \ {CHOOSE x \in s : TRUE}]]
<1>1. /\ IsPick(pick, S)
      /\ \A s \in SUBSET S : s # {} => pick[s] \in s /\ pick[s] = CHOOSE x \in s : TRUE
  BY DEF IsPick
<1>2. step \in [S \X Int -> Int] /\ \A x \in S, v \in Int : step[<<x, v>>] = f[x] + v
  OBVIOUS
<1>. HIDE DEF pick, step
<1>3. PICK it \in [SUBSET S -> Int] : IsRecursion(it, S, pick, 0, step)
  <2>. DEFINE V == Int
  <2>1. 0 \in V /\ step \in [S \X V -> V]
    BY <1>2
  <2>. HIDE DEF V
  <2>2. \E iter \in [SUBSET S -> V] : IsRecursion(iter, S, pick, 0, step)
    BY <1>1, <2>1, SubsetRecursion
  <2>. QED
    BY <2>2 DEF V
<1>4. ASSUME NEW s \in SUBSET S, s # {}
      PROVE  it[s] = f[CHOOSE x \in s : TRUE] + it[s \ {CHOOSE x \in s : TRUE}]
  <2>1. pick[s] \in S /\ s \ {pick[s]} \in SUBSET S
    BY <1>1, <1>4
  <2>2. it[s] = f[pick[s]] + it[s \ {pick[s]}]
    BY <1>2, <1>3, <1>4, <2>1 DEF IsRecursion
  <2>. QED
    BY <1>1, <1>4, <2>2
<1>5. Eq(it)
  <2>1. it = [s \in SUBSET S |-> it[s]]
    OBVIOUS
  <2>. QED
    BY <1>3, <1>4, <2>1 DEF IsRecursion
<1>6. Eq(CHOOSE g : Eq(g))
  BY <1>5
<1>7. SumFunction(f) = (CHOOSE g : Eq(g))[S]
  BY DEF SumFunction, SumFunctionOnSet, FoldFunctionOnSet, MapThenFoldSet
<1>. DEFINE c == CHOOSE g : Eq(g)
<1>8. c[{}] = 0 /\ \A s \in SUBSET S : s # {} =>
        c[s] = f[CHOOSE x \in s : TRUE] + c[s \ {CHOOSE x \in s : TRUE}]
  BY <1>6
<1>. HIDE DEF c, Eq
<1>. DEFINE P == {s \in SUBSET S : c[s] = it[s]}
<1>9. {} \in P
  BY <1>3, <1>8 DEF IsRecursion
<1>10. ASSUME NEW s \in SUBSET S, s # {}, s \ {pick[s]} \in P PROVE s \in P
  <2>1. pick[s] \in s /\ pick[s] = (CHOOSE x \in s : TRUE) /\ s \ {pick[s]} \in SUBSET S
    BY <1>1, <1>10
  <2>2. c[s] = f[pick[s]] + c[s \ {pick[s]}] /\ it[s] = f[pick[s]] + it[s \ {pick[s]}]
    BY <1>4, <1>8, <1>10, <2>1
  <2>. QED
    BY <1>10, <2>2
<1>11. \A s \in SUBSET S : s \in P
  <2>1. P \in SUBSET (SUBSET S)
    OBVIOUS
  <2>. HIDE DEF P
  <2>2. Grows(P, S, pick)
    BY <1>10 DEF Grows
  <2>. QED
    BY <1>1, <1>9, <2>1, <2>2, SubsetInduction
<1>12. SumFunction(f) = it[S]
  BY <1>7, <1>11 DEF c
<1>13. AreSums(it, S, f)
  BY <1>3, <1>4 DEF AreSums, IsRecursion
<1>. QED
  BY <1>12, <1>13

\* What the elements of a set can be picked with is CHOOSE.
LEMMA Chosen ==
  ASSUME NEW S
  PROVE  LET pick == [s \in (SUBSET S) \ {{}} |-> CHOOSE x \in s : TRUE]
         IN IsPick(pick, S) /\ \A s \in SUBSET S : s # {} => pick[s] = CHOOSE x \in s : TRUE
BY DEF IsPick

\* The terms g are the terms f, but for one that is d more.
ChangesBy(f, g, S, x, d) == \A y \in S : g[y] = IF y = x THEN f[y] + d ELSE f[y]

\* A sum changes by what one of its terms changes.
LEMMA SumChanged ==
  ASSUME NEW S, IsFiniteSet(S), NEW f \in [S -> Int], NEW g \in [S -> Int],
         NEW x \in S, NEW d \in Int, ChangesBy(f, g, S, x, d)
  PROVE  SumFunction(f) \in Int /\ SumFunction(g) = SumFunction(f) + d
<1>. DEFINE pick == [s \in (SUBSET S) \ {{}} |-> CHOOSE y \in s : TRUE]
<1>1. \A y \in S : g[y] = IF y = x THEN f[y] + d ELSE f[y]
  BY DEF ChangesBy
<1>2. IsPick(pick, S) /\ \A s \in SUBSET S : s # {} => pick[s] = CHOOSE y \in s : TRUE
  BY Chosen
<1>. HIDE DEF pick
<1>3. PICK F : AreSums(F, S, f) /\ SumFunction(f) = F[S]
  BY SumByElements
<1>4. PICK G : AreSums(G, S, g) /\ SumFunction(g) = G[S]
  BY SumByElements
<1>. DEFINE P == {s \in SUBSET S : G[s] = IF x \in s THEN F[s] + d ELSE F[s]}
<1>5. {} \in P
  BY <1>3, <1>4 DEF AreSums
<1>6. ASSUME NEW s \in SUBSET S, s # {}, s \ {pick[s]} \in P PROVE s \in P
  <2>1. pick[s] \in s /\ s \ {pick[s]} \in SUBSET S
    BY <1>2, <1>6 DEF IsPick
  <2>2. F[s] = f[pick[s]] + F[s \ {pick[s]}] /\ G[s] = g[pick[s]] + G[s \ {pick[s]}]
    BY <1>2, <1>3, <1>4, <1>6, <2>1 DEF AreSums
  <2>3. F[s] \in Int /\ F[s \ {pick[s]}] \in Int /\ f[pick[s]] \in Int
    BY <1>3, <2>1 DEF AreSums
  <2>4. CASE pick[s] = x
    BY <1>1, <1>6, <2>1, <2>2, <2>3, <2>4
  <2>5. CASE pick[s] # x
    <3>1. x \in s <=> x \in s \ {pick[s]}
      BY <2>5
    <3>. QED
      BY <1>1, <1>6, <2>1, <2>2, <2>3, <2>5, <3>1
  <2>. QED
    BY <2>4, <2>5
<1>7. S \in P
  <2>1. P \in SUBSET (SUBSET S)
    OBVIOUS
  <2>. HIDE DEF P
  <2>2. Grows(P, S, pick)
    BY <1>6 DEF Grows
  <2>. QED
    BY <1>2, <1>5, <2>1, <2>2, SubsetInduction
<1>. QED
  BY <1>3, <1>4, <1>7 DEF AreSums

\* A sum of zeros.
LEMMA SumOfZeros ==
  ASSUME NEW S, IsFiniteSet(S), NEW f, f = [y \in S |-> 0]
  PROVE  SumFunction(f) = 0
<1>. DEFINE pick == [s \in (SUBSET S) \ {{}} |-> CHOOSE y \in s : TRUE]
<1>1. IsPick(pick, S) /\ \A s \in SUBSET S : s # {} => pick[s] = CHOOSE y \in s : TRUE
  BY Chosen
<1>. HIDE DEF pick
<1>2. PICK F : AreSums(F, S, f) /\ SumFunction(f) = F[S]
  BY SumByElements
<1>. DEFINE P == {s \in SUBSET S : F[s] = 0}
<1>3. {} \in P
  BY <1>2 DEF AreSums
<1>4. ASSUME NEW s \in SUBSET S, s # {}, s \ {pick[s]} \in P PROVE s \in P
  <2>1. pick[s] \in s
    BY <1>1, <1>4 DEF IsPick
  <2>2. F[s] = f[pick[s]] + F[s \ {pick[s]}]
    BY <1>1, <1>2, <1>4 DEF AreSums
  <2>. QED
    BY <1>4, <2>1, <2>2
<1>5. S \in P
  <2>1. P \in SUBSET (SUBSET S)
    OBVIOUS
  <2>. HIDE DEF P
  <2>2. Grows(P, S, pick)
    BY <1>4 DEF Grows
  <2>. QED
    BY <1>1, <1>3, <2>1, <2>2, SubsetInduction
<1>. QED
  BY <1>2, <1>5

\* A sum of natural numbers is one.
LEMMA SumOfNaturals ==
  ASSUME NEW S, IsFiniteSet(S), NEW f \in [S -> Nat]
  PROVE  SumFunction(f) \in Nat
<1>. DEFINE pick == [s \in (SUBSET S) \ {{}} |-> CHOOSE y \in s : TRUE]
<1>1. IsPick(pick, S) /\ \A s \in SUBSET S : s # {} => pick[s] = CHOOSE y \in s : TRUE
  BY Chosen
<1>. HIDE DEF pick
<1>2. PICK F : AreSums(F, S, f) /\ SumFunction(f) = F[S]
  <2>1. f \in [S -> Int]
    OBVIOUS
  <2>. QED
    BY <2>1, SumByElements
<1>. DEFINE P == {s \in SUBSET S : F[s] \in Nat}
<1>3. {} \in P
  BY <1>2 DEF AreSums
<1>4. ASSUME NEW s \in SUBSET S, s # {}, s \ {pick[s]} \in P PROVE s \in P
  <2>1. pick[s] \in s
    BY <1>1, <1>4 DEF IsPick
  <2>2. F[s] = f[pick[s]] + F[s \ {pick[s]}] /\ f[pick[s]] \in Nat
    BY <1>1, <1>2, <1>4, <2>1 DEF AreSums
  <2>. QED
    BY <1>4, <2>1, <2>2
<1>5. S \in P
  <2>1. P \in SUBSET (SUBSET S)
    OBVIOUS
  <2>. HIDE DEF P
  <2>2. Grows(P, S, pick)
    BY <1>4 DEF Grows
  <2>. QED
    BY <1>1, <1>3, <2>1, <2>2, SubsetInduction
<1>. QED
  BY <1>2, <1>5

-----------------------------------------------------------------------------
(***************************************************************************)
(* The elements of a list that are in a set.                               *)
(***************************************************************************)

\* A set of numbers has a greatest one if it has a bound.
LEMMA Greatest ==
  ASSUME NEW n \in Nat, NEW T \in SUBSET (1..n), T # {}
  PROVE  Max(T) \in T /\ \A m \in T : m <= Max(T)
<1>. DEFINE U == {n - m : m \in T}
<1>1. U \in SUBSET Nat /\ U # {}
  <2>1. ASSUME NEW m \in T PROVE n - m \in Nat
    OBVIOUS
  <2>. QED
    BY <2>1
<1>2. PICK least \in U : \A u \in U : least <= u
  BY <1>1, Smallest
<1>3. PICK max \in T : least = n - max
  OBVIOUS
<1>4. ASSUME NEW m \in T PROVE m <= max
  <2>1. least <= n - m /\ m \in 1..n /\ max \in 1..n
    BY <1>2
  <2>. QED
    BY <1>3, <2>1
<1>. QED
  BY <1>4 DEF Max

\* What is kept of the first elements of a list.
AreKept(kept, S, list, T) ==
  /\ kept \in [0..Len(list) -> Seq(S)]
  /\ kept[0] = <<>>
  /\ \A i \in 1..Len(list) :
       kept[i] = IF list[i] \in T THEN Append(kept[i - 1], list[i]) ELSE kept[i - 1]

\* Among keeps the items one after the other.
LEMMA AmongByElements ==
  ASSUME NEW S, NEW list \in Seq(S), NEW T
  PROVE  \E kept : AreKept(kept, S, list, T) /\ Among(list, T) = kept[Len(list)]
<1>. DEFINE n == Len(list)
            pick == [s \in (SUBSET (1..n)) \ {{}} |-> Max(s)]
            step == [a \in (1..n) \X Seq(S) |->
                       IF list[a[1]] \in T THEN Append(a[2], list[a[1]]) ELSE a[2]]
            Eq(g) == g = [s \in SUBSET (DOMAIN list) |->
                            IF s = {} THEN <<>>
                            ELSE IF list[Max(s)] \in T THEN Append(g[s \ {Max(s)}], list[Max(s)])
                                 ELSE g[s \ {Max(s)}]]
<1>1. n \in Nat /\ DOMAIN list = 1..n /\ \A i \in 1..n : list[i] \in S
  OBVIOUS
<1>2. IsFiniteSet(1..n)
  BY <1>1, FS_Interval
<1>. HIDE DEF n
<1>3. /\ IsPick(pick, 1..n)
      /\ \A s \in SUBSET (1..n) : s # {} => pick[s] = Max(s)
  BY <1>1, Greatest DEF IsPick
<1>4. /\ step \in [(1..n) \X Seq(S) -> Seq(S)]
      /\ \A i \in 1..n, v \in Seq(S) :
           step[<<i, v>>] = IF list[i] \in T THEN Append(v, list[i]) ELSE v
  BY <1>1
<1>5. <<>> \in Seq(S)
  OBVIOUS
<1>. HIDE DEF pick, step
<1>6. PICK it \in [SUBSET (1..n) -> Seq(S)] : IsRecursion(it, 1..n, pick, <<>>, step)
  BY <1>2, <1>3, <1>4, <1>5, SubsetRecursion
<1>7. ASSUME NEW s \in SUBSET (1..n), s # {}
      PROVE  it[s] = IF list[Max(s)] \in T THEN Append(it[s \ {Max(s)}], list[Max(s)])
                     ELSE it[s \ {Max(s)}]
  <2>1. Max(s) \in 1..n /\ s \ {Max(s)} \in SUBSET (1..n) /\ pick[s] = Max(s)
    BY <1>3, <1>7 DEF IsPick
  <2>2. it[s] = step[<<Max(s), it[s \ {Max(s)}]>>] /\ it[s \ {Max(s)}] \in Seq(S)
    BY <1>6, <1>7, <2>1 DEF IsRecursion
  <2>. QED
    BY <1>4, <2>1, <2>2
<1>8. Eq(it)
  <2>1. it = [s \in SUBSET (1..n) |-> it[s]]
    OBVIOUS
  <2>. QED
    BY <1>1, <1>6, <1>7, <2>1 DEF IsRecursion
<1>9. Eq(CHOOSE g : Eq(g))
  BY <1>8
<1>10. Among(list, T) = (CHOOSE g : Eq(g))[DOMAIN list]
  BY SMTT(30) DEF Among, FoldLeft, MapThenFoldSet
<1>. DEFINE c == CHOOSE g : Eq(g)
<1>11. c[{}] = <<>> /\ \A s \in SUBSET (1..n) : s # {} =>
         c[s] = IF list[Max(s)] \in T THEN Append(c[s \ {Max(s)}], list[Max(s)])
                ELSE c[s \ {Max(s)}]
  BY <1>1, <1>9
<1>. HIDE DEF c, Eq
<1>. DEFINE P == {s \in SUBSET (1..n) : c[s] = it[s]}
<1>12. {} \in P
  BY <1>6, <1>11 DEF IsRecursion
<1>13. ASSUME NEW s \in SUBSET (1..n), s # {}, s \ {pick[s]} \in P PROVE s \in P
  <2>1. s \ {Max(s)} \in P
    BY <1>3, <1>13
  <2>. QED
    BY <1>7, <1>11, <1>13, <2>1
<1>14. \A s \in SUBSET (1..n) : s \in P
  <2>1. P \in SUBSET (SUBSET (1..n))
    OBVIOUS
  <2>. HIDE DEF P
  <2>2. Grows(P, 1..n, pick)
    BY <1>13 DEF Grows
  <2>. QED
    BY <1>2, <1>3, <1>12, <2>1, <2>2, SubsetInduction
<1>15. Among(list, T) = it[1..n]
  BY <1>1, <1>10, <1>14 DEF c
<1>. DEFINE kept == [i \in 0..n |-> it[1..i]]
<1>16. \A i \in 0..n : kept[i] = it[1..i] /\ 1..i \in SUBSET (1..n)
  BY <1>1
<1>17. 1..0 = {} /\ 0 \in 0..n /\ n \in 0..n
  BY <1>1
<1>18. ASSUME NEW i \in 1..n
       PROVE  Max(1..i) = i /\ (1..i) \ {i} = 1..(i - 1) /\ 1..i # {} /\ i - 1 \in 0..n /\ i \in 0..n
  <2>1. 1..i \in SUBSET (1..n) /\ i \in 1..i /\ 1..i # {}
    <3>1. i \in 1..i
      BY <1>1
    <3>2. \A j \in 1..i : j \in 1..n
      BY <1>1
    <3>. QED
      BY <3>1, <3>2
  <2>2. Max(1..i) \in 1..i /\ i <= Max(1..i)
    BY <1>1, <2>1, Greatest
  <2>3. (1..i) \ {i} = 1..(i - 1)
    OBVIOUS
  <2>. QED
    BY <1>1, <2>1, <2>2, <2>3
<1>19. AreKept(kept, S, list, T)
  <2>1. kept \in [0..n -> Seq(S)]
    BY <1>6, <1>16
  <2>2. kept[0] = <<>>
    BY <1>6, <1>16, <1>17 DEF IsRecursion
  <2>3. ASSUME NEW i \in 1..n
        PROVE  kept[i] = IF list[i] \in T THEN Append(kept[i - 1], list[i]) ELSE kept[i - 1]
    <3>1. kept[i] = it[1..i] /\ kept[i - 1] = it[1..(i - 1)]
      BY <1>16, <1>18
    <3>. HIDE DEF kept
    <3>2. it[1..i] = IF list[i] \in T THEN Append(it[1..(i - 1)], list[i]) ELSE it[1..(i - 1)]
      BY <1>7, <1>16, <1>18
    <3>. QED
      BY <3>1, <3>2
  <2>. HIDE DEF kept
  <2>. QED
    BY <2>1, <2>2, <2>3 DEF AreKept, n
<1>20. kept[n] = Among(list, T)
  BY <1>15, <1>16, <1>17
<1>. HIDE DEF kept
<1>. QED
  BY <1>19, <1>20 DEF n

\* Of no elements none is kept.
LEMMA AmongEmpty ==
  ASSUME NEW T
  PROVE  Among(<<>>, T) = <<>>
<1>1. <<>> \in Seq(T) /\ Len(<<>>) = 0
  OBVIOUS
<1>2. PICK kept : AreKept(kept, T, <<>>, T) /\ Among(<<>>, T) = kept[Len(<<>>)]
  BY <1>1, AmongByElements
<1>. QED
  BY <1>1, <1>2 DEF AreKept

\* What is kept is a list of the same kind.
LEMMA AmongType ==
  ASSUME NEW S, NEW list \in Seq(S), NEW T
  PROVE  Among(list, T) \in Seq(S)
<1>1. PICK kept : AreKept(kept, S, list, T) /\ Among(list, T) = kept[Len(list)]
  BY AmongByElements
<1>2. Len(list) \in 0..Len(list)
  OBVIOUS
<1>. QED
  BY <1>1, <1>2 DEF AreKept

\* The last element is kept after those kept of the others.
LEMMA AmongAppend ==
  ASSUME NEW S, NEW list \in Seq(S), NEW T, NEW item \in S
  PROVE  /\ Among(list, T) \in Seq(S)
         /\ Among(Append(list, item), T) =
              IF item \in T THEN Append(Among(list, T), item) ELSE Among(list, T)
<1>. DEFINE longer == Append(list, item)
            n == Len(list)
<1>1. /\ longer \in Seq(S) /\ n \in Nat /\ Len(longer) = n + 1
      /\ longer[n + 1] = item /\ \A i \in 1..n : longer[i] = list[i]
  OBVIOUS
<1>. HIDE DEF longer
<1>2. PICK f : AreKept(f, S, list, T) /\ Among(list, T) = f[n]
  BY AmongByElements
<1>3. PICK g : AreKept(g, S, longer, T) /\ Among(longer, T) = g[n + 1]
  BY <1>1, AmongByElements
<1>. DEFINE P == {i \in Nat : i <= n => f[i] = g[i]}
<1>4. 0 \in P
  BY <1>2, <1>3 DEF AreKept
<1>5. ASSUME NEW i \in P PROVE i + 1 \in P
  <2>1. SUFFICES ASSUME i + 1 <= n PROVE f[i + 1] = g[i + 1]
    OBVIOUS
  <2>2. i + 1 \in 1..n /\ i + 1 \in 1..(n + 1) /\ (i + 1) - 1 = i /\ i \in Nat
    BY <1>1, <2>1
  <2>3. f[i + 1] = IF list[i + 1] \in T THEN Append(f[i], list[i + 1]) ELSE f[i]
    BY <1>2, <2>2 DEF AreKept
  <2>4. g[i + 1] = IF longer[i + 1] \in T THEN Append(g[i], longer[i + 1]) ELSE g[i]
    BY <1>1, <1>3, <2>2 DEF AreKept
  <2>5. f[i] = g[i]
    BY <1>1, <2>1, <2>2
  <2>. QED
    BY <1>1, <2>2, <2>3, <2>4, <2>5
<1>6. n \in P
  <2>1. P \in SUBSET Nat
    OBVIOUS
  <2>. HIDE DEF P
  <2>. QED
    BY <1>1, <1>4, <1>5, <2>1, Induction
<1>7. f[n] = g[n] /\ f[n] \in Seq(S)
  BY <1>1, <1>2, <1>6 DEF AreKept
<1>8. g[n + 1] = IF longer[n + 1] \in T THEN Append(g[n], longer[n + 1]) ELSE g[n]
  <2>1. n + 1 \in 1..(n + 1) /\ (n + 1) - 1 = n
    BY <1>1
  <2>. QED
    BY <1>1, <1>3, <2>1 DEF AreKept
<1>9. Among(longer, T) = IF item \in T THEN Append(Among(list, T), item) ELSE Among(list, T)
  BY <1>1, <1>2, <1>3, <1>7, <1>8
<1>. QED
  BY <1>2, <1>7, <1>9 DEF longer

\* The list without its last element.
LEMMA AmongFront ==
  ASSUME NEW S, NEW list \in Seq(S), list # <<>>, NEW T
  PROVE  /\ Front(list) \in Seq(S) /\ Last(list) \in S
         /\ Among(list, T) =
              IF Last(list) \in T THEN Append(Among(Front(list), T), Last(list))
              ELSE Among(Front(list), T)
<1>1. PICK shorter \in Seq(S), item \in S :
        /\ shorter = Front(list) /\ item = Last(list)
        /\ Len(shorter) = Len(list) - 1 /\ \A i \in 1..(Len(list) - 1) : shorter[i] = list[i]
  BY FrontFacts
<1>2. list = Append(shorter, item)
  <2>1. Len(list) \in Nat \ {0} /\ item = list[Len(list)]
    BY <1>1, EmptySeq DEF Last
  <2>. QED
    BY <1>1, <2>1
<1>3. Among(list, T) = IF item \in T THEN Append(Among(shorter, T), item) ELSE Among(shorter, T)
  BY <1>2, AmongAppend
<1>. QED
  BY <1>1, <1>3

\* As many are kept as there are.
LEMMA AmongLength ==
  ASSUME NEW S, NEW list \in Seq(S), NEW T
  PROVE  /\ IsFiniteSet({i \in DOMAIN list : list[i] \in T})
         /\ Len(Among(list, T)) = Cardinality({i \in DOMAIN list : list[i] \in T})
<1>. DEFINE Kept(m) == {i \in 1..m : list[i] \in T}
<1>1. PICK n \in Nat : n = Len(list) /\ DOMAIN list = 1..n
  OBVIOUS
<1>2. PICK kept : AreKept(kept, S, list, T) /\ Among(list, T) = kept[n]
  BY <1>1, AmongByElements
<1>3. ASSUME NEW m \in Nat PROVE IsFiniteSet(Kept(m))
  <2>1. IsFiniteSet(1..m)
    BY FS_Interval
  <2>. QED
    BY <2>1, FS_Subset
<1>. DEFINE P == {m \in Nat : m <= n => Len(kept[m]) = Cardinality(Kept(m))}
<1>4. 0 \in P
  <2>1. Kept(0) = {} /\ kept[0] = <<>>
    BY <1>2 DEF AreKept
  <2>. QED
    BY <2>1, FS_EmptySet
<1>5. ASSUME NEW m \in P PROVE m + 1 \in P
  <2>1. SUFFICES ASSUME m + 1 <= n PROVE Len(kept[m + 1]) = Cardinality(Kept(m + 1))
    OBVIOUS
  <2>2. m \in Nat /\ m + 1 \in 1..n /\ (m + 1) - 1 = m /\ m \in 0..n
    BY <1>1, <2>1
  <2>3. kept[m + 1] = IF list[m + 1] \in T THEN Append(kept[m], list[m + 1]) ELSE kept[m]
    BY <1>1, <1>2, <2>2 DEF AreKept
  <2>4. kept[m] \in Seq(S)
    BY <1>1, <1>2, <2>2 DEF AreKept
  <2>5. Len(kept[m]) = Cardinality(Kept(m))
    BY <1>1, <2>1, <2>2
  <2>6. Kept(m + 1) = IF list[m + 1] \in T THEN Kept(m) \cup {m + 1} ELSE Kept(m)
    BY <2>2
  <2>7. m + 1 \notin Kept(m)
    BY <2>2
  <2>8. IsFiniteSet(Kept(m)) /\ Cardinality(Kept(m) \cup {m + 1}) = Cardinality(Kept(m)) + 1
    BY <1>3, <2>2, <2>7, FS_AddElement
  <2>9. list[m + 1] \in S
    BY <1>1, <2>2
  <2>. HIDE DEF Kept
  <2>. QED
    BY <2>3, <2>4, <2>6, <2>8, <2>5, <2>9
<1>6. n \in P
  <2>1. P \in SUBSET Nat
    OBVIOUS
  <2>. HIDE DEF P
  <2>. QED
    BY <1>1, <1>4, <1>5, <2>1, Induction
<1>7. {i \in DOMAIN list : list[i] \in T} = Kept(n)
  BY <1>1
<1>8. Len(kept[n]) = Cardinality(Kept(n)) /\ IsFiniteSet(Kept(n))
  BY <1>3, <1>6
<1>. QED
  BY <1>2, <1>7, <1>8

-----------------------------------------------------------------------------
(***************************************************************************)
(* What is kept of a list, by induction over lists.                        *)
(***************************************************************************)

\* A list is made by putting one item after the other at its end.
LEMMA ListInduction ==
  ASSUME NEW S, NEW P, <<>> \in P,
         \A list \in Seq(S) : \A item \in S : list \in P => Append(list, item) \in P
  PROVE  \A list \in Seq(S) : list \in P
<1>. DEFINE Q == {n \in Nat : \A list \in Seq(S) : Len(list) = n => list \in P}
<1>1. 0 \in Q
  <2>1. ASSUME NEW list \in Seq(S), Len(list) = 0 PROVE list \in P
    BY <2>1, EmptySeq
  <2>. QED
    BY <2>1
<1>2. ASSUME NEW n \in Q PROVE n + 1 \in Q
  <2>1. SUFFICES ASSUME NEW list \in Seq(S), Len(list) = n + 1 PROVE list \in P
    OBVIOUS
  <2>2. list # <<>> /\ n \in Nat
    BY <2>1, EmptySeq
  <2>3. PICK front \in Seq(S), item \in S :
          /\ front = Front(list) /\ item = Last(list) /\ Len(front) = Len(list) - 1
          /\ \A i \in 1..(Len(list) - 1) : front[i] = list[i]
    BY <2>2, FrontFacts
  <2>4. PICK longer \in Seq(S) : longer = Append(front, item)
    BY AppendProperties
  <2>5. item = list[n + 1]
    BY <2>1, <2>3 DEF Last
  <2>6. /\ Len(longer) = n + 1 /\ longer[n + 1] = item
        /\ \A i \in 1..n : longer[i] = list[i]
    BY <2>1, <2>2, <2>3, <2>4
  <2>7. longer = list
    BY <2>1, <2>2, <2>5, <2>6, SeqEqual
  <2>8. front \in P
    BY <2>1, <2>2, <2>3
  <2>. QED
    BY <2>4, <2>7, <2>8
<1>3. Q \in SUBSET Nat
  OBVIOUS
<1>4. \A n \in Nat : n \in Q
  <2>. HIDE DEF Q
  <2>. QED
    BY <1>1, <1>2, <1>3, Induction
<1>. QED
  BY <1>4

\* The items of a list with one more.
LEMMA AppendItems ==
  ASSUME NEW S, NEW list \in Seq(S), NEW item \in S
  PROVE  /\ ToSet(Append(list, item)) = ToSet(list) \cup {item}
         /\ IsInjective(Append(list, item)) <=> IsInjective(list) /\ item \notin ToSet(list)
<1>1. PICK longer \in Seq(S) : longer = Append(list, item)
  BY AppendProperties
<1>2. PICK n \in Nat : n = Len(list) /\ DOMAIN list = 1..n
  OBVIOUS
<1>3. /\ DOMAIN longer = 1..(n + 1) /\ longer[n + 1] = item
      /\ \A i \in 1..n : longer[i] = list[i]
  BY <1>1, <1>2
<1>4. ToSet(longer) = ToSet(list) \cup {item}
  BY <1>2, <1>3 DEF ToSet
<1>5. ASSUME IsInjective(longer) PROVE IsInjective(list) /\ item \notin ToSet(list)
  BY <1>2, <1>3, <1>5 DEF IsInjective, ToSet
<1>6. ASSUME IsInjective(list), item \notin ToSet(list) PROVE IsInjective(longer)
  <2>1. SUFFICES ASSUME NEW i \in 1..(n + 1), NEW j \in 1..(n + 1), longer[i] = longer[j] PROVE i = j
    BY <1>3 DEF IsInjective
  <2>2. \A k \in 1..n : longer[k] # item
    BY <1>2, <1>3, <1>6 DEF ToSet
  <2>3. CASE i \in 1..n /\ j \in 1..n
    BY <1>2, <1>3, <1>6, <2>1, <2>3 DEF IsInjective
  <2>4. CASE i = n + 1 \/ j = n + 1
    BY <1>3, <2>1, <2>2, <2>4
  <2>. QED
    BY <2>3, <2>4
<1>. QED
  BY <1>1, <1>4, <1>5, <1>6

\* Sets that agree on the items keep the same.
LEMMA AmongSame ==
  ASSUME NEW S, NEW T, NEW U
  PROVE  \A list \in Seq(S) :
           ToSet(list) \cap T = ToSet(list) \cap U => Among(list, T) = Among(list, U)
<1>. DEFINE P == {list \in Seq(S) :
                    ToSet(list) \cap T = ToSet(list) \cap U => Among(list, T) = Among(list, U)}
<1>1. <<>> \in P
  BY AmongEmpty
<1>2. ASSUME NEW list \in P, NEW item \in S PROVE Append(list, item) \in P
  <2>1. PICK longer \in Seq(S) : longer = Append(list, item) /\ ToSet(longer) = ToSet(list) \cup {item}
    BY AppendItems, AppendProperties
  <2>2. SUFFICES ASSUME ToSet(longer) \cap T = ToSet(longer) \cap U
                 PROVE  Among(longer, T) = Among(longer, U)
    BY <2>1
  <2>3. (item \in T <=> item \in U) /\ ToSet(list) \cap T = ToSet(list) \cap U
    BY <2>1, <2>2
  <2>4. Among(list, T) = Among(list, U)
    BY <2>3
  <2>5. Among(longer, T) = IF item \in T THEN Append(Among(list, T), item) ELSE Among(list, T)
    BY <2>1, AmongAppend
  <2>6. Among(longer, U) = IF item \in U THEN Append(Among(list, U), item) ELSE Among(list, U)
    BY <2>1, AmongAppend
  <2>. QED
    BY <2>3, <2>4, <2>5, <2>6
<1>3. \A list \in Seq(S) : list \in P
  <2>. HIDE DEF P
  <2>. QED
    BY <1>1, <1>2, ListInduction
<1>. QED
  BY <1>3

\* A set that has all the items keeps them all.
LEMMA AmongAll ==
  ASSUME NEW S
  PROVE  \A list \in Seq(S) : Among(list, S) = list
<1>. DEFINE P == {list \in Seq(S) : Among(list, S) = list}
<1>1. <<>> \in P
  BY AmongEmpty
<1>2. ASSUME NEW list \in P, NEW item \in S PROVE Append(list, item) \in P
  <2>1. Among(Append(list, item), S) = Append(Among(list, S), item)
    BY AmongAppend
  <2>. QED
    BY <2>1, AppendProperties
<1>3. \A list \in Seq(S) : list \in P
  <2>. HIDE DEF P
  <2>. QED
    BY <1>1, <1>2, ListInduction
<1>. QED
  BY <1>3

\* What is kept by one set and then by another.
LEMMA AmongAmong ==
  ASSUME NEW S, NEW T, NEW U
  PROVE  \A list \in Seq(S) : Among(Among(list, T), U) = Among(list, T \cap U)
<1>1. PICK V : V = T \cap U
  OBVIOUS
<1>2. ASSUME NEW list \in Seq(S), NEW item \in S, Among(Among(list, T), U) = Among(list, V)
      PROVE  Among(Among(Append(list, item), T), U) = Among(Append(list, item), V)
  <2>1. Among(Append(list, item), V) =
          IF item \in V THEN Append(Among(list, V), item) ELSE Among(list, V)
    BY AmongAppend
  <2>2. PICK kept \in Seq(S) : kept = Among(list, T)
    BY AmongType
  <2>3. Among(kept, U) = Among(list, V)
    BY <1>2, <2>2
  <2>4. Among(Append(list, item), T) =
          IF item \in T THEN Append(Among(list, T), item) ELSE Among(list, T)
    BY AmongAppend
  <2>5. Among(Append(kept, item), U) =
          IF item \in U THEN Append(Among(kept, U), item) ELSE Among(kept, U)
    BY AmongAppend
  <2>. QED
    BY <1>1, <2>2, <2>3, <2>4, <2>1, <2>5
<1>. DEFINE P == {list \in Seq(S) : Among(Among(list, T), U) = Among(list, V)}
<1>3. /\ <<>> \in P
      /\ \A list \in Seq(S) : \A item \in S : list \in P => Append(list, item) \in P
  <2>1. <<>> \in P
    BY AmongEmpty
  <2>2. ASSUME NEW list \in Seq(S), NEW item \in S, list \in P PROVE Append(list, item) \in P
    BY <1>2, <2>2, AppendProperties
  <2>. QED
    BY <2>1, <2>2
<1>4. \A list \in Seq(S) : list \in P
  <2>. HIDE DEF P
  <2>. QED
    BY <1>3, ListInduction
<1>. QED
  BY <1>1, <1>4

\* What is kept of a list of different items.
LEMMA AmongItems ==
  ASSUME NEW S, NEW T
  PROVE  \A list \in Seq(S) :
           /\ ToSet(Among(list, T)) = ToSet(list) \cap T
           /\ IsInjective(list) => IsInjective(Among(list, T))
<1>1. ToSet(<<>>) = {} /\ <<>> \in Seq(S)
  BY DEF ToSet
<1>2. ASSUME NEW list \in Seq(S), NEW item \in S,
             ToSet(Among(list, T)) = ToSet(list) \cap T,
             IsInjective(list) => IsInjective(Among(list, T))
      PROVE  /\ ToSet(Among(Append(list, item), T)) = ToSet(Append(list, item)) \cap T
             /\ IsInjective(Append(list, item)) => IsInjective(Among(Append(list, item), T))
  <2>1. Among(Append(list, item), T) =
          IF item \in T THEN Append(Among(list, T), item) ELSE Among(list, T)
    BY AmongAppend
  <2>2. PICK longer \in Seq(S), kept \in Seq(S) : longer = Append(list, item) /\ kept = Among(list, T)
    BY AmongType, AppendProperties
  <2>3. /\ ToSet(kept) = ToSet(list) \cap T
        /\ IsInjective(list) => IsInjective(kept)
    BY <1>2, <2>2
  <2>4. /\ ToSet(longer) = ToSet(list) \cup {item}
        /\ IsInjective(longer) <=> IsInjective(list) /\ item \notin ToSet(list)
    BY <2>2, AppendItems
  <2>5. Among(longer, T) = IF item \in T THEN Append(kept, item) ELSE kept
    BY <2>1, <2>2
  <2>6. /\ ToSet(Append(kept, item)) = ToSet(kept) \cup {item}
        /\ IsInjective(Append(kept, item)) <=> IsInjective(kept) /\ item \notin ToSet(kept)
    BY AppendItems
  <2>7. ToSet(Among(longer, T)) = ToSet(longer) \cap T
    BY <2>3, <2>4, <2>5, <2>6
  <2>8. IsInjective(longer) => IsInjective(Among(longer, T))
    BY <2>3, <2>4, <2>5, <2>6
  <2>. QED
    BY <2>2, <2>7, <2>8
<1>. DEFINE P == {list \in Seq(S) : /\ ToSet(Among(list, T)) = ToSet(list) \cap T
                                    /\ IsInjective(list) => IsInjective(Among(list, T))}
<1>3. /\ <<>> \in P
      /\ \A list \in Seq(S) : \A item \in S : list \in P => Append(list, item) \in P
  <2>1. <<>> \in P
    BY <1>1, AmongEmpty
  <2>2. ASSUME NEW list \in Seq(S), NEW item \in S, list \in P PROVE Append(list, item) \in P
    BY <1>2, <2>2, AppendProperties
  <2>. QED
    BY <2>1, <2>2
<1>4. \A list \in Seq(S) : list \in P
  <2>. HIDE DEF P
  <2>. QED
    BY <1>3, ListInduction
<1>. QED
  BY <1>4

\* What is kept of two lists, one after the other.
LEMMA AmongConcat ==
  ASSUME NEW S, NEW T, NEW first \in Seq(S)
  PROVE  \A list \in Seq(S) : Among(first \o list, T) = Among(first, T) \o Among(list, T)
<1>1. \A item \in S : \A s \in Seq(S) : Among(Append(s, item), T) =
          IF item \in T THEN Append(Among(s, T), item) ELSE Among(s, T)
  BY AmongAppend
<1>2. PICK a \in Seq(S) : a = Among(first, T)
  BY AmongType
<1>3. <<>> \in Seq(S) /\ Among(first \o <<>>, T) = Among(first, T) \o Among(<<>>, T)
  <2>1. first \o <<>> = first /\ a \o <<>> = a /\ <<>> \in Seq(S)
    BY ConcatEmptySeq
  <2>. QED
    BY <1>2, <2>1, AmongEmpty
<1>4. ASSUME NEW s \in Seq(S), NEW t \in Seq(S), NEW item \in S
      PROVE  s \o Append(t, item) = Append(s \o t, item)
  BY AppendIsConcat, ConcatAssociative, ConcatProperties
<1>5. ASSUME NEW list \in Seq(S), NEW item \in S,
             Among(first \o list, T) = Among(first, T) \o Among(list, T)
      PROVE  Among(first \o Append(list, item), T) = Among(first, T) \o Among(Append(list, item), T)
  <2>1. Among(Append(list, item), T) =
          IF item \in T THEN Append(Among(list, T), item) ELSE Among(list, T)
    BY <1>1
  <2>2. PICK b \in Seq(S), both \in Seq(S) : b = Among(list, T) /\ both = first \o list
    BY AmongType, ConcatProperties
  <2>3. Among(both, T) = a \o b
    BY <1>2, <1>5, <2>2
  <2>4. \A s \in Seq(S) : Among(Append(s, item), T) =
          IF item \in T THEN Append(Among(s, T), item) ELSE Among(s, T)
    BY <1>1
  <2>5. Among(Append(both, item), T) = IF item \in T THEN Append(a \o b, item) ELSE a \o b
    BY <2>3, <2>4
  <2>6. Among(Append(list, item), T) = IF item \in T THEN Append(b, item) ELSE b
    BY <2>1, <2>2
  <2>7. first \o Append(list, item) = Append(both, item)
    BY <1>4, <2>2
  <2>8. a \o Append(b, item) = Append(a \o b, item)
    BY <1>4
  <2>. QED
    BY <1>2, <2>5, <2>6, <2>7, <2>8
<1>. DEFINE P == {list \in Seq(S) : Among(first \o list, T) = Among(first, T) \o Among(list, T)}
<1>6. /\ <<>> \in P
      /\ \A list \in Seq(S) : \A item \in S : list \in P => Append(list, item) \in P
  BY <1>3, <1>5, AppendProperties
<1>7. \A list \in Seq(S) : list \in P
  <2>. HIDE DEF P
  <2>. QED
    BY <1>6, ListInduction
<1>. QED
  BY <1>7

\* What is kept of a list with an item at its front.
LEMMA AmongCons ==
  ASSUME NEW S, NEW T, NEW list \in Seq(S), NEW item \in S
  PROVE  Among(Cons(item, list), T) =
           IF item \in T THEN Cons(item, Among(list, T)) ELSE Among(list, T)
<1>1. PICK empty \in Seq(S) : empty = <<>>
  <2>1. <<>> \in Seq(S)
    OBVIOUS
  <2>. QED
    BY <2>1
<1>2. Among(Append(empty, item), T) =
        IF item \in T THEN Append(Among(empty, T), item) ELSE Among(empty, T)
  BY AmongAppend
<1>3. Append(<<>>, item) = <<item>> /\ <<item>> \in Seq(S)
  OBVIOUS
<1>4. Among(<<item>>, T) = IF item \in T THEN <<item>> ELSE <<>>
  BY <1>1, <1>2, <1>3, AmongEmpty
<1>5. Among(<<item>> \o list, T) = Among(<<item>>, T) \o Among(list, T)
  BY <1>3, AmongConcat
<1>6. PICK kept \in Seq(S) : kept = Among(list, T) /\ <<>> \o kept = kept
  BY AmongType, ConcatEmptySeq
<1>. QED
  BY <1>4, <1>5, <1>6 DEF Cons

\* A list without one of its items.
LEMMA AmongOthers ==
  ASSUME NEW S, NEW item
  PROVE  \A list \in Seq(S) :
           IsInjective(list) /\ item \in ToSet(list)
             => RemoveFirst(list, item) = Among(list, S \ {item})
<1>1. PICK T : T = S \ {item}
  OBVIOUS
<1>2. ASSUME NEW list \in Seq(S), NEW last \in S,
             IsInjective(list) /\ item \in ToSet(list) => RemoveFirst(list, item) = Among(list, T),
             IsInjective(Append(list, last)), item \in ToSet(Append(list, last))
      PROVE  RemoveFirst(Append(list, last), item) = Among(Append(list, last), T)
  <2>1. Among(Append(list, last), T) =
          IF last \in T THEN Append(Among(list, T), last) ELSE Among(list, T)
    BY AmongAppend
  <2>2. /\ ToSet(Append(list, last)) = ToSet(list) \cup {last}
        /\ IsInjective(list) /\ last \notin ToSet(list)
    BY <1>2, AppendItems
  <2>3. PICK n \in Nat : n = Len(list) /\ DOMAIN list = 1..n
    OBVIOUS
  <2>4. PICK longer \in Seq(S) : longer = Append(list, last)
    BY AppendProperties
  <2>5. /\ longer = Append(list, last) /\ Len(longer) = n + 1 /\ longer[n + 1] = last
        /\ \A i \in 1..n : longer[i] = list[i]
    BY <2>3, <2>4
  <2>6. IsInjective(longer) /\ item \in ToSet(longer)
    BY <1>2, <2>4
  <2>7. PICK rest \in Seq(S) : rest = RemoveFirst(longer, item) /\ Len(rest) = Len(longer) - 1
    BY <2>6, RemoveFirstAt
  <2>8. PICK p \in 1..Len(longer) :
           /\ longer[p] = item
           /\ \A i \in 1..(Len(longer) - 1) :
                rest[i] = IF i < p THEN longer[i] ELSE longer[i + 1]
    BY <2>6, <2>7, RemoveFirstAt
  <2>9. /\ rest = RemoveFirst(longer, item) /\ Len(rest) = n /\ longer[p] = item /\ p \in 1..(n + 1)
        /\ \A i \in 1..n : rest[i] = IF i < p THEN longer[i] ELSE longer[i + 1]
    <3>1. Len(longer) - 1 = n
      BY <2>5
    <3>. QED
      BY <2>5, <2>7, <2>8, <3>1
  <2>10. CASE item = last
    <3>1. \A i \in 1..n : list[i] # item
      BY <2>2, <2>3, <2>10 DEF ToSet
    <3>2. p = n + 1
      BY <2>5, <2>9, <3>1
    <3>3. rest = list
      <4>1. \A i \in 1..n : rest[i] = list[i]
        BY <2>5, <2>9, <3>2
      <4>. QED
        BY <2>3, <2>9, <4>1, SeqEqual
    <3>4. Among(list, T) = list
      <4>1. ToSet(list) \cap T = ToSet(list) \cap S
        BY <1>1, <2>2, <2>10
      <4>2. Among(list, T) = Among(list, S)
        BY <4>1, AmongSame
      <4>. QED
        BY <4>2, AmongAll
    <3>5. last \notin T
      BY <1>1, <2>10
    <3>. QED
      BY <2>1, <2>5, <2>9, <3>3, <3>4, <3>5
  <2>11. CASE item # last
    <3>1. item \in ToSet(list) /\ last \in T
      BY <1>1, <1>2, <2>2, <2>11
    <3>2. PICK shorter \in Seq(S), q \in 1..n :
            /\ shorter = RemoveFirst(list, item) /\ Len(shorter) = n - 1 /\ list[q] = item
            /\ \A i \in 1..(n - 1) : shorter[i] = IF i < q THEN list[i] ELSE list[i + 1]
      BY <2>2, <2>3, <3>1, RemoveFirstAt
    <3>3. p = q
      <4>1. p \in 1..n
        BY <2>5, <2>9, <2>11
      <4>. QED
        BY <2>2, <2>3, <2>5, <2>9, <3>2, <4>1 DEF IsInjective
    <3>4. PICK both \in Seq(S) : both = Append(shorter, last)
      BY AppendProperties
    <3>5. /\ both = Append(shorter, last) /\ Len(both) = (n - 1) + 1 /\ both[(n - 1) + 1] = last
          /\ \A i \in 1..(n - 1) : both[i] = shorter[i]
      BY <3>2, <3>4
    <3>6. Len(both) = n /\ both[n] = last
      BY <3>5
    <3>7. ASSUME NEW i \in 1..n PROVE rest[i] = both[i]
      <4>1. CASE i = n
        <5>1. i \in 1..n /\ i + 1 = n + 1
          BY <4>1
        <5>2. rest[i] = IF i < p THEN longer[i] ELSE longer[i + 1]
          BY <2>9
        <5>3. ~(i < p)
          BY <3>3, <4>1
        <5>. QED
          BY <2>5, <3>6, <4>1, <5>1, <5>2, <5>3
      <4>2. CASE i # n
        <5>1. i \in 1..(n - 1) /\ i + 1 \in 1..n
          BY <4>2
        <5>2. rest[i] = IF i < p THEN longer[i] ELSE longer[i + 1]
          BY <2>9
        <5>3. longer[i] = list[i] /\ longer[i + 1] = list[i + 1]
          BY <2>5, <5>1
        <5>4. both[i] = IF i < q THEN list[i] ELSE list[i + 1]
          BY <3>2, <3>5, <5>1
        <5>. QED
          BY <3>3, <5>2, <5>3, <5>4
      <4>. QED
        BY <4>1, <4>2
    <3>8. rest = both
      BY <2>9, <3>6, <3>7, SeqEqual
    <3>9. RemoveFirst(list, item) = Among(list, T)
      BY <1>2, <2>2, <3>1
    <3>. QED
      BY <2>1, <2>5, <2>9, <3>1, <3>2, <3>5, <3>8, <3>9
  <2>. QED
    BY <2>10, <2>11
<1>. DEFINE P == {list \in Seq(S) :
                    IsInjective(list) /\ item \in ToSet(list)
                      => RemoveFirst(list, item) = Among(list, T)}
<1>3. <<>> \in P
  BY DEF ToSet
<1>4. ASSUME NEW list \in Seq(S), NEW last \in S, list \in P PROVE Append(list, last) \in P
  <2>1. Append(list, last) \in Seq(S)
    BY AppendProperties
  <2>2. IsInjective(list) /\ item \in ToSet(list) => RemoveFirst(list, item) = Among(list, T)
    BY <1>4
  <2>. QED
    BY <1>2, <2>1, <2>2
<1>5. \A list \in Seq(S) : list \in P
  <2>. HIDE DEF P
  <2>. QED
    BY <1>3, <1>4, ListInduction
<1>. QED
  BY <1>1, <1>5

\* Moving an item to the front, or adding it there: the others keep their order.
LEMMA SpliceIsCons ==
  ASSUME NEW S, NEW list \in Seq(S), IsInjective(list), NEW item \in S
  PROVE  SpliceToFront(list, item) = Cons(item, Among(list, S \ {item}))
<1>1. CASE item \in ToSet(list)
  BY <1>1, AmongOthers DEF SpliceToFront
<1>2. CASE item \notin ToSet(list)
  <2>1. PICK T : T = S \ {item}
    OBVIOUS
  <2>2. ToSet(list) \cap T = ToSet(list) \cap S
    BY <1>2, <2>1
  <2>3. Among(list, T) = list
    BY <2>2, AmongSame, AmongAll
  <2>4. SpliceToFront(list, item) = Cons(item, list)
    BY <1>2, SpliceOfAbsent
  <2>. QED
    BY <2>1, <2>3, <2>4
<1>. QED
  BY <1>1, <1>2

\* A list without its last item.
LEMMA FrontIsAmong ==
  ASSUME NEW S, NEW list \in Seq(S), IsInjective(list), list # <<>>
  PROVE  Front(list) = Among(list, S \ {Last(list)})
<1>1. PICK front \in Seq(S), last \in S : front = Front(list) /\ last = Last(list)
  BY AmongFront
<1>2. ToSet(front) = ToSet(list) \ {last}
  BY <1>1, FrontOfInjective
<1>3. PICK T : T = S \ {last}
  OBVIOUS
<1>4. Among(list, T) = IF Last(list) \in T THEN Append(Among(Front(list), T), Last(list))
                       ELSE Among(Front(list), T)
  BY AmongFront
<1>5. ToSet(front) \cap T = ToSet(front) \cap S
  BY <1>2, <1>3
<1>6. Among(front, T) = front
  BY <1>5, AmongSame, AmongAll
<1>. QED
  BY <1>1, <1>3, <1>4, <1>6

\* The last item of a list may as well be the first of the one that follows.
LEMMA LastBecomesFirst ==
  ASSUME NEW S, NEW list \in Seq(S), list # <<>>, NEW next \in Seq(S)
  PROVE  Front(list) \o Cons(Last(list), next) = list \o next
<1>1. PICK front \in Seq(S), last \in S :
        /\ front = Front(list) /\ last = Last(list)
        /\ Len(front) = Len(list) - 1 /\ \A i \in 1..(Len(list) - 1) : front[i] = list[i]
  BY FrontFacts
<1>2. list = Append(front, last)
  <2>1. Len(list) \in Nat \ {0} /\ last = list[Len(list)]
    BY <1>1, EmptySeq DEF Last
  <2>2. PICK longer \in Seq(S) : longer = Append(front, last)
    BY AppendProperties
  <2>3. Len(longer) = Len(list) /\ \A i \in 1..Len(list) : longer[i] = list[i]
    BY <1>1, <2>1, <2>2
  <2>. QED
    BY <2>2, <2>3, SeqEqual
<1>3. <<last>> \in Seq(S) /\ Append(front, last) = front \o <<last>>
  BY AppendIsConcat
<1>4. front \o (<<last>> \o next) = (front \o <<last>>) \o next
  BY <1>3, ConcatAssociative
<1>. QED
  BY <1>1, <1>2, <1>3, <1>4 DEF Cons
-----------------------------------------------------------------------------
(***************************************************************************)
(* Lists made by counting, and lists made of other lists.                  *)
(***************************************************************************)

\* What is computed step by step from a first value.
IsCounted(f, n, V, base, step) ==
  /\ f \in [0..n -> V]
  /\ f[0] = base
  /\ \A i \in 1..n : f[i] = step[<<i, f[i - 1]>>]

\* There is such a function.
LEMMA CountedRecursion ==
  ASSUME NEW n \in Nat, NEW V, NEW base \in V, NEW step \in [(1..n) \X V -> V]
  PROVE  \E f : IsCounted(f, n, V, base, step)
<1>. DEFINE Upto(f, m) ==
              /\ f \in [0..m -> V]
              /\ f[0] = base /\ \A i \in 1..m : f[i] = step[<<i, f[i - 1]>>]
            P == {m \in Nat : m <= n => \E f : Upto(f, m)}
<1>1. 0 \in P
  <2>1. PICK f : f = [i \in 0..0 |-> base]
    OBVIOUS
  <2>2. Upto(f, 0)
    BY <2>1
  <2>. QED
    BY <2>2
<1>2. ASSUME NEW m \in Nat, m \in P PROVE m + 1 \in P
  <2>. SUFFICES ASSUME m + 1 <= n PROVE \E f : Upto(f, m + 1)
    OBVIOUS
  <2>1. PICK f : Upto(f, m)
    BY <1>2
  <2>2. m \in 0..m /\ f[m] \in V /\ m + 1 \in 1..n
    BY <2>1
  <2>3. PICK next \in V : next = step[<<m + 1, f[m]>>]
    BY <2>2
  <2>4. PICK g : g = [i \in 0..(m + 1) |-> IF i = m + 1 THEN next ELSE f[i]]
    OBVIOUS
  <2>5. g \in [0..(m + 1) -> V]
    BY <2>1, <2>4
  <2>6. g[0] = base
    BY <2>1, <2>4
  <2>7. ASSUME NEW i \in 1..(m + 1) PROVE g[i] = step[<<i, g[i - 1]>>]
    <3>1. i - 1 \in 0..m /\ g[i - 1] = f[i - 1] /\ i \in 0..(m + 1)
      BY <2>4
    <3>2. CASE i = m + 1
      <4>1. i - 1 = m /\ g[i] = next /\ g[i - 1] = f[m]
        BY <2>4, <3>1, <3>2
      <4>. QED
        BY <2>3, <3>2, <4>1
    <3>3. CASE i # m + 1
      <4>1. i \in 1..m /\ g[i] = f[i]
        BY <2>4, <3>1, <3>3
      <4>. QED
        BY <2>1, <3>1, <4>1
    <3>. QED
      BY <3>2, <3>3
  <2>. QED
    BY <2>5, <2>6, <2>7
<1>3. n \in P
  <2>1. P \in SUBSET Nat /\ \A m \in P : m + 1 \in P
    BY <1>2
  <2>. HIDE DEF P
  <2>2. \A m \in Nat : m \in P
    BY <1>1, <2>1, Induction
  <2>. QED
    BY <2>2
<1>. QED
  BY <1>3 DEF IsCounted

\* Two lists one after the other have the items of both, each once if they have
\* none in common.
LEMMA ConcatItems ==
  ASSUME NEW S, NEW s \in Seq(S), NEW t \in Seq(S)
  PROVE  /\ ToSet(s \o t) = ToSet(s) \cup ToSet(t)
         /\ IsInjective(s) /\ IsInjective(t) /\ ToSet(s) \cap ToSet(t) = {}
              => IsInjective(s \o t)
<1>1. PICK k \in Nat, l \in Nat : k = Len(s) /\ l = Len(t)
  OBVIOUS
<1>2. PICK all \in Seq(S) :
        /\ all = s \o t /\ Len(all) = k + l
        /\ \A j \in 1..(k + l) : all[j] = IF j <= k THEN s[j] ELSE t[j - k]
  <2>1. /\ s \o t \in Seq(S) /\ Len(s \o t) = Len(s) + Len(t)
        /\ \A j \in 1..(Len(s) + Len(t)) :
             (s \o t)[j] = IF j <= Len(s) THEN s[j] ELSE t[j - Len(s)]
    BY ConcatProperties
  <2>. QED
    BY <1>1, <2>1
<1>3. /\ DOMAIN s = 1..k /\ DOMAIN t = 1..l /\ DOMAIN all = 1..(k + l)
  BY <1>1, <1>2
<1>4. ASSUME NEW x \in ToSet(s) PROVE x \in ToSet(all)
  <2>1. PICK j \in 1..k : x = s[j]
    BY <1>3 DEF ToSet
  <2>2. j \in 1..(k + l) /\ all[j] = x
    BY <1>2, <2>1
  <2>. QED
    BY <1>3, <2>2 DEF ToSet
<1>5. ASSUME NEW x \in ToSet(t) PROVE x \in ToSet(all)
  <2>1. PICK j \in 1..l : x = t[j]
    BY <1>3 DEF ToSet
  <2>2. k + j \in 1..(k + l) /\ ~(k + j <= k) /\ (k + j) - k = j
    OBVIOUS
  <2>3. all[k + j] = x
    BY <1>2, <2>1, <2>2
  <2>. QED
    BY <1>3, <2>2, <2>3 DEF ToSet
<1>6. ASSUME NEW x \in ToSet(all) PROVE x \in ToSet(s) \cup ToSet(t)
  <2>1. PICK j \in 1..(k + l) : x = all[j]
    BY <1>3 DEF ToSet
  <2>2. CASE j <= k
    <3>1. j \in 1..k /\ x = s[j]
      BY <1>2, <2>1, <2>2
    <3>. QED
      BY <1>3, <3>1 DEF ToSet
  <2>3. CASE ~(j <= k)
    <3>1. j - k \in 1..l /\ x = t[j - k]
      BY <1>2, <2>1, <2>3
    <3>. QED
      BY <1>3, <3>1 DEF ToSet
  <2>. QED
    BY <2>2, <2>3
<1>7. ASSUME IsInjective(s), IsInjective(t), ToSet(s) \cap ToSet(t) = {}
      PROVE  IsInjective(all)
  <2>1. \A j \in 1..k : s[j] \in ToSet(s)
    BY <1>3 DEF ToSet
  <2>2. \A j \in 1..l : t[j] \in ToSet(t)
    BY <1>3 DEF ToSet
  <2>3. \A j \in 1..k : all[j] = s[j]
    BY <1>2
  <2>4. \A j \in 1..(k + l) : j > k => all[j] = t[j - k] /\ j - k \in 1..l
    BY <1>2
  <2>5. \A i, j \in 1..k : s[i] = s[j] => i = j
    BY <1>3, <1>7 DEF IsInjective
  <2>6. \A i, j \in 1..l : t[i] = t[j] => i = j
    BY <1>3, <1>7 DEF IsInjective
  <2>7. ASSUME NEW i \in 1..(k + l), NEW j \in 1..(k + l), all[i] = all[j] PROVE i = j
    <3>1. CASE i <= k /\ j <= k
      BY <2>3, <2>5, <2>7, <3>1
    <3>2. CASE i > k /\ j > k
      <4>1. i - k = j - k
        BY <2>4, <2>6, <2>7, <3>2
      <4>. QED
        BY <4>1
    <3>3. CASE i <= k /\ j > k
      <4>1. all[i] \in ToSet(s) /\ all[j] \in ToSet(t)
        BY <2>1, <2>2, <2>3, <2>4, <3>3
      <4>. QED
        BY <1>7, <2>7, <4>1
    <3>4. CASE i > k /\ j <= k
      <4>1. all[j] \in ToSet(s)
        <5>1. j \in 1..k
          BY <3>4
        <5>. QED
          BY <2>1, <2>3, <5>1
      <4>2. all[i] \in ToSet(t)
        BY <2>2, <2>4, <3>4
      <4>. QED
        BY <1>7, <2>7, <4>1, <4>2
    <3>. QED
      BY <3>1, <3>2, <3>3, <3>4
  <2>. QED
    BY <1>3, <2>7 DEF IsInjective
<1>. QED
  BY <1>2, <1>4, <1>5, <1>6, <1>7

\* What lists become when they are put one after the other.
IsFlattened(flat, S, lists) ==
  /\ flat \in [1..Len(lists) -> Seq(S)]
  /\ flat[1] = lists[1]
  /\ \A i \in 1..(Len(lists) - 1) : flat[i + 1] = flat[i] \o lists[i + 1]

\* FlattenSeq puts them one after the other.
LEMMA FlattenFold ==
  ASSUME NEW S, NEW lists \in Seq(Seq(S)), lists # <<>>
  PROVE  \E flat : IsFlattened(flat, S, lists) /\ FlattenSeq(lists) = flat[Len(lists)]
<1>1. PICK n \in Nat : n = Len(lists) /\ DOMAIN lists = 1..n /\ n # 0
  OBVIOUS
<1>. DEFINE step == [a \in (1..n) \X Seq(S) |-> a[2] \o lists[a[1]]]
<1>2. step \in [(1..n) \X Seq(S) -> Seq(S)]
  BY <1>1
<1>3. \A i \in 1..n, v \in Seq(S) : step[<<i, v>>] = v \o lists[i]
  OBVIOUS
<1>. HIDE DEF step
<1>4. PICK none \in Seq(S) : none = <<>>
  <2>1. <<>> \in Seq(S)
    OBVIOUS
  <2>. QED
    BY <2>1
<1>5. PICK f \in [0..n -> Seq(S)] :
        f[0] = none /\ \A i \in 1..n : f[i] = step[<<i, f[i - 1]>>]
  <2>1. PICK f : IsCounted(f, n, Seq(S), none, step)
    BY <1>2, CountedRecursion
  <2>. QED
    BY <2>1 DEF IsCounted
<1>6. \A i \in 1..n : f[i] \in Seq(S) /\ f[i - 1] \in Seq(S) /\ f[i] = f[i - 1] \o lists[i]
  <2>. TAKE i \in 1..n
  <2>1. i - 1 \in 0..n /\ i \in 0..n
    OBVIOUS
  <2>. QED
    BY <1>3, <1>5, <2>1
<1>7. f[1] = lists[1]
  <2>1. PICK one \in 1..n : one = 1 /\ one - 1 = 0
    BY <1>1
  <2>2. f[one] = f[one - 1] \o lists[one]
    BY <1>6
  <2>3. lists[one] \in Seq(S)
    BY <1>1
  <2>4. f[1] = none \o lists[1] /\ lists[1] \in Seq(S)
    BY <1>5, <2>1, <2>2, <2>3
  <2>. QED
    BY <1>4, <2>4
<1>. DEFINE Eq(g) == g = [i \in 1..n |-> IF i = 1 THEN lists[i] ELSE g[i - 1] \o lists[i]]
<1>8. PICK h : h = [i \in 1..n |-> f[i]]
  OBVIOUS
<1>9. Eq(h)
  <2>1. ASSUME NEW i \in 1..n
        PROVE  h[i] = IF i = 1 THEN lists[i] ELSE h[i - 1] \o lists[i]
    <3>1. CASE i = 1
      BY <1>7, <1>8, <3>1
    <3>2. CASE i # 1
      <4>1. i - 1 \in 1..n
        BY <3>2
      <4>. QED
        BY <1>6, <1>8, <3>2, <4>1
    <3>. QED
      BY <3>1, <3>2
  <2>2. h = [i \in 1..n |-> h[i]]
    BY <1>8
  <2>. QED
    BY <2>1, <2>2
<1>. DEFINE c == CHOOSE g : Eq(g)
<1>10. Eq(c)
  BY <1>9
<1>11. FlattenSeq(lists) = c[n]
  BY <1>1, SMTT(30) DEF FlattenSeq
<1>12. \A i \in 1..n : c[i] = IF i = 1 THEN lists[i] ELSE c[i - 1] \o lists[i]
  BY <1>10, ZenonT(40)
<1>13. c = [i \in 1..n |-> c[i]]
  BY <1>10, ZenonT(40)
<1>. HIDE DEF c, Eq
<1>. DEFINE P == {i \in Nat : i \in 1..n => c[i] = f[i]}
<1>14. ASSUME NEW i \in P PROVE i + 1 \in P
  <2>. SUFFICES ASSUME i + 1 \in 1..n PROVE c[i + 1] = f[i + 1]
    OBVIOUS
  <2>1. i \in Nat /\ (i + 1) - 1 = i
    OBVIOUS
  <2>2. CASE i = 0
    <3>1. 1 \in 1..n
      BY <2>2
    <3>2. c[1] = lists[1]
      BY <1>12, <3>1
    <3>. QED
      BY <1>7, <2>2, <3>2
  <2>3. CASE i # 0
    <3>1. i \in 1..n /\ i + 1 # 1
      BY <2>1, <2>3
    <3>2. c[i] = f[i]
      BY <1>14, <3>1
    <3>3. c[i + 1] = c[i] \o lists[i + 1]
      BY <1>12, <2>1, <3>1
    <3>4. f[i + 1] = f[i] \o lists[i + 1]
      BY <1>6, <2>1
    <3>. QED
      BY <3>2, <3>3, <3>4
  <2>. QED
    BY <2>2, <2>3
<1>15. \A i \in 1..n : c[i] = f[i]
  <2>1. P \in SUBSET Nat /\ 0 \in P /\ \A i \in P : i + 1 \in P
    BY <1>14
  <2>2. \A i \in Nat : i \in P
    <3>. HIDE DEF P
    <3>. QED
      BY <2>1, Induction
  <2>. QED
    BY <2>2
<1>16. c \in [1..n -> Seq(S)]
  BY <1>6, <1>13, <1>15
<1>17. c[1] = lists[1]
  <2>1. 1 \in 1..n
    BY <1>1
  <2>. QED
    BY <1>12, <2>1
<1>18. ASSUME NEW i \in 1..(n - 1) PROVE c[i + 1] = c[i] \o lists[i + 1]
  <2>1. i + 1 \in 1..n /\ i + 1 # 1 /\ (i + 1) - 1 = i
    BY <1>1
  <2>. QED
    BY <1>12, <2>1
<1>19. IsFlattened(c, S, lists)
  BY <1>1, <1>16, <1>17, <1>18 DEF IsFlattened
<1>. QED
  BY <1>1, <1>11, <1>19

\* Lists that are put one after the other have the items of all; if no item is
\* in two of them, or in one of them twice, they have every item once.
LEMMA FlattenItems ==
  ASSUME NEW S, NEW lists \in Seq(Seq(S))
  PROVE  /\ FlattenSeq(lists) \in Seq(S)
         /\ ToSet(FlattenSeq(lists)) = UNION {ToSet(lists[i]) : i \in 1..Len(lists)}
         /\ (/\ \A i \in 1..Len(lists) : IsInjective(lists[i])
             /\ \A i, j \in 1..Len(lists) : i # j => ToSet(lists[i]) \cap ToSet(lists[j]) = {})
              => IsInjective(FlattenSeq(lists))
<1>1. PICK n \in Nat : n = Len(lists) /\ DOMAIN lists = 1..n
  OBVIOUS
<1>2. CASE n = 0
  <2>1. lists = <<>> /\ FlattenSeq(lists) = <<>>
    BY <1>1, <1>2 DEF FlattenSeq
  <2>2. {ToSet(lists[i]) : i \in 1..Len(lists)} = {}
    BY <1>1, <1>2
  <2>3. ToSet(<<>>) = {} /\ UNION {} = {} /\ <<>> \in Seq(S) /\ IsInjective(<<>>)
    BY DEF ToSet, IsInjective
  <2>. QED
    BY <2>1, <2>2, <2>3
<1>3. CASE n # 0
  <2>1. PICK flat : IsFlattened(flat, S, lists) /\ FlattenSeq(lists) = flat[Len(lists)]
    <3>1. lists # <<>>
      BY <1>1, <1>3
    <3>. QED
      BY <3>1, FlattenFold
  <2>2. /\ flat \in [1..n -> Seq(S)] /\ flat[1] = lists[1]
        /\ \A i \in 1..(n - 1) : flat[i + 1] = flat[i] \o lists[i + 1]
        /\ FlattenSeq(lists) = flat[n]
    BY <1>1, <2>1 DEF IsFlattened
  <2>. DEFINE Once == /\ \A i \in 1..n : IsInjective(lists[i])
                      /\ \A i, j \in 1..n : i # j => ToSet(lists[i]) \cap ToSet(lists[j]) = {}
              P == {i \in Nat : i \in 1..n =>
                      /\ ToSet(flat[i]) = UNION {ToSet(lists[j]) : j \in 1..i}
                      /\ Once => IsInjective(flat[i])}
  <2>3. 0 \in P
    OBVIOUS
  <2>4. ASSUME NEW i \in Nat, i \in P PROVE i + 1 \in P
    <3>. SUFFICES ASSUME i + 1 \in 1..n
                  PROVE  /\ ToSet(flat[i + 1]) = UNION {ToSet(lists[j]) : j \in 1..(i + 1)}
                         /\ Once => IsInjective(flat[i + 1])
      <4>. HIDE DEF Once
      <4>. QED
        OBVIOUS
    <3>1. CASE i = 0
      <4>1. i + 1 = 1 /\ 1 \in 1..n /\ 1..1 = {1}
        BY <3>1
      <4>2. UNION {ToSet(lists[j]) : j \in {1}} = ToSet(lists[1])
        OBVIOUS
      <4>. QED
        BY <2>2, <4>1, <4>2
    <3>2. CASE i # 0
      <4>1. i \in 1..n /\ i \in 1..(n - 1)
        BY <3>2
      <4>2. /\ ToSet(flat[i]) = UNION {ToSet(lists[j]) : j \in 1..i}
            /\ Once => IsInjective(flat[i])
        BY <2>4, <4>1
      <4>3. PICK s \in Seq(S), t \in Seq(S) : s = flat[i] /\ t = lists[i + 1]
        BY <1>1, <2>2, <4>1, SMTT(30)
      <4>4. flat[i + 1] = s \o t
        BY <2>2, <4>1, <4>3
      <4>5. ToSet(s \o t) = ToSet(s) \cup ToSet(t)
        BY ConcatItems
      <4>6. 1..(i + 1) = (1..i) \cup {i + 1}
        OBVIOUS
      <4>7. ToSet(flat[i + 1]) = UNION {ToSet(lists[j]) : j \in 1..(i + 1)}
        <5>1. (UNION {ToSet(lists[j]) : j \in 1..i}) \cup ToSet(lists[i + 1])
                = UNION {ToSet(lists[j]) : j \in 1..(i + 1)}
          BY <4>6
        <5>. QED
          BY <4>2, <4>3, <4>4, <4>5, <5>1
      <4>8. ASSUME Once PROVE IsInjective(flat[i + 1])
        <5>1. IsInjective(s) /\ IsInjective(t)
          BY <4>2, <4>3, <4>8
        <5>2. \A j \in 1..i : ToSet(lists[j]) \cap ToSet(lists[i + 1]) = {}
          <6>. TAKE j \in 1..i
          <6>1. j \in 1..n /\ j # i + 1
            BY <4>1
          <6>. QED
            BY <4>8, <6>1
        <5>3. ToSet(s) \cap ToSet(t) = {}
          BY <4>2, <4>3, <5>2
        <5>. QED
          BY <4>4, <5>1, <5>3, ConcatItems
      <4>. QED
        BY <4>7, <4>8
    <3>. QED
      BY <3>1, <3>2
  <2>5. n \in P
    <3>1. P \in SUBSET Nat /\ \A i \in P : i + 1 \in P
      BY <2>4
    <3>. HIDE DEF P
    <3>2. \A i \in Nat : i \in P
      BY <2>3, <3>1, Induction
    <3>. QED
      BY <3>2
  <2>6. n \in 1..n
    BY <1>3
  <2>7. /\ ToSet(flat[n]) = UNION {ToSet(lists[j]) : j \in 1..n}
        /\ Once => IsInjective(flat[n])
    BY <2>5, <2>6
  <2>. QED
    BY <1>1, <2>2, <2>6, <2>7
<1>. QED
  BY <1>2, <1>3

\* A list of the items of another under a function.
IsMapped(mapped, U, f, v) ==
  /\ mapped \in Seq(U) /\ Len(mapped) = Len(v)
  /\ \A a \in ToSet(v) : f[a] \in ToSet(mapped)
  /\ \A u \in ToSet(mapped) : \E a \in ToSet(v) : u = f[a]
  /\ IsInjective(v) /\ (\A a, b \in ToSet(v) : f[a] = f[b] => a = b) => IsInjective(mapped)

LEMMA MappedItems ==
  ASSUME NEW A, NEW U, NEW f \in [A -> U], NEW v \in Seq(A), NEW mapped,
         mapped = [i \in DOMAIN v |-> f[v[i]]]
  PROVE  IsMapped(mapped, U, f, v)
<1>1. PICK n \in Nat : n = Len(v) /\ DOMAIN v = 1..n /\ \A i \in 1..n : v[i] \in A
  OBVIOUS
<1>2. mapped \in [1..n -> U] /\ \A i \in 1..n : mapped[i] = f[v[i]]
  BY <1>1
<1>3. mapped \in Seq(U) /\ Len(mapped) = n /\ DOMAIN mapped = 1..n
  BY <1>2
<1>4. \A i \in 1..n : v[i] \in ToSet(v) /\ mapped[i] \in ToSet(mapped)
  BY <1>1, <1>3 DEF ToSet
<1>5. ASSUME NEW a \in ToSet(v) PROVE f[a] \in ToSet(mapped)
  <2>1. PICK i \in 1..n : a = v[i]
    BY <1>1 DEF ToSet
  <2>. QED
    BY <1>2, <1>4, <2>1
<1>6. ASSUME NEW u \in ToSet(mapped) PROVE \E a \in ToSet(v) : u = f[a]
  <2>1. PICK i \in 1..n : u = mapped[i]
    BY <1>3 DEF ToSet
  <2>. QED
    BY <1>2, <1>4, <2>1
<1>7. ASSUME IsInjective(v), \A a, b \in ToSet(v) : f[a] = f[b] => a = b
      PROVE  IsInjective(mapped)
  <2>1. \A i, j \in 1..n : v[i] = v[j] => i = j
    BY <1>1, <1>7 DEF IsInjective
  <2>2. \A i, j \in 1..n : mapped[i] = mapped[j] => i = j
    BY <1>2, <1>4, <1>7, <2>1
  <2>. QED
    BY <1>3, <2>2 DEF IsInjective
<1>. QED
  BY <1>1, <1>3, <1>5, <1>6, <1>7 DEF IsMapped

\* The lists that belong to the items of a list, one after the other: what
\* nested loops append.
IsCombined(all, U, lists, v) ==
  /\ all \in Seq(U)
  /\ \A a \in ToSet(v) : \A u \in ToSet(lists[a]) : u \in ToSet(all)
  /\ \A u \in ToSet(all) : \E a \in ToSet(v) : u \in ToSet(lists[a])
  /\ (/\ IsInjective(v) /\ \A a \in ToSet(v) : IsInjective(lists[a])
      /\ \A a, b \in ToSet(v) : a # b => ToSet(lists[a]) \cap ToSet(lists[b]) = {})
       => IsInjective(all)

LEMMA CombinedItems ==
  ASSUME NEW A, NEW U, NEW lists \in [A -> Seq(U)], NEW v \in Seq(A), NEW all,
         all = FlattenSeq([i \in DOMAIN v |-> lists[v[i]]])
  PROVE  IsCombined(all, U, lists, v)
<1>1. PICK n \in Nat : n = Len(v) /\ DOMAIN v = 1..n /\ \A i \in 1..n : v[i] \in A
  OBVIOUS
<1>2. PICK parts \in Seq(Seq(U)) :
        /\ parts = [i \in DOMAIN v |-> lists[v[i]]]
        /\ Len(parts) = n
        /\ \A i \in 1..n : parts[i] = lists[v[i]]
  <2>1. PICK parts : parts = [i \in DOMAIN v |-> lists[v[i]]]
    OBVIOUS
  <2>2. parts \in Seq(Seq(U)) /\ Len(parts) = Len(v)
    <3>1. PICK W : W = Seq(U)
      OBVIOUS
    <3>2. lists \in [A -> W]
      BY <3>1
    <3>3. IsMapped(parts, W, lists, v)
      BY <2>1, <3>2, MappedItems
    <3>. QED
      BY <3>1, <3>3 DEF IsMapped
  <2>. QED
    BY <1>1, <2>1, <2>2
<1>3. /\ all \in Seq(U)
      /\ ToSet(all) = UNION {ToSet(parts[i]) : i \in 1..n}
      /\ (/\ \A i \in 1..n : IsInjective(parts[i])
          /\ \A i, j \in 1..n : i # j => ToSet(parts[i]) \cap ToSet(parts[j]) = {})
            => IsInjective(all)
  <2>. DEFINE Once == /\ \A i \in 1..Len(parts) : IsInjective(parts[i])
                      /\ \A i, j \in 1..Len(parts) :
                           i # j => ToSet(parts[i]) \cap ToSet(parts[j]) = {}
  <2>1. /\ FlattenSeq(parts) \in Seq(U)
        /\ ToSet(FlattenSeq(parts)) = UNION {ToSet(parts[i]) : i \in 1..Len(parts)}
    BY FlattenItems
  <2>2. Once => IsInjective(FlattenSeq(parts))
    BY FlattenItems
  <2>. QED
    BY <1>2, <2>1, <2>2
<1>4. \A i \in 1..n : v[i] \in ToSet(v)
  BY <1>1 DEF ToSet
<1>5. ASSUME NEW a \in ToSet(v), NEW u \in ToSet(lists[a]) PROVE u \in ToSet(all)
  <2>1. PICK i \in 1..n : a = v[i]
    BY <1>1 DEF ToSet
  <2>2. u \in ToSet(parts[i])
    BY <1>2, <2>1
  <2>. QED
    BY <1>3, <2>2
<1>6. ASSUME NEW u \in ToSet(all) PROVE \E a \in ToSet(v) : u \in ToSet(lists[a])
  <2>1. PICK i \in 1..n : u \in ToSet(parts[i])
    BY <1>3
  <2>. QED
    BY <1>2, <1>4, <2>1
<1>7. ASSUME IsInjective(v), \A a \in ToSet(v) : IsInjective(lists[a]),
             \A a, b \in ToSet(v) : a # b => ToSet(lists[a]) \cap ToSet(lists[b]) = {}
      PROVE  IsInjective(all)
  <2>1. \A i \in 1..n : IsInjective(parts[i])
    BY <1>2, <1>4, <1>7
  <2>2. \A i, j \in 1..n : i # j => v[i] # v[j]
    BY <1>1, <1>7 DEF IsInjective
  <2>3. \A i, j \in 1..n : i # j => ToSet(parts[i]) \cap ToSet(parts[j]) = {}
    <3>. TAKE i, j \in 1..n
    <3>. HAVE i # j
    <3>1. v[i] # v[j] /\ v[i] \in ToSet(v) /\ v[j] \in ToSet(v)
      BY <1>4, <2>2
    <3>2. ToSet(lists[v[i]]) \cap ToSet(lists[v[j]]) = {}
      BY <1>7, <3>1
    <3>. QED
      BY <1>2, <3>2
  <2>. QED
    BY <1>3, <2>1, <2>3
<1>. QED
  BY <1>3, <1>5, <1>6, <1>7 DEF IsCombined

\* The lists that one of some items makes of a list.
Extended(chosen, strategies) == [j \in DOMAIN strategies |-> Append(chosen, strategies[j])]

\* They are different, and different for different lists.
LEMMA AppendedInjective ==
  ASSUME NEW S, NEW a \in Seq(S), NEW b \in Seq(S), NEW x \in S, NEW y \in S,
         Append(a, x) = Append(b, y)
  PROVE  a = b /\ x = y
<1>1. PICK k \in Nat, l \in Nat : k = Len(a) /\ l = Len(b)
  OBVIOUS
<1>2. PICK longer : longer = Append(a, x)
  OBVIOUS
<1>3. longer = Append(b, y)
  BY <1>2
<1>4. Len(longer) = k + 1 /\ longer[k + 1] = x /\ \A i \in 1..k : longer[i] = a[i]
  BY <1>1, <1>2, AppendProperties
<1>5. Len(longer) = l + 1 /\ longer[l + 1] = y /\ \A i \in 1..l : longer[i] = b[i]
  BY <1>1, <1>3, AppendProperties
<1>6. k = l
  BY <1>4, <1>5
<1>7. x = y /\ \A i \in 1..k : a[i] = b[i]
  BY <1>4, <1>5, <1>6
<1>8. a = [i \in 1..k |-> a[i]] /\ b = [i \in 1..l |-> b[i]]
  BY <1>1
<1>. QED
  BY <1>6, <1>7, <1>8
\* They are all of those.
IsExtended(lists, S, chosen, strategies) ==
  /\ lists \in Seq(Seq(S))
  /\ \A strategy \in ToSet(strategies) : Append(chosen, strategy) \in ToSet(lists)
  /\ \A list \in ToSet(lists) : \E strategy \in ToSet(strategies) : list = Append(chosen, strategy)
  /\ IsInjective(strategies) => IsInjective(lists)

LEMMA ExtendedItems ==
  ASSUME NEW S, NEW strategies \in Seq(S), NEW chosen \in Seq(S)
  PROVE  IsExtended(Extended(chosen, strategies), S, chosen, strategies)
<1>1. PICK f \in [S -> Seq(S)] : f = [strategy \in S |-> Append(chosen, strategy)]
  <2>1. [strategy \in S |-> Append(chosen, strategy)] \in [S -> Seq(S)]
    BY AppendProperties
  <2>. QED
    BY <2>1
<1>2. PICK mapped : mapped = [i \in DOMAIN strategies |-> f[strategies[i]]]
  OBVIOUS
<1>3. mapped = Extended(chosen, strategies)
  <2>1. \A i \in DOMAIN strategies : strategies[i] \in S
    OBVIOUS
  <2>. QED
    BY <1>1, <1>2, <2>1 DEF Extended
<1>4. ToSet(strategies) \subseteq S
  BY DEF ToSet
<1>5. \A a \in ToSet(strategies) : f[a] = Append(chosen, a)
  BY <1>1, <1>4
<1>6. \A a, b \in ToSet(strategies) : f[a] = f[b] => a = b
  <2>. TAKE a, b \in ToSet(strategies)
  <2>1. a \in S /\ b \in S
    BY <1>4
  <2>2. Append(chosen, a) = Append(chosen, b) => a = b
    BY <2>1, AppendedInjective
  <2>. QED
    BY <1>5, <2>2
<1>7. /\ mapped \in Seq(Seq(S))
      /\ \A a \in ToSet(strategies) : f[a] \in ToSet(mapped)
      /\ \A u \in ToSet(mapped) : \E a \in ToSet(strategies) : u = f[a]
      /\ IsInjective(strategies) /\ (\A a, b \in ToSet(strategies) : f[a] = f[b] => a = b)
           => IsInjective(mapped)
  <2>1. IsMapped(mapped, Seq(S), f, strategies)
    BY <1>2, MappedItems
  <2>. QED
    BY <2>1 DEF IsMapped
<1>. QED
  <2>1. \A a \in ToSet(strategies) : Append(chosen, a) \in ToSet(mapped)
    BY <1>5, <1>7
  <2>2. \A u \in ToSet(mapped) : \E a \in ToSet(strategies) : u = Append(chosen, a)
    BY <1>5, <1>7
  <2>3. IsInjective(strategies) => IsInjective(mapped)
    BY <1>6, <1>7
  <2>4. IsExtended(mapped, S, chosen, strategies)
    BY <1>7, <2>1, <2>2, <2>3 DEF IsExtended
  <2>. QED
    BY <1>3, <2>4

\* A list of lists, each with one more item: all of them, and each once if the
\* lists and the items are.
IsLonger(all, S, strategies, v) ==
  /\ all \in Seq(Seq(S))
  /\ \A chosen \in ToSet(v), strategy \in ToSet(strategies) : Append(chosen, strategy) \in ToSet(all)
  /\ \A list \in ToSet(all) :
       \E chosen \in ToSet(v), strategy \in ToSet(strategies) : list = Append(chosen, strategy)
  /\ IsInjective(v) /\ IsInjective(strategies) => IsInjective(all)

LEMMA LongerItems ==
  ASSUME NEW S, NEW strategies \in Seq(S), NEW v \in Seq(Seq(S)), NEW all,
         all = FlattenSeq([i \in DOMAIN v |-> Extended(v[i], strategies)])
  PROVE  IsLonger(all, S, strategies, v)
<1>1. PICK A : A = Seq(S)
  OBVIOUS
<1>2. PICK lists \in [A -> Seq(A)] : lists = [a \in A |-> Extended(a, strategies)]
  <2>1. \A a \in A : Extended(a, strategies) \in Seq(A)
    BY <1>1, ExtendedItems DEF IsExtended
  <2>2. [a \in A |-> Extended(a, strategies)] \in [A -> Seq(A)]
    BY <2>1
  <2>. QED
    BY <2>2
<1>3. v \in Seq(A) /\ \A i \in DOMAIN v : v[i] \in A
  BY <1>1
<1>4. \A i \in DOMAIN v : lists[v[i]] = Extended(v[i], strategies)
  BY <1>2, <1>3
<1>5. all = FlattenSeq([i \in DOMAIN v |-> lists[v[i]]])
  BY <1>4
<1>6. /\ all \in Seq(A)
      /\ \A a \in ToSet(v) : \A u \in ToSet(lists[a]) : u \in ToSet(all)
      /\ \A u \in ToSet(all) : \E a \in ToSet(v) : u \in ToSet(lists[a])
      /\ (/\ IsInjective(v) /\ \A a \in ToSet(v) : IsInjective(lists[a])
          /\ \A a, b \in ToSet(v) : a # b => ToSet(lists[a]) \cap ToSet(lists[b]) = {})
           => IsInjective(all)
  <2>1. IsCombined(all, A, lists, v)
    BY <1>3, <1>5, CombinedItems
  <2>. QED
    BY <2>1 DEF IsCombined
<1>7. ToSet(v) \subseteq A
  BY <1>3 DEF ToSet
<1>8. ASSUME NEW a \in ToSet(v)
      PROVE  /\ \A strategy \in ToSet(strategies) : Append(a, strategy) \in ToSet(lists[a])
             /\ \A list \in ToSet(lists[a]) :
                  \E strategy \in ToSet(strategies) : list = Append(a, strategy)
             /\ IsInjective(strategies) => IsInjective(lists[a])
  <2>1. a \in Seq(S) /\ lists[a] = Extended(a, strategies)
    BY <1>1, <1>2, <1>7
  <2>2. IsExtended(Extended(a, strategies), S, a, strategies)
    BY <2>1, ExtendedItems
  <2>3. IsExtended(lists[a], S, a, strategies)
    BY <2>1, <2>2
  <2>. QED
    BY <2>3 DEF IsExtended
<1>9. ASSUME NEW a \in ToSet(v), NEW b \in ToSet(v), a # b
      PROVE  ToSet(lists[a]) \cap ToSet(lists[b]) = {}
  <2>. SUFFICES ASSUME NEW list \in ToSet(lists[a]), list \in ToSet(lists[b]) PROVE FALSE
    OBVIOUS
  <2>1. PICK x \in ToSet(strategies) : list = Append(a, x)
    BY <1>8
  <2>2. PICK y \in ToSet(strategies) : list = Append(b, y)
    BY <1>8
  <2>3. a \in Seq(S) /\ b \in Seq(S) /\ x \in S /\ y \in S
    <3>1. ToSet(strategies) \subseteq S
      BY DEF ToSet
    <3>. QED
      BY <1>1, <1>7, <3>1
  <2>4. Append(a, x) = Append(b, y)
    BY <2>1, <2>2
  <2>. QED
    BY <1>9, <2>3, <2>4, AppendedInjective
<1>10. ASSUME NEW chosen \in ToSet(v), NEW strategy \in ToSet(strategies)
       PROVE  Append(chosen, strategy) \in ToSet(all)
  BY <1>6, <1>8
<1>11. ASSUME NEW list \in ToSet(all)
       PROVE  \E chosen \in ToSet(v), strategy \in ToSet(strategies) : list = Append(chosen, strategy)
  <2>1. PICK a \in ToSet(v) : list \in ToSet(lists[a])
    BY <1>6
  <2>. QED
    BY <1>8, <2>1
<1>12. ASSUME IsInjective(v), IsInjective(strategies) PROVE IsInjective(all)
  BY <1>6, <1>8, <1>9, <1>12
<1>. QED
  BY <1>1, <1>6, <1>10, <1>11, <1>12 DEF IsLonger
\* A choice of one more is a choice with an item more.
AreLonger(T, n) ==
  /\ \A chosen \in [1..n -> T], strategy \in T : Append(chosen, strategy) \in [1..(n + 1) -> T]
  /\ \A longer \in [1..(n + 1) -> T] :
       \E chosen \in [1..n -> T], strategy \in T : longer = Append(chosen, strategy)

LEMMA ChoicesLonger ==
  ASSUME NEW T, NEW n \in Nat
  PROVE  AreLonger(T, n)
<1>1. ASSUME NEW chosen \in [1..n -> T], NEW strategy \in T
      PROVE  Append(chosen, strategy) \in [1..(n + 1) -> T]
  <2>1. chosen \in Seq(T) /\ Len(chosen) = n
    OBVIOUS
  <2>2. PICK longer : longer = Append(chosen, strategy)
    OBVIOUS
  <2>3. longer \in Seq(T) /\ Len(longer) = n + 1
    BY <2>1, <2>2, AppendProperties
  <2>4. longer \in [1..(n + 1) -> T]
    BY <2>3
  <2>. QED
    BY <2>2, <2>4
<1>2. ASSUME NEW longer \in [1..(n + 1) -> T]
      PROVE  \E chosen \in [1..n -> T], strategy \in T : longer = Append(chosen, strategy)
  <2>1. PICK chosen \in [1..n -> T] : \A i \in 1..n : chosen[i] = longer[i]
    <3>1. PICK chosen : chosen = [i \in 1..n |-> longer[i]]
      OBVIOUS
    <3>2. chosen \in [1..n -> T]
      BY <3>1
    <3>. QED
      BY <3>1, <3>2
  <2>2. PICK strategy \in T : strategy = longer[n + 1]
    OBVIOUS
  <2>3. chosen \in Seq(T) /\ Len(chosen) = n
    OBVIOUS
  <2>4. PICK other : other = Append(chosen, strategy)
    OBVIOUS
  <2>5. /\ other \in Seq(T) /\ Len(other) = n + 1
        /\ \A i \in 1..n : other[i] = chosen[i]
        /\ other[n + 1] = strategy
    BY <2>3, <2>4, AppendProperties
  <2>6. \A i \in 1..(n + 1) : other[i] = longer[i]
    BY <2>1, <2>2, <2>5
  <2>7. other = [i \in 1..(n + 1) |-> other[i]] /\ longer = [i \in 1..(n + 1) |-> longer[i]]
    BY <2>5
  <2>8. other = longer
    BY <2>6, <2>7
  <2>. QED
    BY <2>4, <2>8
<1>. QED
  BY <1>1, <1>2 DEF AreLonger

LEMMA ImageCardinality ==
  ASSUME NEW S, IsFiniteSet(S), NEW T, NEW f \in [S -> T],
         \A a, b \in S : f[a] = f[b] => a = b,
         \A t \in T : \E a \in S : t = f[a]
  PROVE  IsFiniteSet(T) /\ Cardinality(T) = Cardinality(S)
<1>1. f \in Surjection(S, T)
  BY DEF Surjection
<1>2. f \in Injection(S, T)
  BY DEF Injection, IsInjective
<1>. QED
  BY <1>1, <1>2, FS_Surjection

LEMMA ItemAppended ==
  ASSUME NEW S, NEW n \in Nat, NEW list \in Seq(S), Len(list) = n, NEW item \in S
  PROVE  /\ list \o <<item>> \in Seq(S) /\ Len(list \o <<item>>) = n + 1
         /\ \A i \in 1..n : (list \o <<item>>)[i] = list[i]
         /\ (list \o <<item>>)[n + 1] = item
<1>1. <<item>> \in Seq(S) /\ Len(<<item>>) = 1 /\ <<item>>[1] = item
  OBVIOUS
<1>. QED
  BY <1>1, ConcatProperties

LEMMA NoneMore ==
  ASSUME NEW S, NEW list \in Seq(S)
  PROVE  list \o <<>> = list
BY ConcatEmptySeq

LEMMA OneOrMore == \A n \in Nat : n + 1 >= 2 => n = 1 \/ n >= 2
OBVIOUS

-----------------------------------------------------------------------------
(***************************************************************************)
(* Sets in the order of Python, and changes in a list.                     *)
(***************************************************************************)

\* A list of some items is one of more.
LEMMA WiderSeq ==
  ASSUME NEW S, NEW T, S \subseteq T, NEW s \in Seq(S)
  PROVE  s \in Seq(T)
<1>1. \A i \in 1..Len(s) : s[i] \in T
  OBVIOUS
<1>2. s = [i \in 1..Len(s) |-> s[i]] /\ Len(s) \in Nat
  OBVIOUS
<1>. QED
  BY <1>1, <1>2

\* Python's order of tuples and of bytes is strict and total.
LEMMA PrecedesTotal ==
  ASSUME NEW s \in Seq(Int), NEW t \in Seq(Int)
  PROVE  /\ ~ Precedes(s, s)
         /\ s # t => Precedes(s, t) \/ Precedes(t, s)
<1>1. /\ DOMAIN s = 1..Len(s) /\ \A i \in DOMAIN s : s[i] \in Int
      /\ DOMAIN t = 1..Len(t) /\ \A i \in DOMAIN t : t[i] \in Int
  OBVIOUS
<1>2. ~ Precedes(s, s)
  BY <1>1 DEF Precedes
<1>3. ASSUME s # t PROVE Precedes(s, t) \/ Precedes(t, s)
  <2>1. PICK T \in SUBSET Nat :
          T = {i \in DOMAIN s \cup DOMAIN t : ~ (i \in DOMAIN s /\ i \in DOMAIN t /\ s[i] = t[i])}
    <3>1. DOMAIN s \cup DOMAIN t \in SUBSET Nat
      BY <1>1
    <3>. QED
      BY <3>1
  <2>2. T # {}
    <3>1. SUFFICES ASSUME T = {} PROVE FALSE
      OBVIOUS
    <3>2. \A i \in DOMAIN s \cup DOMAIN t : i \in DOMAIN s /\ i \in DOMAIN t /\ s[i] = t[i]
      BY <2>1, <3>1
    <3>3. DOMAIN s = DOMAIN t
      BY <3>2
    <3>4. Len(s) = Len(t)
      BY <3>3
    <3>. QED
      BY <1>1, <1>3, <3>2, <3>4, SeqEqual
  <2>3. PICK m \in T : \A i \in T : m <= i
    BY <2>2, Smallest
  <2>4. ASSUME NEW j \in 1..(m - 1) PROVE j \in DOMAIN s /\ j \in DOMAIN t /\ s[j] = t[j]
    <3>1. j \in DOMAIN s \cup DOMAIN t /\ ~(m <= j)
      <4>1. m \in 1..Len(s) \/ m \in 1..Len(t)
        BY <1>1, <2>1
      <4>. QED
        BY <1>1, <4>1
    <3>2. j \notin T
      BY <2>3, <3>1
    <3>. QED
      BY <2>1, <3>1, <3>2
  <2>5. CASE m \notin DOMAIN s
    <3>1. m \in DOMAIN t
      BY <2>1, <2>5
    <3>. QED
      BY <2>4, <2>5, <3>1 DEF Precedes
  <2>6. CASE m \notin DOMAIN t
    <3>1. m \in DOMAIN s
      BY <2>1, <2>6
    <3>. QED
      BY <2>4, <2>6, <3>1 DEF Precedes
  <2>7. CASE m \in DOMAIN s /\ m \in DOMAIN t
    <3>1. s[m] # t[m]
      BY <2>1, <2>7
    <3>2. s[m] < t[m] \/ t[m] < s[m]
      BY <1>1, <2>7, <3>1
    <3>. QED
      BY <2>4, <2>7, <3>2 DEF Precedes
  <2>. QED
    BY <2>5, <2>6, <2>7
<1>. QED
  BY <1>2, <1>3

LEMMA PrecedesTransitive ==
  ASSUME NEW s \in Seq(Int), NEW t \in Seq(Int), NEW u \in Seq(Int),
         Precedes(s, t), Precedes(t, u)
  PROVE  Precedes(s, u)
<1>1. /\ DOMAIN s = 1..Len(s) /\ \A i \in DOMAIN s : s[i] \in Int
      /\ DOMAIN t = 1..Len(t) /\ \A i \in DOMAIN t : t[i] \in Int
      /\ DOMAIN u = 1..Len(u) /\ \A i \in DOMAIN u : u[i] \in Int
  OBVIOUS
<1>2. PICK i \in DOMAIN t :
        /\ i \in DOMAIN s => s[i] < t[i]
        /\ \A j \in 1..(i - 1) : j \in DOMAIN s /\ s[j] = t[j]
  BY DEF Precedes
<1>3. PICK l \in DOMAIN u :
        /\ l \in DOMAIN t => t[l] < u[l]
        /\ \A j \in 1..(l - 1) : j \in DOMAIN t /\ t[j] = u[j]
  BY DEF Precedes
<1>4. i \in Nat /\ l \in Nat /\ i >= 1 /\ l >= 1
  BY <1>1
<1>5. CASE i < l
  <2>1. i \in DOMAIN u /\ t[i] = u[i] /\ \A j \in 1..(i - 1) : t[j] = u[j]
    <3>1. l \in Nat /\ l <= Len(u) /\ Len(u) \in Nat
      BY <1>1
    <3>2. i \in 1..Len(u) /\ i \in 1..(l - 1) /\ \A j \in 1..(i - 1) : j \in 1..(l - 1)
      BY <1>4, <1>5, <3>1
    <3>. QED
      BY <1>1, <1>3, <3>2
  <2>. QED
    BY <1>2, <2>1 DEF Precedes
<1>6. CASE i = l
  <2>1. i \in DOMAIN s => s[i] < u[i]
    BY <1>1, <1>2, <1>3, <1>6
  <2>. QED
    BY <1>2, <1>3, <1>6, <2>1 DEF Precedes
<1>7. CASE l < i
  <2>1. l \in DOMAIN s /\ s[l] = t[l] /\ l \in DOMAIN t /\ \A j \in 1..(l - 1) : j \in 1..(i - 1)
    BY <1>1, <1>2, <1>4, <1>7
  <2>. QED
    BY <1>2, <1>3, <2>1 DEF Precedes
<1>. QED
  BY <1>4, <1>5, <1>6, <1>7

\* A strict order of the items of a set, in which any two have a place.
OrdersAll(set, before) ==
  /\ \A x \in set : <<x, x>> \notin before
  /\ \A x, y \in set : x = y \/ <<x, y>> \in before \/ <<y, x>> \in before
  /\ \A x, y, z \in set : <<x, y>> \in before /\ <<y, z>> \in before => <<x, z>> \in before

\* A finite set in such an order: a list of all its items, each once.
LEMMA OrderedItems ==
  ASSUME NEW set, IsFiniteSet(set), NEW before, OrdersAll(set, before)
  PROVE  /\ SortedBy(set, before) \in Seq(set) /\ ToSet(SortedBy(set, before)) = set
         /\ IsInjective(SortedBy(set, before))
<1>1. PICK n \in Nat : n = Cardinality(set)
  BY FS_CardinalityType
<1>2. PICK list : list = SortedBy(set, before)
  OBVIOUS
<1>. DEFINE Below(x) == {y \in set : <<y, x>> \in before}
            Rank(x) == Cardinality(Below(x))
<1>3. \A x \in set : IsFiniteSet(Below(x)) /\ Rank(x) \in Nat /\ Rank(x) \in 0..(n - 1)
  <2>. TAKE x \in set
  <2>1. Below(x) \subseteq set /\ x \notin Below(x)
    BY DEF OrdersAll
  <2>2. Below(x) # set
    BY <2>1
  <2>3. IsFiniteSet(Below(x)) /\ Rank(x) <= n /\ (Rank(x) = n => Below(x) = set)
    BY <1>1, <2>1, FS_Subset
  <2>4. Rank(x) \in Nat
    BY <2>3, FS_CardinalityType
  <2>. QED
    BY <2>2, <2>3, <2>4
<1>4. ASSUME NEW x \in set, NEW y \in set, <<x, y>> \in before PROVE Rank(x) < Rank(y)
  <2>1. Below(x) \subseteq Below(y) /\ x \in Below(y) /\ x \notin Below(x)
    BY <1>4 DEF OrdersAll
  <2>2. Below(x) # Below(y)
    BY <2>1
  <2>3. Rank(x) <= Rank(y) /\ (Rank(x) = Rank(y) => Below(x) = Below(y))
    BY <1>3, <2>1, FS_Subset
  <2>4. Rank(x) \in Nat /\ Rank(y) \in Nat
    <3>. HIDE DEF Rank, Below
    <3>. QED
      BY <1>3
  <2>. QED
    BY <2>2, <2>3, <2>4
<1>5. ASSUME NEW x \in set, NEW y \in set, Rank(x) = Rank(y) PROVE x = y
  <2>1. Rank(x) \in Int /\ Rank(y) \in Int
    <3>. HIDE DEF Rank, Below
    <3>. QED
      BY <1>3
  <2>2. <<x, y>> \notin before /\ <<y, x>> \notin before
    BY <1>4, <1>5, <2>1
  <2>. QED
    BY <2>2 DEF OrdersAll
<1>6. PICK rank : rank = [x \in set |-> Rank(x)]
  OBVIOUS
<1>7. rank \in Injection(set, 0..(n - 1))
  <2>1. rank \in [set -> 0..(n - 1)]
    BY <1>3, <1>6
  <2>2. \A x, y \in set : rank[x] = rank[y] => x = y
    BY <1>5, <1>6
  <2>. QED
    BY <2>1, <2>2 DEF Injection, IsInjective
<1>8. rank \in Surjection(set, 0..(n - 1))
  <2>1. IsFiniteSet(0..(n - 1)) /\ Cardinality(0..(n - 1)) = n
    BY FS_Interval
  <2>. QED
    BY <1>1, <1>7, <2>1, FS_Injection, FS_Surjection, FS_PigeonHole
<1>9. \A i \in 1..n : \E x \in set : Rank(x) = i - 1
  <2>. TAKE i \in 1..n
  <2>1. i - 1 \in 0..(n - 1)
    OBVIOUS
  <2>2. PICK x \in set : rank[x] = i - 1
    BY <1>8, <2>1 DEF Surjection
  <2>. QED
    BY <1>6, <2>2
<1>10. list = [i \in 1..n |-> CHOOSE x \in set : Rank(x) = i - 1]
  BY <1>1, <1>2 DEF SortedBy
<1>11. \A i \in 1..n : list[i] \in set /\ Rank(list[i]) = i - 1
  BY <1>9, <1>10
<1>. HIDE DEF Rank, Below
<1>12. list \in [1..n -> set] /\ DOMAIN list = 1..n
  BY <1>10, <1>11
<1>13. IsInjective(list)
  <2>1. \A i, j \in 1..n : list[i] = list[j] => i = j
    BY <1>11
  <2>. QED
    BY <1>12, <2>1 DEF IsInjective
<1>14. ASSUME NEW x \in set PROVE x \in ToSet(list)
  <2>1. Rank(x) + 1 \in 1..n /\ (Rank(x) + 1) - 1 = Rank(x)
    BY <1>1, <1>3
  <2>2. list[Rank(x) + 1] = x
    BY <1>5, <1>11, <2>1
  <2>. QED
    BY <1>12, <2>1, <2>2 DEF ToSet
<1>15. \A x \in ToSet(list) : x \in set
  BY <1>12 DEF ToSet
<1>. QED
  BY <1>2, <1>12, <1>13, <1>14, <1>15

\* What Replaced gives, when the range it replaces is in the list.
LEMMA ReplacedItems ==
  ASSUME NEW B, NEW v \in Seq(B), NEW fix, fix.offset \in Nat, fix.length \in Nat,
         fix.text \in Seq(B), fix.offset + fix.length <= Len(v)
  PROVE  /\ SubSeq(v, 1, fix.offset) \in Seq(B) /\ Len(SubSeq(v, 1, fix.offset)) = fix.offset
         /\ SubSeq(v, fix.offset + fix.length + 1, Len(v)) \in Seq(B)
         /\ Replaced(v, fix) \in Seq(B)
         /\ Len(Replaced(v, fix)) = Len(v) - fix.length + Len(fix.text)
<1>1. PICK a \in Nat, l \in Nat, b \in Nat, n \in Nat :
        /\ a = fix.offset /\ l = fix.length /\ b = a + l /\ n = Len(v) /\ a <= b /\ b <= n
        /\ b = fix.offset + fix.length
  OBVIOUS
<1>2. \A i \in 1..n : v[i] \in B
  BY <1>1
<1>3. SubSeq(v, 1, a) \in Seq(B) /\ Len(SubSeq(v, 1, a)) = a
  <2>1. \A i \in 1..a : v[i] \in B
    BY <1>1, <1>2
  <2>2. SubSeq(v, 1, a) \in Seq(B) /\ Len(SubSeq(v, 1, a)) = IF 1 <= a THEN a - 1 + 1 ELSE 0
    BY <2>1, SubSeqProperties
  <2>. QED
    BY <2>2
<1>4. SubSeq(v, b + 1, n) \in Seq(B) /\ Len(SubSeq(v, b + 1, n)) = n - b
  <2>1. \A i \in (b + 1)..n : v[i] \in B
    BY <1>1, <1>2
  <2>2. /\ SubSeq(v, b + 1, n) \in Seq(B)
        /\ Len(SubSeq(v, b + 1, n)) = IF b + 1 <= n THEN n - (b + 1) + 1 ELSE 0
    BY <2>1, SubSeqProperties
  <2>. QED
    BY <1>1, <2>2
<1>5. PICK s \in Seq(B), t \in Seq(B), u \in Seq(B) :
        s = SubSeq(v, 1, a) /\ t = fix.text /\ u = SubSeq(v, b + 1, n)
  BY <1>3, <1>4
<1>6. /\ (s \o t) \o u \in Seq(B) /\ s \o t \in Seq(B)
      /\ Len((s \o t) \o u) = Len(s) + Len(t) + Len(u)
  <2>1. s \o t \in Seq(B) /\ Len(s \o t) = Len(s) + Len(t)
    BY ConcatProperties
  <2>2. (s \o t) \o u \in Seq(B) /\ Len((s \o t) \o u) = Len(s \o t) + Len(u)
    BY <2>1, ConcatProperties
  <2>. QED
    BY <2>1, <2>2
<1>7. Replaced(v, fix) = (s \o t) \o u
  BY <1>1, <1>5 DEF Replaced
<1>8. Len(Replaced(v, fix)) = Len(v) - fix.length + Len(fix.text)
  <2>1. Len(s) = a /\ Len(u) = n - b /\ Len(t) \in Nat
    BY <1>3, <1>4, <1>5
  <2>2. PICK k \in Nat : k = Len(t)
    BY <2>1
  <2>3. a + k + (n - b) = n - l + k
    <3>1. b = a + l
      BY <1>1
    <3>. QED
      BY <3>1
  <2>. QED
    BY <1>1, <1>5, <1>6, <1>7, <2>1, <2>2, <2>3
<1>9. SubSeq(v, fix.offset + fix.length + 1, Len(v)) = u
  BY <1>1, <1>5
<1>. QED
  BY <1>1, <1>3, <1>5, <1>6, <1>7, <1>8, <1>9

\* Fixes with texts over B that lie in a list, each after the one before it.
Apart(fixes, B, contents) ==
  /\ contents \in Seq(B)
  /\ DOMAIN fixes = 1..Len(fixes) /\ Len(fixes) \in Nat
  /\ \A i \in 1..Len(fixes) :
       /\ fixes[i].offset \in Nat /\ fixes[i].length \in Nat /\ fixes[i].text \in Seq(B)
       /\ fixes[i].offset + fixes[i].length <= Len(contents)
       /\ i > 1 => fixes[i - 1].offset + fixes[i - 1].length <= fixes[i].offset

LEMMA AllApart ==
  ASSUME NEW fixes, NEW B, NEW contents, Apart(fixes, B, contents)
  PROVE  \A i, j \in 1..Len(fixes) : i < j =>
           fixes[i].offset + fixes[i].length <= fixes[j].offset
<1>1. PICK n \in Nat : n = Len(fixes)
  BY DEF Apart
<1>. DEFINE P == {j \in Nat : j \in 1..n => \A i \in 1..n : i < j =>
                    fixes[i].offset + fixes[i].length <= fixes[j].offset}
<1>2. 0 \in P
  OBVIOUS
<1>3. ASSUME NEW j \in P PROVE j + 1 \in P
  <2>. SUFFICES ASSUME j + 1 \in 1..n, NEW i \in 1..n, i < j + 1
                PROVE  fixes[i].offset + fixes[i].length <= fixes[j + 1].offset
    OBVIOUS
  <2>1. j \in Nat /\ j \in 1..n /\ (j + 1) - 1 = j
    OBVIOUS
  <2>2. fixes[j].offset + fixes[j].length <= fixes[j + 1].offset
    <3>1. j + 1 \in 1..Len(fixes) /\ j + 1 > 1
      BY <1>1, <2>1
    <3>. QED
      BY <2>1, <3>1 DEF Apart
  <2>3. /\ fixes[i].offset \in Nat /\ fixes[i].length \in Nat
        /\ fixes[j].offset \in Nat /\ fixes[j].length \in Nat /\ fixes[j + 1].offset \in Nat
    BY <1>1, <2>1 DEF Apart
  <2>4. i < j => fixes[i].offset + fixes[i].length <= fixes[j].offset
    BY <1>3, <2>1
  <2>5. i = j \/ i < j
    BY <2>1
  <2>. QED
    BY <2>2, <2>3, <2>4, <2>5
<1>4. P \in SUBSET Nat
  OBVIOUS
<1>5. \A j \in Nat : j \in P
  <2>. HIDE DEF P
  <2>. QED
    BY <1>2, <1>3, <1>4, Induction
<1>. QED
  BY <1>1, <1>5

\* A list with the last fixes, from each on, replaced.
AreReplaced(changed, B, contents, fixes) ==
  /\ changed \in [1..(Len(fixes) + 1) -> Seq(B)]
  /\ changed[Len(fixes) + 1] = contents
  /\ \A i \in 1..Len(fixes) : changed[i] = Replaced(changed[i + 1], fixes[i])

\* FoldRight takes the fixes from the last one on.
LEMMA ReplacedByFixes ==
  ASSUME NEW B, NEW contents, NEW fixes, Apart(fixes, B, contents)
  PROVE  \E changed : /\ AreReplaced(changed, B, contents, fixes)
                      /\ ReplacedFromEnd(contents, fixes) = changed[1]
<1>. DEFINE n == Len(fixes)
            pick == [s \in (SUBSET (1..n)) \ {{}} |-> Min(s)]
            In(v, i) == fixes[i].offset + fixes[i].length <= Len(v)
            step == [a \in (1..n) \X Seq(B) |->
                       IF In(a[2], a[1]) THEN Replaced(a[2], fixes[a[1]]) ELSE a[2]]
            Eq(g) == g = [s \in SUBSET (DOMAIN fixes) |->
                            IF s = {} THEN contents
                            ELSE Replaced(g[s \ {Min(s)}], fixes[Min(s)])]
<1>1. n \in Nat /\ DOMAIN fixes = 1..n /\ contents \in Seq(B)
  BY DEF Apart
<1>2. \A i \in 1..n :
        /\ fixes[i].offset \in Nat /\ fixes[i].length \in Nat /\ fixes[i].text \in Seq(B)
        /\ fixes[i].offset + fixes[i].length <= Len(contents)
  BY DEF Apart
<1>3. \A i, j \in 1..n : i < j => fixes[i].offset + fixes[i].length <= fixes[j].offset
  BY AllApart
<1>4. IsFiniteSet(1..n)
  BY <1>1, FS_Interval
<1>. HIDE DEF n
<1>5. /\ IsPick(pick, 1..n)
      /\ \A s \in SUBSET (1..n) : s # {} =>
           pick[s] = Min(s) /\ Min(s) \in s /\ \A i \in s : Min(s) <= i
  <2>1. ASSUME NEW s \in SUBSET (1..n), s # {} PROVE Min(s) \in s /\ \A i \in s : Min(s) <= i
    <3>1. s \in SUBSET Nat
      BY <1>1
    <3>. QED
      BY <2>1, <3>1, Smallest
  <2>. QED
    BY <2>1 DEF IsPick
<1>6. /\ step \in [(1..n) \X Seq(B) -> Seq(B)]
      /\ \A i \in 1..n, v \in Seq(B) :
           step[<<i, v>>] = IF In(v, i) THEN Replaced(v, fixes[i]) ELSE v
  <2>1. ASSUME NEW i \in 1..n, NEW v \in Seq(B)
        PROVE  (IF In(v, i) THEN Replaced(v, fixes[i]) ELSE v) \in Seq(B)
    <3>1. CASE In(v, i)
      BY <1>2, <3>1, ReplacedItems
    <3>2. CASE ~ In(v, i)
      BY <3>2
    <3>. QED
      BY <3>1, <3>2
  <2>. HIDE DEF In
  <2>. QED
    BY <2>1
<1>. HIDE DEF pick, step
<1>7. PICK it \in [SUBSET (1..n) -> Seq(B)] : IsRecursion(it, 1..n, pick, contents, step)
  <2>1. step \in [(1..n) \X Seq(B) -> Seq(B)]
    BY <1>6
  <2>2. IsPick(pick, 1..n)
    BY <1>5
  <2>. HIDE DEF In
  <2>. QED
    BY <1>1, <1>4, <2>1, <2>2, SubsetRecursion
<1>8. ASSUME NEW s \in SUBSET (1..n), s # {}
      PROVE  /\ Min(s) \in 1..n /\ s \ {Min(s)} \in SUBSET (1..n) /\ it[s \ {Min(s)}] \in Seq(B)
             /\ it[s] = IF In(it[s \ {Min(s)}], Min(s))
                          THEN Replaced(it[s \ {Min(s)}], fixes[Min(s)]) ELSE it[s \ {Min(s)}]
  <2>1. Min(s) \in 1..n /\ s \ {Min(s)} \in SUBSET (1..n) /\ pick[s] = Min(s)
    BY <1>5, <1>8
  <2>2. it[s] = step[<<Min(s), it[s \ {Min(s)}]>>] /\ it[s \ {Min(s)}] \in Seq(B)
    BY <1>7, <1>8, <2>1 DEF IsRecursion
  <2>. HIDE DEF In
  <2>. QED
    BY <1>6, <2>1, <2>2
<1>. DEFINE Free(s, i) == \A j \in s : i < j
            Q == {s \in SUBSET (1..n) : \A i \in 1..n : Free(s, i) => In(it[s], i)}
<1>9. {} \in Q
  BY <1>2, <1>7 DEF IsRecursion
<1>10. ASSUME NEW s \in SUBSET (1..n), s # {}, s \ {pick[s]} \in Q PROVE s \in Q
  <2>. SUFFICES ASSUME NEW i \in 1..n, Free(s, i) PROVE In(it[s], i)
    OBVIOUS
  <2>1. PICK m \in 1..n, v \in Seq(B) : m = Min(s) /\ v = it[s \ {m}]
    BY <1>8, <1>10
  <2>2. Free(s \ {m}, m)
    <3>1. \A j \in s \ {m} : m <= j /\ m # j /\ j \in Nat /\ m \in Nat
      BY <1>1, <1>5, <1>10, <2>1
    <3>. QED
      BY <3>1
  <2>3. In(v, m)
    BY <1>5, <1>10, <2>1, <2>2
  <2>4. it[s] = Replaced(v, fixes[m])
    BY <1>8, <1>10, <2>1, <2>3
  <2>5. Len(it[s]) = Len(v) - fixes[m].length + Len(fixes[m].text)
    BY <1>2, <2>3, <2>4, ReplacedItems
  <2>6. fixes[i].offset + fixes[i].length <= fixes[m].offset
    <3>1. i < m
      BY <1>5, <1>10, <2>1
    <3>. QED
      BY <1>3, <3>1
  <2>7. PICK a \in Nat, l \in Nat, t \in Nat, k \in Nat :
          /\ a = fixes[m].offset /\ l = fixes[m].length
          /\ t = Len(fixes[m].text) /\ k = Len(v)
    BY <1>2
  <2>8. a + l <= k /\ Len(it[s]) = k - l + t
    BY <2>3, <2>5, <2>7
  <2>9. a <= Len(it[s]) /\ a \in Nat /\ Len(it[s]) \in Nat
    BY <2>8
  <2>10. PICK e \in Nat : e = fixes[i].offset + fixes[i].length
    BY <1>2
  <2>11. e <= a
    BY <2>6, <2>7, <2>10
  <2>. QED
    BY <2>9, <2>10, <2>11
<1>11. \A s \in SUBSET (1..n) : s \in Q
  <2>1. Q \in SUBSET (SUBSET (1..n))
    OBVIOUS
  <2>. HIDE DEF Q
  <2>2. Grows(Q, 1..n, pick)
    BY <1>10 DEF Grows
  <2>. QED
    BY <1>4, <1>5, <1>9, <2>1, <2>2, SubsetInduction, ZenonT(40)
<1>12. ASSUME NEW s \in SUBSET (1..n), s # {}
       PROVE  In(it[s \ {Min(s)}], Min(s)) /\ it[s] = Replaced(it[s \ {Min(s)}], fixes[Min(s)])
  <2>1. Free(s \ {Min(s)}, Min(s))
    <3>1. PICK m \in 1..n : m = Min(s)
      BY <1>8, <1>12
    <3>2. \A j \in s \ {m} : m <= j /\ m # j /\ j \in Nat /\ m \in Nat
      BY <1>1, <1>5, <1>12, <3>1
    <3>3. \A j \in s \ {m} : m < j
      BY <3>2
    <3>. QED
      BY <3>1, <3>3
  <2>2. In(it[s \ {Min(s)}], Min(s))
    BY <1>8, <1>11, <1>12, <2>1
  <2>. QED
    BY <1>8, <1>12, <2>2
<1>. HIDE DEF Q
<1>13. Eq(it)
  <2>1. it = [s \in SUBSET (1..n) |-> it[s]]
    OBVIOUS
  <2>. QED
    BY <1>1, <1>7, <1>12, <2>1 DEF IsRecursion
<1>14. Eq(CHOOSE g : Eq(g))
  BY <1>13
<1>15. ReplacedFromEnd(contents, fixes) = (CHOOSE g : Eq(g))[DOMAIN fixes]
  BY DEF ReplacedFromEnd, FoldRight, MapThenFoldSet
<1>. DEFINE c == CHOOSE g : Eq(g)
<1>16. c[{}] = contents /\ \A s \in SUBSET (1..n) : s # {} =>
         c[s] = Replaced(c[s \ {Min(s)}], fixes[Min(s)])
  BY <1>1, <1>14
<1>. HIDE DEF c, Eq
<1>. DEFINE P == {s \in SUBSET (1..n) : c[s] = it[s]}
<1>17. {} \in P
  BY <1>7, <1>16 DEF IsRecursion
<1>18. ASSUME NEW s \in SUBSET (1..n), s # {}, s \ {pick[s]} \in P PROVE s \in P
  <2>1. s \ {Min(s)} \in P
    BY <1>5, <1>18
  <2>. QED
    BY <1>12, <1>16, <1>18, <2>1
<1>19. \A s \in SUBSET (1..n) : s \in P
  <2>1. P \in SUBSET (SUBSET (1..n))
    OBVIOUS
  <2>. HIDE DEF P
  <2>2. Grows(P, 1..n, pick)
    BY <1>18 DEF Grows
  <2>. QED
    BY <1>4, <1>5, <1>17, <2>1, <2>2, SubsetInduction
<1>20. ReplacedFromEnd(contents, fixes) = it[1..n]
  BY <1>1, <1>15, <1>19 DEF c
<1>21. PICK changed : changed = [i \in 1..(n + 1) |-> it[i..n]]
  OBVIOUS
<1>22. \A i \in 1..(n + 1) : changed[i] = it[i..n] /\ i..n \in SUBSET (1..n)
  BY <1>1, <1>21
<1>23. ASSUME NEW i \in 1..n PROVE changed[i] = Replaced(changed[i + 1], fixes[i])
  <2>1. i \in i..n /\ i..n \in SUBSET (1..n) /\ i..n # {}
    <3>1. i \in i..n /\ \A j \in i..n : j \in 1..n
      BY <1>1
    <3>. QED
      BY <3>1
  <2>2. Min(i..n) \in i..n /\ Min(i..n) <= i
    BY <1>5, <2>1
  <2>3. Min(i..n) = i /\ (i..n) \ {i} = (i + 1)..n /\ i \in 1..(n + 1) /\ i + 1 \in 1..(n + 1)
    BY <1>1, <2>2
  <2>4. changed[i] = it[i..n] /\ changed[i + 1] = it[(i + 1)..n]
    BY <1>22, <2>3
  <2>5. it[i..n] = Replaced(it[(i + 1)..n], fixes[i])
    BY <1>12, <2>1, <2>3
  <2>. QED
    BY <2>4, <2>5
<1>24. changed \in [1..(n + 1) -> Seq(B)]
  BY <1>7, <1>21, <1>22
<1>25. changed[n + 1] = contents /\ changed[1] = it[1..n]
  <2>1. n + 1 \in 1..(n + 1) /\ 1 \in 1..(n + 1) /\ (n + 1)..n = {}
    BY <1>1
  <2>. QED
    BY <1>7, <1>22, <2>1 DEF IsRecursion
<1>26. AreReplaced(changed, B, contents, fixes)
  BY <1>23, <1>24, <1>25 DEF AreReplaced, n
<1>. QED
  BY <1>20, <1>25, <1>26

\* A part of a list that begins after a items and ends after b items.
LEMMA PartItems ==
  ASSUME NEW B, NEW v \in Seq(B), NEW a \in Nat, NEW b \in Nat, a <= b, b <= Len(v)
  PROVE  /\ SubSeq(v, a + 1, b) \in Seq(B) /\ Len(SubSeq(v, a + 1, b)) = b - a
         /\ \A i \in 1..(b - a) : SubSeq(v, a + 1, b)[i] = v[a + i]
<1>1. \A i \in (a + 1)..b : v[i] \in B
  OBVIOUS
<1>2. /\ SubSeq(v, a + 1, b) \in Seq(B)
      /\ Len(SubSeq(v, a + 1, b)) = IF a + 1 <= b THEN b - (a + 1) + 1 ELSE 0
      /\ \A i \in 1..(b - (a + 1) + 1) : SubSeq(v, a + 1, b)[i] = v[(a + 1) + i - 1]
  BY <1>1, SubSeqProperties
<1>3. b - (a + 1) + 1 = b - a /\ \A i \in 1..(b - a) : (a + 1) + i - 1 = a + i
  OBVIOUS
<1>. QED
  BY <1>2, <1>3

\* The first items of a list.
LEMMA FirstItems ==
  ASSUME NEW B, NEW v \in Seq(B), NEW a \in Nat, a <= Len(v)
  PROVE  /\ SubSeq(v, 1, a) \in Seq(B) /\ Len(SubSeq(v, 1, a)) = a
         /\ \A i \in 1..a : SubSeq(v, 1, a)[i] = v[i]
<1>1. \A i \in 1..a : v[i] \in B
  OBVIOUS
<1>2. /\ SubSeq(v, 1, a) \in Seq(B)
      /\ Len(SubSeq(v, 1, a)) = IF 1 <= a THEN a - 1 + 1 ELSE 0
      /\ \A i \in 1..(a - 1 + 1) : SubSeq(v, 1, a)[i] = v[1 + i - 1]
  BY <1>1, SubSeqProperties
<1>3. a - 1 + 1 = a /\ \A i \in 1..a : 1 + i - 1 = i
  OBVIOUS
<1>. QED
  BY <1>2, <1>3

\* A list of the first items of another and the items of a third, and a place
\* in the first part.
IsJoined(both, B, v, stop, rest, a) ==
  /\ v \in Seq(B) /\ rest \in Seq(B) /\ stop \in Nat /\ a \in Nat
  /\ stop <= Len(v) /\ a <= stop
  /\ both = SubSeq(v, 1, stop) \o rest

\* What is before and after the place.
PartsKept(both, v, stop, rest, a) ==
  /\ SubSeq(both, 1, a) = SubSeq(v, 1, a)
  /\ SubSeq(both, a + 1, Len(both)) = SubSeq(v, a + 1, stop) \o rest

LEMMA PartsOfConcat ==
  ASSUME NEW both, NEW B, NEW v, NEW stop, NEW rest, NEW a, IsJoined(both, B, v, stop, rest, a)
  PROVE  PartsKept(both, v, stop, rest, a)
<1>. /\ v \in Seq(B) /\ rest \in Seq(B) /\ stop \in Nat /\ a \in Nat
     /\ stop <= Len(v) /\ a <= stop
     /\ both = SubSeq(v, 1, stop) \o rest
  BY DEF IsJoined
<1>1. PICK s \in Seq(B) : /\ s = SubSeq(v, 1, stop) /\ Len(s) = stop
                          /\ \A i \in 1..stop : s[i] = v[i]
  <2>1. /\ SubSeq(v, 1, stop) \in Seq(B) /\ Len(SubSeq(v, 1, stop)) = stop
        /\ \A i \in 1..stop : SubSeq(v, 1, stop)[i] = v[i]
    BY FirstItems
  <2>. QED
    BY <2>1
<1>2. PICK k \in Nat : k = Len(rest)
  OBVIOUS
<1>3. /\ both \in Seq(B) /\ Len(both) = stop + k
      /\ \A i \in 1..(stop + k) : both[i] = IF i <= stop THEN s[i] ELSE rest[i - stop]
  BY <1>1, <1>2, ConcatProperties
<1>4. SubSeq(both, 1, a) = SubSeq(v, 1, a)
  <2>1. a <= Len(v) /\ a <= Len(both)
    BY <1>3
  <2>2. /\ SubSeq(v, 1, a) \in Seq(B) /\ Len(SubSeq(v, 1, a)) = a
        /\ \A i \in 1..a : SubSeq(v, 1, a)[i] = v[i]
    BY <2>1, FirstItems
  <2>3. /\ SubSeq(both, 1, a) \in Seq(B) /\ Len(SubSeq(both, 1, a)) = a
        /\ \A i \in 1..a : SubSeq(both, 1, a)[i] = both[i]
    BY <1>3, <2>1, FirstItems
  <2>4. \A i \in 1..a : both[i] = v[i]
    BY <1>1, <1>3
  <2>5. PICK x \in Seq(B), y \in Seq(B) : x = SubSeq(v, 1, a) /\ y = SubSeq(both, 1, a)
    BY <2>2, <2>3
  <2>6. Len(x) = a /\ Len(y) = a /\ \A i \in 1..a : x[i] = y[i]
    BY <2>2, <2>3, <2>4, <2>5
  <2>. QED
    BY <2>5, <2>6, SeqEqual
<1>5. PICK t \in Seq(B) : /\ t = SubSeq(v, a + 1, stop) /\ Len(t) = stop - a
                          /\ \A i \in 1..(stop - a) : t[i] = v[a + i]
  <2>1. /\ SubSeq(v, a + 1, stop) \in Seq(B) /\ Len(SubSeq(v, a + 1, stop)) = stop - a
        /\ \A i \in 1..(stop - a) : SubSeq(v, a + 1, stop)[i] = v[a + i]
    BY PartItems
  <2>. QED
    BY <2>1
<1>6. PICK all \in Nat : all = stop + k /\ a <= all /\ all <= Len(both)
  BY <1>3
<1>10. PICK w \in Seq(B) : /\ w = SubSeq(both, a + 1, all) /\ Len(w) = all - a
                           /\ \A i \in 1..(all - a) : w[i] = both[a + i]
  <2>1. /\ SubSeq(both, a + 1, all) \in Seq(B) /\ Len(SubSeq(both, a + 1, all)) = all - a
        /\ \A i \in 1..(all - a) : SubSeq(both, a + 1, all)[i] = both[a + i]
    <3>1. both \in Seq(B) /\ a <= all /\ all <= Len(both)
      BY <1>3, <1>6
    <3>. QED
      BY <3>1, PartItems, ZenonT(40)
  <2>. QED
    BY <2>1
<1>7. PICK z \in Seq(B) :
        /\ z = t \o rest /\ Len(z) = (stop - a) + k
        /\ \A i \in 1..((stop - a) + k) : z[i] = IF i <= stop - a THEN t[i] ELSE rest[i - (stop - a)]
  <2>1. /\ t \o rest \in Seq(B) /\ Len(t \o rest) = Len(t) + Len(rest)
        /\ \A i \in 1..(Len(t) + Len(rest)) :
             (t \o rest)[i] = IF i <= Len(t) THEN t[i] ELSE rest[i - Len(t)]
    BY ConcatProperties
  <2>2. Len(t) = stop - a /\ Len(rest) = k
    BY <1>2, <1>5
  <2>3. PICK z \in Seq(B) : z = t \o rest
    BY <2>1
  <2>. QED
    BY <2>1, <2>2, <2>3
<1>8. \A i \in 1..(all - a) : w[i] = z[i]
  <2>. TAKE i \in 1..(all - a)
  <2>1. a + i \in 1..(stop + k) /\ i \in 1..((stop - a) + k)
    BY <1>6
  <2>4. w[i] = both[a + i]
    BY <1>10
  <2>2. CASE i <= stop - a
    <3>1. a + i <= stop /\ i \in 1..(stop - a) /\ a + i \in 1..stop
      BY <2>2
    <3>. QED
      BY <1>1, <1>3, <1>5, <1>7, <2>1, <2>2, <2>4, <3>1
  <2>3. CASE ~ (i <= stop - a)
    <3>1. ~ (a + i <= stop) /\ (a + i) - stop = i - (stop - a)
      BY <2>3
    <3>. QED
      BY <1>3, <1>7, <2>1, <2>3, <2>4, <3>1
  <2>. QED
    BY <2>2, <2>3
<1>9. w = z
  <2>1. (stop - a) + k = all - a
    BY <1>6
  <2>. QED
    BY <1>10, <1>7, <1>8, <2>1, SeqEqual
<1>. QED
  BY <1>3, <1>4, <1>5, <1>6, <1>7, <1>9, <1>10 DEF PartsKept

\* Lists can be joined in any order.
Associates(s, t, u) == (s \o t) \o u = s \o (t \o u)

LEMMA Joined ==
  ASSUME NEW B, NEW s \in Seq(B), NEW t \in Seq(B), NEW u \in Seq(B)
  PROVE  Associates(s, t, u)
BY ConcatAssociative, SMTT(30) DEF Associates

\* A change in the first of two lists leaves the second as it is.
ChangeKept(both, B, v, stop, rest, a, b, t) ==
  /\ t \o SubSeq(v, b + 1, stop) \in Seq(B)
  /\ SubSeq(both, 1, a) \o t \o SubSeq(both, b + 1, Len(both)) =
       SubSeq(v, 1, a) \o ((t \o SubSeq(v, b + 1, stop)) \o rest)

LEMMA ReplacedBefore ==
  ASSUME NEW both, NEW B, NEW v, NEW stop, NEW rest, NEW a, NEW b, NEW t \in Seq(B),
         IsJoined(both, B, v, stop, rest, a), IsJoined(both, B, v, stop, rest, b)
  PROVE  ChangeKept(both, B, v, stop, rest, a, b, t)
<1>1. PartsKept(both, v, stop, rest, a) /\ PartsKept(both, v, stop, rest, b)
  BY PartsOfConcat
<1>2. /\ SubSeq(both, 1, a) = SubSeq(v, 1, a)
      /\ SubSeq(both, b + 1, Len(both)) = SubSeq(v, b + 1, stop) \o rest
  BY <1>1 DEF PartsKept
<1>. /\ v \in Seq(B) /\ rest \in Seq(B) /\ stop \in Nat /\ a \in Nat /\ b \in Nat
     /\ stop <= Len(v) /\ a <= stop /\ b <= stop
  BY DEF IsJoined
<1>3. PICK s \in Seq(B) : s = SubSeq(v, 1, a)
  <2>1. a <= Len(v)
    OBVIOUS
  <2>2. SubSeq(v, 1, a) \in Seq(B)
    BY <2>1, FirstItems
  <2>. QED
    BY <2>2
<1>4. PICK u \in Seq(B) : u = SubSeq(v, b + 1, stop)
  BY PartItems
<1>5. PICK x \in Seq(B), y \in Seq(B) : x = u \o rest /\ y = t \o u
  <2>1. u \o rest \in Seq(B) /\ t \o u \in Seq(B)
    BY ConcatProperties
  <2>. QED
    BY <2>1
<1>6. Associates(s, t, x) /\ Associates(t, u, rest)
  BY Joined
<1>7. (s \o t) \o x = s \o (y \o rest)
  BY <1>5, <1>6 DEF Associates
<1>. QED
  BY <1>2, <1>3, <1>4, <1>5, <1>7 DEF ChangeKept

\* Where the text of a list before a fix ends, and what replaces the text from
\* the fix to the next.
StartOf(contents, fixes, i) ==
  IF i \in DOMAIN fixes THEN fixes[i].offset ELSE Len(contents)

Piece(contents, fixes, i) ==
  fixes[i].text \o SubSeq(contents, fixes[i].offset + fixes[i].length + 1,
                          StartOf(contents, fixes, i + 1))

\* Fixes that do not overlap give the same one by one, from the end, as at once.
LEMMA ReplacedTogether ==
  ASSUME NEW B, NEW contents, NEW fixes, Apart(fixes, B, contents)
  PROVE  ReplacedFromEnd(contents, fixes) = ReplacedAtOnce(contents, fixes)
<1>1. PICK n \in Nat : n = Len(fixes) /\ DOMAIN fixes = 1..n
  BY DEF Apart
<1>2. contents \in Seq(B) /\ Len(contents) \in Nat
  BY DEF Apart
<1>3. \A i \in 1..n :
        /\ fixes[i].offset \in Nat /\ fixes[i].length \in Nat /\ fixes[i].text \in Seq(B)
        /\ fixes[i].offset + fixes[i].length <= Len(contents)
  BY <1>1 DEF Apart
<1>. DEFINE start(i) == StartOf(contents, fixes, i)
            piece(i) == Piece(contents, fixes, i)
<1>4. \A i \in 1..(n + 1) : start(i) \in Nat /\ start(i) <= Len(contents)
  <2>. TAKE i \in 1..(n + 1)
  <2>1. CASE i = n + 1
    <3>1. start(i) = Len(contents)
      BY <1>1, <2>1 DEF StartOf
    <3>. QED
      BY <1>2, <3>1
  <2>2. CASE i # n + 1
    <3>1. i \in 1..n
      BY <2>2
    <3>2. start(i) = fixes[i].offset
      BY <1>1, <3>1 DEF StartOf
    <3>3. PICK a \in Nat, l \in Nat : a = fixes[i].offset /\ l = fixes[i].length
      BY <1>3, <3>1
    <3>4. a + l <= Len(contents)
      BY <1>3, <3>1, <3>3
    <3>. QED
      BY <1>2, <3>2, <3>3, <3>4
  <2>. QED
    BY <2>1, <2>2
<1>5. ASSUME NEW i \in 1..n
      PROVE  start(i) = fixes[i].offset /\ fixes[i].offset + fixes[i].length <= start(i + 1)
  <2>1. start(i) = fixes[i].offset
    BY <1>1 DEF StartOf
  <2>2. CASE i = n
    <3>1. start(i + 1) = Len(contents)
      BY <1>1, <2>2 DEF StartOf
    <3>. QED
      BY <1>3, <2>1, <3>1
  <2>3. CASE i # n
    <3>1. i + 1 \in 1..n /\ i + 1 > 1 /\ (i + 1) - 1 = i
      BY <2>3
    <3>2. start(i + 1) = fixes[i + 1].offset
      BY <1>1, <3>1 DEF StartOf
    <3>3. fixes[i].offset + fixes[i].length <= fixes[i + 1].offset
      BY <1>1, <3>1 DEF Apart
    <3>. QED
      BY <2>1, <3>2, <3>3
  <2>. QED
    BY <2>2, <2>3
<1>. HIDE DEF start, piece
<1>6. ASSUME NEW i \in 1..n, NEW rest \in Seq(B)
      PROVE  /\ piece(i) \in Seq(B)
             /\ Replaced(SubSeq(contents, 1, start(i + 1)) \o rest, fixes[i]) =
                  SubSeq(contents, 1, start(i)) \o (piece(i) \o rest)
  <2>1. PICK stop \in Nat : stop = start(i + 1) /\ stop <= Len(contents)
    BY <1>4
  <2>2. PICK a \in Nat, l \in Nat, t \in Seq(B) :
          a = fixes[i].offset /\ l = fixes[i].length /\ t = fixes[i].text
    BY <1>3
  <2>3. PICK b \in Nat : b = a + l /\ a <= b /\ b <= stop
    BY <1>5, <2>1, <2>2
  <2>4. PICK both : both = SubSeq(contents, 1, stop) \o rest
    OBVIOUS
  <2>5. start(i) = a /\ piece(i) = t \o SubSeq(contents, b + 1, stop)
    BY <1>5, <2>1, <2>2, <2>3 DEF piece, Piece, start
  <2>6. Replaced(both, fixes[i]) = SubSeq(both, 1, a) \o t \o SubSeq(both, b + 1, Len(both))
    BY <2>2, <2>3 DEF Replaced
  <2>7. /\ t \o SubSeq(contents, b + 1, stop) \in Seq(B)
        /\ SubSeq(both, 1, a) \o t \o SubSeq(both, b + 1, Len(both)) =
             SubSeq(contents, 1, a) \o ((t \o SubSeq(contents, b + 1, stop)) \o rest)
    <3>1. /\ IsJoined(both, B, contents, stop, rest, a)
          /\ IsJoined(both, B, contents, stop, rest, b)
      BY <1>2, <2>1, <2>3, <2>4 DEF IsJoined
    <3>2. ChangeKept(both, B, contents, stop, rest, a, b, t)
      BY <3>1, ReplacedBefore
    <3>. QED
      BY <3>2 DEF ChangeKept
  <2>. QED
    BY <2>1, <2>4, <2>5, <2>6, <2>7
<1>7. \A i \in 1..n : piece(i) \in Seq(B)
  <2>1. <<>> \in Seq(B)
    OBVIOUS
  <2>. QED
    BY <1>6, <2>1
\* What follows, from each fix on.
<1>. DEFINE step == [a \in (1..n) \X Seq(B) |-> piece(n + 1 - a[1]) \o a[2]]
<1>8. step \in [(1..n) \X Seq(B) -> Seq(B)]
  <2>1. ASSUME NEW i \in 1..n, NEW v \in Seq(B) PROVE piece(n + 1 - i) \o v \in Seq(B)
    <3>1. n + 1 - i \in 1..n
      OBVIOUS
    <3>2. PICK p \in Seq(B) : p = piece(n + 1 - i)
      BY <1>7, <3>1
    <3>3. p \o v \in Seq(B)
      BY ConcatProperties
    <3>. QED
      BY <3>2, <3>3
  <2>. QED
    BY <2>1
<1>9. \A i \in 1..n, v \in Seq(B) : step[<<i, v>>] = piece(n + 1 - i) \o v
  OBVIOUS
<1>. HIDE DEF step
<1>10. PICK none \in Seq(B) : none = <<>>
  <2>1. <<>> \in Seq(B)
    OBVIOUS
  <2>. QED
    BY <2>1
<1>11. PICK after \in [0..n -> Seq(B)] :
         /\ after[0] = none
         /\ \A i \in 1..n : after[i] = step[<<i, after[i - 1]>>]
  <2>1. PICK f : IsCounted(f, n, Seq(B), none, step)
    BY <1>8, CountedRecursion
  <2>. QED
    BY <2>1 DEF IsCounted
<1>12. PICK rest : rest = [i \in 1..(n + 1) |-> after[n + 1 - i]]
  OBVIOUS
<1>13. \A i \in 1..(n + 1) : rest[i] \in Seq(B)
  <2>. TAKE i \in 1..(n + 1)
  <2>1. n + 1 - i \in 0..n
    OBVIOUS
  <2>. QED
    BY <1>11, <1>12, <2>1
<1>14. rest[n + 1] = none
  BY <1>11, <1>12
<1>15. ASSUME NEW i \in 1..n PROVE rest[i] = piece(i) \o rest[i + 1]
  <2>1. PICK j \in 1..n : j = n + 1 - i /\ j - 1 = n + 1 - (i + 1) /\ n + 1 - j = i
    OBVIOUS
  <2>2. rest[i] = after[j] /\ rest[i + 1] = after[j - 1] /\ after[j - 1] \in Seq(B)
    <3>1. i \in 1..(n + 1) /\ i + 1 \in 1..(n + 1) /\ j - 1 \in 0..n
      OBVIOUS
    <3>. QED
      BY <1>11, <1>12, <2>1, <3>1
  <2>3. after[j] = step[<<j, after[j - 1]>>]
    BY <1>11
  <2>4. after[j] = piece(n + 1 - j) \o after[j - 1]
    BY <1>9, <2>2, <2>3
  <2>. QED
    BY <2>1, <2>2, <2>4
<1>16. PICK changed : /\ AreReplaced(changed, B, contents, fixes)
                      /\ ReplacedFromEnd(contents, fixes) = changed[1]
  BY ReplacedByFixes
<1>17. /\ changed[n + 1] = contents
       /\ \A i \in 1..n : changed[i] = Replaced(changed[i + 1], fixes[i])
  BY <1>1, <1>16 DEF AreReplaced
<1>. DEFINE Done(i) == changed[i] = SubSeq(contents, 1, start(i)) \o rest[i]
            P == {j \in Nat : j <= n => Done(n + 1 - j)}
<1>. HIDE DEF Done
<1>18. 0 \in P
  <2>1. start(n + 1) = Len(contents)
    BY <1>1 DEF start, StartOf
  <2>2. SubSeq(contents, 1, Len(contents)) = contents
    BY <1>2, SubSeqFull
  <2>3. contents \o none = contents
    BY <1>2, <1>10, ConcatEmptySeq
  <2>4. Done(n + 1)
    BY <1>14, <1>17, <2>1, <2>2, <2>3 DEF Done
  <2>5. n + 1 - 0 = n + 1
    OBVIOUS
  <2>. QED
    BY <2>4, <2>5
<1>19. ASSUME NEW j \in Nat, j \in P PROVE j + 1 \in P
  <2>. SUFFICES ASSUME j + 1 <= n PROVE Done(n + 1 - (j + 1))
    OBVIOUS
  <2>1. PICK i \in 1..n : i = n + 1 - (j + 1) /\ i + 1 = n + 1 - j
    OBVIOUS
  <2>2. Done(i + 1)
    <3>1. j <= n
      OBVIOUS
    <3>. QED
      BY <1>19, <2>1, <3>1
  <2>3. PICK r \in Seq(B) : r = rest[i + 1]
    <3>1. i + 1 \in 1..(n + 1)
      OBVIOUS
    <3>. QED
      BY <1>13, <3>1
  <2>4. changed[i] = Replaced(SubSeq(contents, 1, start(i + 1)) \o r, fixes[i])
    BY <1>17, <2>2, <2>3 DEF Done
  <2>5. Replaced(SubSeq(contents, 1, start(i + 1)) \o r, fixes[i])
          = SubSeq(contents, 1, start(i)) \o (piece(i) \o r)
    BY <1>6
  <2>6. rest[i] = piece(i) \o r
    BY <1>15, <2>3
  <2>7. Done(i)
    BY <2>4, <2>5, <2>6 DEF Done
  <2>. QED
    BY <2>1, <2>7
<1>20. Done(1)
  <2>1. P \in SUBSET Nat
    OBVIOUS
  <2>2. \A j \in Nat : j \in P
    <3>. HIDE DEF P
    <3>. QED
      BY <1>18, <1>19, <2>1, Induction
  <2>3. n + 1 - n = 1 /\ n <= n
    OBVIOUS
  <2>4. Done(n + 1 - n)
    BY <2>2, <2>3
  <2>. QED
    BY <2>3, <2>4
<1>21. PICK pieces : pieces = [i \in 1..n |-> piece(i)]
  OBVIOUS
<1>22. ReplacedAtOnce(contents, fixes) = SubSeq(contents, 1, start(1)) \o FlattenSeq(pieces)
  BY <1>1, <1>21 DEF ReplacedAtOnce, start, StartOf, piece, Piece
<1>23. rest[1] = FlattenSeq(pieces)
  <2>1. CASE n = 0
    <3>1. pieces = <<>>
      BY <1>21, <2>1
    <3>2. FlattenSeq(<<>>) = <<>>
      BY DEF FlattenSeq
    <3>. QED
      BY <1>10, <1>14, <2>1, <3>1, <3>2
  <2>2. CASE n # 0
    <3>1. /\ pieces \in Seq(Seq(B)) /\ Len(pieces) = n /\ pieces # <<>>
          /\ \A i \in 1..n : pieces[i] = piece(i)
      <4>1. pieces \in [1..n -> Seq(B)]
        BY <1>7, <1>21
      <4>2. Len(pieces) = n /\ pieces \in Seq(Seq(B))
        BY <4>1
      <4>3. pieces # <<>>
        BY <2>2, <4>2
      <4>. QED
        BY <1>21, <4>2, <4>3
    <3>2. PICK flat : IsFlattened(flat, B, pieces) /\ FlattenSeq(pieces) = flat[Len(pieces)]
      BY <3>1, FlattenFold
    <3>3. /\ flat \in [1..n -> Seq(B)] /\ flat[1] = piece(1)
          /\ \A i \in 1..(n - 1) : flat[i + 1] = flat[i] \o piece(i + 1)
          /\ FlattenSeq(pieces) = flat[n]
      <4>1. 1 \in 1..n /\ \A i \in 1..(n - 1) : i + 1 \in 1..n
        BY <2>2
      <4>. QED
        BY <3>1, <3>2, <4>1 DEF IsFlattened
    <3>. DEFINE Upto(i) == rest[1] = flat[i] \o rest[i + 1]
                Q == {i \in Nat : i \in 1..n => Upto(i)}
    <3>4. 0 \in Q
      OBVIOUS
    <3>5. ASSUME NEW i \in Nat, i \in Q PROVE i + 1 \in Q
      <4>. SUFFICES ASSUME i + 1 \in 1..n PROVE Upto(i + 1)
        <5>. HIDE DEF Upto
        <5>. QED
          OBVIOUS
      <4>1. rest[i + 1] = piece(i + 1) \o rest[(i + 1) + 1]
        BY <1>15
      <4>2. CASE i = 0
        <5>1. i + 1 = 1
          BY <4>2
        <5>. QED
          BY <3>3, <4>1, <5>1
      <4>3. CASE i # 0
        <5>1. i \in 1..n /\ i \in 1..(n - 1) /\ (i + 1) + 1 \in 1..(n + 1)
          BY <4>3
        <5>2. PICK s \in Seq(B), t \in Seq(B), r \in Seq(B) :
                s = flat[i] /\ t = piece(i + 1) /\ r = rest[(i + 1) + 1]
          BY <1>7, <1>13, <3>3, <5>1
        <5>3. rest[1] = s \o (t \o r)
          BY <3>5, <4>1, <5>1, <5>2
        <5>4. flat[i + 1] = s \o t
          BY <3>3, <5>1, <5>2
        <5>5. Associates(s, t, r)
          BY Joined
        <5>. QED
          BY <5>2, <5>3, <5>4, <5>5 DEF Associates
      <4>. QED
        BY <4>2, <4>3
    <3>6. n \in Q
      <4>1. Q \in SUBSET Nat
        OBVIOUS
      <4>. HIDE DEF Q
      <4>2. \A i \in Nat : i \in Q
        BY <3>4, <3>5, <4>1, Induction
      <4>. QED
        BY <4>2
    <3>7. n \in 1..n
      BY <2>2
    <3>8. rest[1] = flat[n] \o none
      BY <1>14, <3>6, <3>7
    <3>9. flat[n] \o <<>> = flat[n]
      <4>1. flat[n] \in Seq(B)
        BY <3>3, <3>7
      <4>. QED
        BY <4>1, ConcatEmptySeq
    <3>. QED
      BY <1>10, <3>3, <3>8, <3>9
  <2>. QED
    BY <2>1, <2>2
<1>24. changed[1] = SubSeq(contents, 1, start(1)) \o rest[1]
  BY <1>20 DEF Done
<1>. QED
  BY <1>16, <1>22, <1>23, <1>24, SMTT(30)

-----------------------------------------------------------------------------
(***************************************************************************)
(* What the parser makes of the files of an experiment.                    *)
(***************************************************************************)

\* What the lexer may yield.  The provers do not know that these names are
\* strings.
SomeToken ==
  [type : {"INT"}, value : Nat]
    \cup [type : {"IDENTIFIER"}, name : STRING \cup strategyNames \cup {"partOfAName"}]

\* Every sequence of tokens is one of these.
LEMMA SomeTokens ==
  ASSUME NEW tokens \in Seq(Token)
  PROVE  tokens \in Seq(SomeToken)
<1>1. Token \subseteq SomeToken
  BY DEF Token, SomeToken
<1>. QED
  BY <1>1

\* What the kinds of tokens are made of.
LEMMA TokenFacts ==
  ASSUME NEW token \in SomeToken
  PROVE  /\ IsInt(token) => token.value \in Nat /\ token = INT(token.value)
         /\ IsStrategy(token) => token.name \in strategyNames /\ token = IDENTIFIER(token.name)
         /\ ~ (IsInt(token) /\ IsStrategy(token))
BY DEF SomeToken, IsInt, IsStrategy, INT, IDENTIFIER

\* The prefix of a list before the first item that fails.
LEMMA BeforeFailing ==
  ASSUME NEW n \in Nat, NEW failing \in SUBSET (1..n),
         NEW first, first = IF failing # {} THEN Min(failing) ELSE 0,
         NEW prefix, prefix = IF first = 0 THEN n ELSE first - 1
  PROVE  /\ prefix \in 0..n
         /\ \A i \in 1..prefix : i \notin failing
         /\ prefix < n => prefix + 1 \in failing
<1>1. CASE failing = {}
  BY <1>1
<1>2. CASE failing # {}
  <2>1. failing \in SUBSET Nat
    OBVIOUS
  <2>2. PICK m \in failing : m = Min(failing) /\ \A i \in failing : m <= i
    BY <1>2, <2>1, Smallest
  <2>3. prefix = m - 1 /\ m \in 1..n
    BY <1>2, <2>2
  <2>4. ASSUME NEW i \in 1..prefix PROVE i \notin failing
    BY <2>2, <2>3
  <2>. QED
    BY <2>2, <2>3, <2>4
<1>. QED
  BY <1>1, <1>2

\* The numbers at the beginning of a list of tokens.
LEMMA IntsPrefix ==
  ASSUME NEW tokens \in Seq(SomeToken), NEW n, n = PrefixLength(IsInt, tokens)
  PROVE  /\ n \in 0..Len(tokens)
         /\ \A i \in 1..n : IsInt(tokens[i])
         /\ n < Len(tokens) => ~ IsInt(tokens[n + 1])
<1>. DEFINE failing == {i \in 1..Len(tokens) : ~ IsInt(tokens[i])}
            first == IF failing # {} THEN Min(failing) ELSE 0
            prefix == IF first = 0 THEN Len(tokens) ELSE first - 1
<1>1. PrefixLength(IsInt, tokens) = prefix
  BY DEF PrefixLength, SelectInSeq
<1>2. Len(tokens) \in Nat /\ failing \in SUBSET (1..Len(tokens))
  OBVIOUS
<1>3. /\ prefix \in 0..Len(tokens)
      /\ \A i \in 1..prefix : i \notin failing
      /\ prefix < Len(tokens) => prefix + 1 \in failing
  <2>. HIDE DEF failing
  <2>. QED
    BY <1>2, BeforeFailing
<1>4. \A i \in 1..prefix : i \in 1..Len(tokens)
  BY <1>2, <1>3
<1>. QED
  BY <1>1, <1>3, <1>4

\* The strategies at the beginning of a list of tokens.
LEMMA StrategiesPrefix ==
  ASSUME NEW tokens \in Seq(SomeToken), NEW n, n = PrefixLength(IsStrategy, tokens)
  PROVE  /\ n \in 0..Len(tokens)
         /\ \A i \in 1..n : IsStrategy(tokens[i])
         /\ n < Len(tokens) => ~ IsStrategy(tokens[n + 1])
<1>. DEFINE failing == {i \in 1..Len(tokens) : ~ IsStrategy(tokens[i])}
            first == IF failing # {} THEN Min(failing) ELSE 0
            prefix == IF first = 0 THEN Len(tokens) ELSE first - 1
<1>1. PrefixLength(IsStrategy, tokens) = prefix
  BY DEF PrefixLength, SelectInSeq
<1>2. Len(tokens) \in Nat /\ failing \in SUBSET (1..Len(tokens))
  OBVIOUS
<1>3. /\ prefix \in 0..Len(tokens)
      /\ \A i \in 1..prefix : i \notin failing
      /\ prefix < Len(tokens) => prefix + 1 \in failing
  <2>. HIDE DEF failing
  <2>. QED
    BY <1>2, BeforeFailing
<1>4. \A i \in 1..prefix : i \in 1..Len(tokens)
  BY <1>2, <1>3
<1>. QED
  BY <1>1, <1>3, <1>4

\* The smaller of two numbers.
LEMMA SmallerOfTwo ==
  ASSUME NEW m \in Nat, NEW n \in Nat
  PROVE  Min({m, n}) = IF m <= n THEN m ELSE n
<1>1. {m, n} \in SUBSET Nat /\ {m, n} # {}
  OBVIOUS
<1>2. Min({m, n}) \in {m, n} /\ \A k \in {m, n} : Min({m, n}) <= k
  BY <1>1, Smallest
<1>. QED
  BY <1>2

\* A level as the parser keeps it.
LevelParams == [strategy : strategyNames, size : Nat]

\* A configuration that the parser accepts, and the levels it makes of it.
ConfigOf(levels, tokens) ==
  /\ levels \in Seq(LevelParams)
  /\ Len(tokens) = Len(levels) + 1
  /\ tokens[1] = INT(Len(levels))
  /\ \A i \in 1..Len(levels) : tokens[i + 1] = IDENTIFIER(levels[i].strategy)

\* parseConfig accepts exactly the configurations of the grammar.
LEMMA ConfigParses ==
  ASSUME NEW tokens \in Seq(SomeToken)
  PROVE  /\ ParsedConfig(tokens).parsed \in BOOLEAN
         /\ ParsedConfig(tokens).parsed <=> IsConfig(tokens)
         /\ ParsedConfig(tokens).parsed => ConfigOf(ParsedConfig(tokens).levels, tokens)
<1>1. PICK n \in Nat : n = Len(tokens)
  OBVIOUS
<1>2. CASE LevelCounts(tokens) = {}
  <2>1. ParsedConfig(tokens).parsed = FALSE
    BY <1>2 DEF ParsedConfig
  <2>2. ASSUME IsConfig(tokens) PROVE FALSE
    <3>1. PICK count \in 0..maxCacheLevel : Len(tokens) = count + 1 /\ tokens[1] = INT(count)
      BY <2>2 DEF IsConfig
    <3>2. tokens # <<>>
      BY <3>1 DEF maxCacheLevel
    <3>. QED
      BY <1>2, <3>1, <3>2 DEF LevelCounts
  <2>. QED
    BY <2>1, <2>2
<1>3. CASE LevelCounts(tokens) # {}
  <2>1. PICK count : count = CHOOSE m \in LevelCounts(tokens) : TRUE
    OBVIOUS
  <2>2. count \in 0..3 /\ tokens # <<>> /\ tokens[1] = INT(count)
    BY <1>3, <2>1 DEF LevelCounts, maxCacheLevel
  <2>3. PICK names \in Seq(SomeToken) : /\ names = Tail(tokens)
                                    /\ Len(names) = n - 1
                                    /\ \A i \in 1..(n - 1) : names[i] = tokens[i + 1]
    <3>1. /\ Tail(tokens) \in Seq(SomeToken)
          /\ Len(Tail(tokens)) = Len(tokens) - 1
          /\ \A i \in 1..Len(Tail(tokens)) : Tail(tokens)[i] = tokens[i + 1]
      BY <2>2, HeadTailProperties
    <3>. QED
      BY <1>1, <3>1
  <2>4. n >= 1
    BY <1>1, <2>2
  <2>5. PICK prefix : prefix = PrefixLength(IsStrategy, names)
    OBVIOUS
  <2>6. /\ prefix \in 0..(n - 1)
        /\ \A i \in 1..prefix : IsStrategy(names[i])
        /\ prefix < n - 1 => ~ IsStrategy(names[prefix + 1])
    BY <2>3, <2>5, StrategiesPrefix
  <2>7. PICK found : found = Min({count, prefix})
    OBVIOUS
  <2>8. found = IF count <= prefix THEN count ELSE prefix
    BY <2>2, <2>6, <2>7, SmallerOfTwo
  <2>9. ParsedConfig(tokens)
          = [levels |-> [i \in 1..found |-> [strategy |-> names[i].name, size |-> 0]],
             parsed |-> found = count /\ Len(names) = count]
    BY <1>3, <2>1, <2>3, <2>5, <2>7 DEF ParsedConfig
  <2>10. ParsedConfig(tokens).parsed = (found = count /\ Len(names) = count)
    BY <2>9
  <2>11. ParsedConfig(tokens).parsed <=> found = count /\ n - 1 = count
    BY <2>3, <2>10
  <2>12. ASSUME found = count, n - 1 = count
         PROVE  IsConfig(tokens) /\ ConfigOf(ParsedConfig(tokens).levels, tokens)
    <3>1. \A i \in 1..count : /\ names[i].name \in strategyNames
                              /\ tokens[i + 1] = IDENTIFIER(names[i].name)
      <4>. TAKE i \in 1..count
      <4>1. i \in 1..(n - 1) /\ IsStrategy(names[i]) /\ names[i] \in SomeToken
        BY <2>2, <2>3, <2>6, <2>8, <2>12
      <4>. QED
        BY <2>3, <4>1, TokenFacts
    <3>2. IsConfig(tokens)
      BY <1>1, <2>2, <2>12, <3>1 DEF IsConfig, maxCacheLevel
    <3>3. PICK levels : levels = [i \in 1..count |-> [strategy |-> names[i].name, size |-> 0]]
      OBVIOUS
    <3>4. levels \in Seq(LevelParams) /\ Len(levels) = count
      BY <2>2, <3>1, <3>3 DEF LevelParams
    <3>5. ConfigOf(levels, tokens)
      BY <1>1, <2>2, <2>12, <3>1, <3>3, <3>4 DEF ConfigOf
    <3>. QED
      BY <2>9, <2>12, <3>2, <3>3, <3>5
  <2>13. ASSUME IsConfig(tokens) PROVE found = count /\ n - 1 = count
    <3>1. PICK c \in 0..3 : /\ n = c + 1 /\ tokens[1] = INT(c)
                            /\ \A i \in 1..c : \E name \in strategyNames :
                                 tokens[i + 1] = IDENTIFIER(name)
      BY <1>1, <2>13 DEF IsConfig, maxCacheLevel
    <3>2. c = count
      BY <2>2, <3>1 DEF INT
    <3>3. ASSUME NEW i \in 1..(n - 1) PROVE IsStrategy(names[i])
      <4>1. i \in 1..c /\ names[i] = tokens[i + 1]
        BY <1>1, <2>3, <3>1
      <4>2. PICK name \in strategyNames : tokens[i + 1] = IDENTIFIER(name)
        BY <3>1, <4>1
      <4>. QED
        BY <4>1, <4>2 DEF IsStrategy, IDENTIFIER
    <3>4. prefix = n - 1
      BY <2>4, <2>6, <3>3
    <3>. QED
      BY <2>8, <3>1, <3>2, <3>4
  <2>. QED
    BY <2>10, <2>11, <2>12, <2>13
<1>. QED
  BY <1>2, <1>3

\* An input that the parser accepts for a configuration, the levels with the
\* sizes it gives them, and its requests.
InputOf(levels, requests, configured, tokens) ==
  /\ levels \in Seq(LevelParams)
  /\ requests \in Seq(Nat)
  /\ Len(levels) = Len(configured)
  /\ Len(tokens) = Len(levels) + 1 + Len(requests)
  /\ \A i \in 1..Len(levels) : /\ levels[i].strategy = configured[i].strategy
                               /\ tokens[i] = INT(levels[i].size)
  /\ tokens[Len(levels) + 1] = INT(Len(requests))
  /\ \A i \in 1..Len(requests) : tokens[Len(levels) + 1 + i] = INT(requests[i])

\* What parseInput returns, with its parts named.
ResultIs(configured, tokens, ints, rest, count, found, sizes) ==
  /\ ParsedInput(configured, tokens).parsed
       <=> ints >= rest /\ found = count /\ Len(tokens) = rest + count
  /\ ParsedInput(configured, tokens).parsed \in BOOLEAN
  /\ ParsedInput(configured, tokens).requests
       = [i \in 1..found |-> tokens[rest + i].value]
  /\ ParsedInput(configured, tokens).levels
       = [i \in DOMAIN configured |->
            IF i <= sizes THEN [configured[i] EXCEPT !.size = tokens[i].value]
            ELSE configured[i]]

\* parseInput, unfolded.
LEMMA InputResult ==
  ASSUME NEW configured, NEW tokens,
         NEW ints, ints = PrefixLength(IsInt, tokens),
         NEW rest, rest = Len(configured) + 1,
         NEW count, count = IF ints < rest THEN 0 ELSE tokens[rest].value,
         NEW found, found = IF ints < rest THEN 0 ELSE Min({count, ints - rest}),
         NEW sizes, sizes = Min({Len(configured), ints})
  PROVE  ResultIs(configured, tokens, ints, rest, count, found, sizes)
<1>1. ParsedInput(configured, tokens).parsed
        = (ints >= rest /\ found = count /\ Len(tokens) = rest + count)
  BY DEF ParsedInput
<1>2. /\ ParsedInput(configured, tokens).requests
           = [i \in 1..found |-> tokens[rest + i].value]
      /\ ParsedInput(configured, tokens).levels
           = [i \in DOMAIN configured |->
                IF i <= sizes THEN [configured[i] EXCEPT !.size = tokens[i].value]
                ELSE configured[i]]
  BY DEF ParsedInput
<1>. QED
  BY <1>1, <1>2 DEF ResultIs

\* parseInput accepts exactly the inputs of the grammar.
LEMMA InputParses ==
  ASSUME NEW configured \in Seq(LevelParams), NEW tokens \in Seq(SomeToken)
  PROVE  /\ ParsedInput(configured, tokens).parsed \in BOOLEAN
         /\ ParsedInput(configured, tokens).parsed <=> IsInput(tokens, Len(configured))
         /\ ParsedInput(configured, tokens).parsed =>
              InputOf(ParsedInput(configured, tokens).levels,
                      ParsedInput(configured, tokens).requests, configured, tokens)
<1>1. PICK n \in Nat : n = Len(tokens)
  OBVIOUS
<1>2. PICK k \in Nat : k = Len(configured)
  OBVIOUS
<1>3. PICK ints : ints = PrefixLength(IsInt, tokens)
  OBVIOUS
<1>4. /\ ints \in 0..n
      /\ \A i \in 1..ints : IsInt(tokens[i])
      /\ ints < n => ~ IsInt(tokens[ints + 1])
  BY <1>1, <1>3, IntsPrefix
<1>5. PICK rest : rest = k + 1
  OBVIOUS
<1>6. PICK count : count = IF ints < rest THEN 0 ELSE tokens[rest].value
  OBVIOUS
<1>7. PICK found : found = IF ints < rest THEN 0 ELSE Min({count, ints - rest})
  OBVIOUS
<1>8. PICK sizes : sizes = Min({k, ints})
  OBVIOUS
<1>9. ResultIs(configured, tokens, ints, rest, count, found, sizes)
  <2>1. rest = Len(configured) + 1
    BY <1>2, <1>5
  <2>2. sizes = Min({Len(configured), ints})
    BY <1>2, <1>8
  <2>. QED
    BY <1>3, <1>6, <1>7, <2>1, <2>2, InputResult
<1>10. count \in Nat
  <2>1. CASE ints < rest
    BY <1>6, <2>1
  <2>2. CASE ~(ints < rest)
    <3>1. rest \in 1..ints /\ rest \in 1..n
      BY <1>4, <1>5, <2>2
    <3>2. IsInt(tokens[rest]) /\ tokens[rest] \in SomeToken
      BY <1>1, <1>4, <3>1
    <3>. QED
      BY <1>6, <2>2, <3>2, TokenFacts
  <2>. QED
    BY <2>1, <2>2
<1>11. ints >= rest => found = IF count <= ints - rest THEN count ELSE ints - rest
  <2>. SUFFICES ASSUME ints >= rest
                PROVE  found = IF count <= ints - rest THEN count ELSE ints - rest
    OBVIOUS
  <2>1. ints - rest \in Nat /\ ~(ints < rest)
    BY <1>4, <1>5
  <2>. QED
    BY <1>7, <1>10, <2>1, SmallerOfTwo
<1>12. sizes = IF k <= ints THEN k ELSE ints
  BY <1>4, <1>8, SmallerOfTwo
<1>13. ParsedInput(configured, tokens).parsed
         <=> ints >= rest /\ found = count /\ n = rest + count
  BY <1>1, <1>9 DEF ResultIs
<1>14. ASSUME ints >= rest, found = count, n = rest + count
       PROVE  /\ IsInput(tokens, k)
              /\ InputOf(ParsedInput(configured, tokens).levels,
                         ParsedInput(configured, tokens).requests, configured, tokens)
  <2>1. ints = n /\ k + 1 <= n /\ sizes = k
    BY <1>4, <1>5, <1>10, <1>11, <1>12, <1>14
  <2>2. \A i \in 1..n : /\ IsInt(tokens[i]) /\ tokens[i].value \in Nat
                        /\ tokens[i] = INT(tokens[i].value)
    <3>. TAKE i \in 1..n
    <3>1. IsInt(tokens[i]) /\ tokens[i] \in SomeToken
      BY <1>1, <1>4, <2>1
    <3>. QED
      BY <3>1, TokenFacts
  <2>3. rest \in 1..n /\ count = tokens[rest].value
    BY <1>5, <1>6, <1>14, <2>1
  <2>4. IsInput(tokens, k)
    <3>1. DOMAIN tokens = 1..n
      BY <1>1
    <3>2. n > k /\ n = k + 1 + tokens[k + 1].value
      BY <1>5, <1>14, <2>1, <2>3
    <3>. QED
      BY <1>1, <2>2, <3>1, <3>2 DEF IsInput
  <2>5. PICK requests : requests = [i \in 1..count |-> tokens[rest + i].value]
    OBVIOUS
  <2>6. /\ requests \in Seq(Nat) /\ Len(requests) = count
        /\ \A i \in 1..count : tokens[rest + i] = INT(requests[i])
    <3>1. \A i \in 1..count : rest + i \in 1..n
      BY <1>5, <1>10, <1>14
    <3>2. \A i \in 1..count : /\ tokens[rest + i].value \in Nat
                              /\ tokens[rest + i] = INT(tokens[rest + i].value)
      BY <2>2, <3>1
    <3>3. requests \in [1..count -> Nat]
      BY <2>5, <3>2
    <3>. QED
      BY <1>10, <2>5, <3>2, <3>3
  <2>7. PICK levels : levels = [i \in DOMAIN configured |->
                                  IF i <= sizes
                                    THEN [configured[i] EXCEPT !.size = tokens[i].value]
                                    ELSE configured[i]]
    OBVIOUS
  <2>8. \A i \in 1..k : /\ levels[i] \in LevelParams
                        /\ levels[i].strategy = configured[i].strategy
                        /\ tokens[i] = INT(levels[i].size)
    <3>. TAKE i \in 1..k
    <3>1. i \in DOMAIN configured /\ i <= sizes /\ i \in 1..n /\ configured[i] \in LevelParams
      BY <1>2, <2>1
    <3>2. levels[i] = [configured[i] EXCEPT !.size = tokens[i].value]
      BY <2>7, <3>1
    <3>. QED
      BY <2>2, <3>1, <3>2 DEF LevelParams
  <2>9. levels \in Seq(LevelParams) /\ Len(levels) = k
    <3>1. DOMAIN configured = 1..k
      BY <1>2
    <3>2. levels = [i \in 1..k |-> levels[i]]
      BY <2>7, <3>1
    <3>3. levels \in [1..k -> LevelParams]
      BY <2>8, <3>2
    <3>. QED
      BY <3>2, <3>3
  <2>10. InputOf(levels, requests, configured, tokens)
    BY <1>1, <1>2, <1>5, <1>14, <2>3, <2>2, <2>6, <2>8, <2>9 DEF InputOf
  <2>. QED
    BY <1>9, <1>14, <2>4, <2>5, <2>7, <2>10 DEF ResultIs
<1>15. ASSUME IsInput(tokens, k) PROVE ints >= rest /\ found = count /\ n = rest + count
  <2>1. /\ \A i \in 1..n : IsInt(tokens[i])
        /\ n > k /\ n = k + 1 + tokens[k + 1].value
    BY <1>1, <1>15 DEF IsInput
  <2>2. ints = n
    BY <1>4, <2>1
  <2>3. ints >= rest /\ count = tokens[k + 1].value
    BY <1>5, <1>6, <2>1, <2>2
  <2>. QED
    BY <1>5, <1>10, <1>11, <2>1, <2>2, <2>3
<1>. QED
  BY <1>2, <1>9, <1>13, <1>14, <1>15 DEF ResultIs

\* Lists that agree item by item are the same.
LEMMA SameItems ==
  ASSUME NEW S, NEW s \in Seq(S), NEW t \in Seq(S), Len(s) = Len(t),
         \A i \in 1..Len(s) : s[i] = t[i]
  PROVE  s = t
OBVIOUS

\* A configuration file, token by token.
LEMMA ConfigFileFacts ==
  ASSUME NEW strategies \in Seq(strategyNames)
  PROVE  /\ ConfigFile(strategies) \in Seq(SomeToken)
         /\ Len(ConfigFile(strategies)) = Len(strategies) + 1
         /\ ConfigFile(strategies)[1] = INT(Len(strategies))
         /\ \A i \in 1..Len(strategies) :
              ConfigFile(strategies)[i + 1] = IDENTIFIER(strategies[i])
<1>1. PICK n \in Nat : n = Len(strategies) /\ DOMAIN strategies = 1..n
  OBVIOUS
<1>2. PICK names : names = [i \in DOMAIN strategies |-> IDENTIFIER(strategies[i])]
  OBVIOUS
<1>3. names \in Seq(SomeToken) /\ Len(names) = n
  <2>1. names = [i \in 1..n |-> IDENTIFIER(strategies[i])]
    BY <1>1, <1>2
  <2>2. \A i \in 1..n : IDENTIFIER(strategies[i]) \in SomeToken
    BY <1>1 DEF IDENTIFIER, SomeToken
  <2>. QED
    BY <2>1, <2>2
<1>4. PICK head \in Seq(SomeToken) : head = <<INT(n)>> /\ Len(head) = 1 /\ head[1] = INT(n)
  <2>1. PICK token \in SomeToken : token = INT(n)
    BY DEF INT, SomeToken
  <2>2. <<token>> \in Seq(SomeToken) /\ Len(<<token>>) = 1 /\ <<token>>[1] = token
    OBVIOUS
  <2>. QED
    BY <2>1, <2>2
<1>5. ConfigFile(strategies) = head \o names
  BY <1>1, <1>2, <1>4 DEF ConfigFile
<1>6. /\ head \o names \in Seq(SomeToken)
      /\ Len(head \o names) = Len(head) + Len(names)
      /\ \A i \in 1..(Len(head) + Len(names)) :
           (head \o names)[i] = IF i <= Len(head) THEN head[i] ELSE names[i - Len(head)]
  BY <1>3, <1>4, ConcatProperties
<1>7. (head \o names)[1] = INT(n)
  BY <1>3, <1>4, <1>6
<1>8. \A i \in 1..n : (head \o names)[i + 1] = names[i]
  BY <1>3, <1>4, <1>6
<1>. QED
  BY <1>1, <1>2, <1>3, <1>4, <1>5, <1>6, <1>7, <1>8

\* An input file, token by token.
LEMMA InputFileFacts ==
  ASSUME NEW capacities \in Seq(Nat), NEW requests \in Seq(Nat)
  PROVE  /\ InputFile(capacities, requests) \in Seq(SomeToken)
         /\ Len(InputFile(capacities, requests)) = Len(capacities) + 1 + Len(requests)
         /\ \A i \in 1..Len(capacities) :
              InputFile(capacities, requests)[i] = INT(capacities[i])
         /\ InputFile(capacities, requests)[Len(capacities) + 1] = INT(Len(requests))
         /\ \A i \in 1..Len(requests) :
              InputFile(capacities, requests)[Len(capacities) + 1 + i] = INT(requests[i])
<1>1. ASSUME NEW list \in Seq(Nat)
      PROVE  /\ Ints(list) \in Seq(SomeToken) /\ Len(Ints(list)) = Len(list)
             /\ \A i \in 1..Len(list) : Ints(list)[i] = INT(list[i])
  <2>1. PICK n \in Nat : n = Len(list) /\ DOMAIN list = 1..n
    OBVIOUS
  <2>2. Ints(list) = [i \in 1..n |-> INT(list[i])]
    BY <2>1 DEF Ints
  <2>3. \A i \in 1..n : INT(list[i]) \in SomeToken
    BY <2>1 DEF INT, SomeToken
  <2>. QED
    BY <2>1, <2>2, <2>3
<1>2. PICK k \in Nat, n \in Nat : k = Len(capacities) /\ n = Len(requests)
  OBVIOUS
<1>3. PICK first \in Seq(SomeToken) : /\ first = Ints(capacities) /\ Len(first) = k
                                  /\ \A i \in 1..k : first[i] = INT(capacities[i])
  BY <1>1, <1>2
<1>4. PICK last \in Seq(SomeToken) : /\ last = Ints(requests) /\ Len(last) = n
                                 /\ \A i \in 1..n : last[i] = INT(requests[i])
  BY <1>1, <1>2
<1>5. PICK count \in Seq(SomeToken) : count = <<INT(n)>> /\ Len(count) = 1 /\ count[1] = INT(n)
  <2>1. PICK token \in SomeToken : token = INT(n)
    BY DEF INT, SomeToken
  <2>2. <<token>> \in Seq(SomeToken) /\ Len(<<token>>) = 1 /\ <<token>>[1] = token
    OBVIOUS
  <2>. QED
    BY <2>1, <2>2
<1>6. PICK begin \in Seq(SomeToken) : /\ begin = first \o count
                                  /\ Len(begin) = k + 1
                                  /\ \A i \in 1..(k + 1) :
                                       begin[i] = IF i <= k THEN first[i] ELSE count[i - k]
  <2>1. /\ first \o count \in Seq(SomeToken)
        /\ Len(first \o count) = Len(first) + Len(count)
        /\ \A i \in 1..(Len(first) + Len(count)) :
             (first \o count)[i] = IF i <= Len(first) THEN first[i] ELSE count[i - Len(first)]
    BY ConcatProperties
  <2>. QED
    BY <1>3, <1>5, <2>1
<1>7. PICK all \in Seq(SomeToken) : /\ all = begin \o last
                                /\ Len(all) = k + 1 + n
                                /\ \A i \in 1..(k + 1 + n) :
                                     all[i] = IF i <= k + 1 THEN begin[i] ELSE last[i - (k + 1)]
  <2>1. /\ begin \o last \in Seq(SomeToken)
        /\ Len(begin \o last) = Len(begin) + Len(last)
        /\ \A i \in 1..(Len(begin) + Len(last)) :
             (begin \o last)[i] = IF i <= Len(begin) THEN begin[i] ELSE last[i - Len(begin)]
    BY ConcatProperties
  <2>2. PICK m \in Nat : m = k + 1
    BY <1>2
  <2>3. Len(begin) = m /\ Len(last) = n
    BY <1>4, <1>6, <2>2
  <2>4. /\ Len(begin \o last) = m + n
        /\ \A i \in 1..(m + n) :
             (begin \o last)[i] = IF i <= m THEN begin[i] ELSE last[i - m]
    BY <2>1, <2>3
  <2>. QED
    BY <2>1, <2>2, <2>4
<1>8. InputFile(capacities, requests) = all
  BY <1>2, <1>3, <1>4, <1>5, <1>6, <1>7 DEF InputFile
<1>9. \A i \in 1..k : all[i] = INT(capacities[i])
  BY <1>3, <1>6, <1>7
<1>10. all[k + 1] = INT(n)
  <2>1. k + 1 \in 1..(k + 1) /\ k + 1 \in 1..(k + 1 + n) /\ ~ (k + 1 <= k) /\ (k + 1) - k = 1
    OBVIOUS
  <2>2. all[k + 1] = begin[k + 1]
    BY <1>7, <2>1
  <2>3. begin[k + 1] = count[1]
    BY <1>6, <2>1
  <2>. QED
    BY <1>5, <2>2, <2>3
<1>11. \A i \in 1..n : all[k + 1 + i] = INT(requests[i])
  BY <1>4, <1>7
<1>. QED
  BY <1>2, <1>7, <1>8, <1>9, <1>10, <1>11

\* A configuration of the grammar is the file of its strategies.
LEMMA ConfigIsFile ==
  ASSUME NEW tokens \in Seq(SomeToken), NEW levels, ConfigOf(levels, tokens)
  PROVE  /\ [i \in DOMAIN levels |-> levels[i].strategy] \in Seq(strategyNames)
         /\ tokens = ConfigFile([i \in DOMAIN levels |-> levels[i].strategy])
<1>1. PICK n \in Nat : n = Len(levels) /\ DOMAIN levels = 1..n
  BY DEF ConfigOf
<1>2. PICK names : names = [i \in DOMAIN levels |-> levels[i].strategy]
  OBVIOUS
<1>3. names = [i \in 1..n |-> levels[i].strategy]
  BY <1>1, <1>2
<1>4. \A i \in 1..n : levels[i].strategy \in strategyNames
  <2>. TAKE i \in 1..n
  <2>1. levels \in Seq(LevelParams) /\ i \in 1..Len(levels)
    BY <1>1 DEF ConfigOf
  <2>2. levels[i] \in LevelParams
    BY <2>1
  <2>. QED
    BY <2>2 DEF LevelParams
<1>5. names \in Seq(strategyNames) /\ Len(names) = n
  <2>1. names \in [1..n -> strategyNames]
    BY <1>3, <1>4
  <2>. QED
    BY <1>1, <2>1
<1>6. PICK file \in Seq(SomeToken) :
        /\ file = ConfigFile(names) /\ Len(file) = n + 1 /\ file[1] = INT(n)
        /\ \A i \in 1..n : file[i + 1] = IDENTIFIER(names[i])
  BY <1>5, ConfigFileFacts
<1>7. Len(tokens) = n + 1 /\ tokens[1] = INT(n)
  BY <1>1 DEF ConfigOf
<1>8. \A i \in 1..n : tokens[i + 1] = IDENTIFIER(names[i])
  BY <1>1, <1>3 DEF ConfigOf
<1>9. \A i \in 1..(n + 1) : tokens[i] = file[i]
  <2>. TAKE i \in 1..(n + 1)
  <2>1. CASE i = 1
    BY <1>6, <1>7, <2>1
  <2>2. CASE i # 1
    <3>1. i - 1 \in 1..n /\ (i - 1) + 1 = i
      BY <2>2
    <3>. QED
      BY <1>6, <1>8, <3>1
  <2>. QED
    BY <2>1, <2>2
<1>10. tokens = file
  BY <1>6, <1>7, <1>9, SameItems
<1>. QED
  BY <1>2, <1>5, <1>6, <1>10

\* An input of the grammar is the file of its sizes and requests.
LEMMA InputIsFile ==
  ASSUME NEW tokens \in Seq(SomeToken), NEW levels, NEW list, NEW configured,
         InputOf(levels, list, configured, tokens)
  PROVE  /\ [i \in DOMAIN levels |-> levels[i].size] \in Seq(Nat)
         /\ tokens = InputFile([i \in DOMAIN levels |-> levels[i].size], list)
<1>1. PICK k \in Nat : k = Len(levels) /\ DOMAIN levels = 1..k
  BY DEF InputOf
<1>2. PICK sizes : sizes = [i \in DOMAIN levels |-> levels[i].size]
  OBVIOUS
<1>3. sizes = [i \in 1..k |-> levels[i].size]
  BY <1>1, <1>2
<1>4. \A i \in 1..k : levels[i].size \in Nat
  <2>. TAKE i \in 1..k
  <2>1. levels \in Seq(LevelParams) /\ i \in 1..Len(levels)
    BY <1>1 DEF InputOf
  <2>2. levels[i] \in LevelParams
    BY <2>1
  <2>. QED
    BY <2>2 DEF LevelParams
<1>5. sizes \in Seq(Nat) /\ Len(sizes) = k
  BY <1>3, <1>4
<1>6. list \in Seq(Nat)
  BY DEF InputOf
<1>7. PICK n \in Nat : n = Len(list)
  BY <1>6
<1>8. PICK file \in Seq(SomeToken) :
        /\ file = InputFile(sizes, list) /\ Len(file) = k + 1 + n
        /\ \A i \in 1..k : file[i] = INT(sizes[i])
        /\ file[k + 1] = INT(n)
        /\ \A i \in 1..n : file[k + 1 + i] = INT(list[i])
  BY <1>5, <1>6, <1>7, InputFileFacts
<1>9. /\ Len(tokens) = k + 1 + n
      /\ \A i \in 1..k : tokens[i] = INT(sizes[i])
      /\ tokens[k + 1] = INT(n)
      /\ \A i \in 1..n : tokens[k + 1 + i] = INT(list[i])
  BY <1>1, <1>3, <1>7 DEF InputOf
<1>10. \A i \in 1..(k + 1 + n) : tokens[i] = file[i]
  <2>. TAKE i \in 1..(k + 1 + n)
  <2>1. CASE i \in 1..k
    BY <1>8, <1>9, <2>1
  <2>2. CASE i = k + 1
    BY <1>8, <1>9, <2>2
  <2>3. CASE i > k + 1
    <3>1. i - (k + 1) \in 1..n /\ k + 1 + (i - (k + 1)) = i
      BY <2>3
    <3>. QED
      BY <1>8, <1>9, <3>1
  <2>. QED
    BY <2>1, <2>2, <2>3
<1>11. tokens = file
  BY <1>8, <1>9, <1>10, SameItems
<1>. QED
  BY <1>2, <1>5, <1>8, <1>11

\* parseInput gives the levels of the configuration other sizes, and nothing
\* else, also when it throws.
LEMMA InputKeepsLevels ==
  ASSUME NEW configured \in Seq(LevelParams), NEW tokens \in Seq(SomeToken),
         NEW levels, levels = ParsedInput(configured, tokens).levels
  PROVE  /\ levels \in Seq(LevelParams)
         /\ Len(levels) = Len(configured)
         /\ \A i \in 1..Len(configured) : levels[i].strategy = configured[i].strategy
<1>1. PICK k \in Nat, n \in Nat : /\ k = Len(configured) /\ DOMAIN configured = 1..k
                                  /\ n = Len(tokens)
  OBVIOUS
<1>2. PICK ints : ints = PrefixLength(IsInt, tokens)
  OBVIOUS
<1>3. ints \in 0..n /\ \A i \in 1..ints : IsInt(tokens[i])
  BY <1>1, <1>2, IntsPrefix
<1>4. PICK sizes : sizes = Min({k, ints})
  OBVIOUS
<1>5. sizes = IF k <= ints THEN k ELSE ints
  BY <1>3, <1>4, SmallerOfTwo
<1>6. levels = [i \in 1..k |-> IF i <= sizes THEN [configured[i] EXCEPT !.size = tokens[i].value]
                               ELSE configured[i]]
  BY <1>1, <1>2, <1>4 DEF ParsedInput
<1>7. \A i \in 1..k : levels[i] \in LevelParams /\ levels[i].strategy = configured[i].strategy
  <2>. TAKE i \in 1..k
  <2>1. configured[i] \in LevelParams
    BY <1>1
  <2>2. CASE i <= sizes
    <3>1. i \in 1..ints /\ i \in 1..n
      BY <1>3, <1>5, <2>2
    <3>2. IsInt(tokens[i]) /\ tokens[i] \in SomeToken
      BY <1>1, <1>3, <3>1
    <3>3. tokens[i].value \in Nat
      BY <3>2, TokenFacts
    <3>4. levels[i] = [configured[i] EXCEPT !.size = tokens[i].value]
      BY <1>6, <2>2
    <3>. QED
      BY <2>1, <3>3, <3>4 DEF LevelParams
  <2>3. CASE ~(i <= sizes)
    BY <1>6, <2>1, <2>3
  <2>. QED
    BY <2>2, <2>3
<1>8. levels \in [1..k -> LevelParams]
  BY <1>6, <1>7
<1>. QED
  BY <1>1, <1>6, <1>7, <1>8

-----------------------------------------------------------------------------
(***************************************************************************)
(* The experiment of a runner that reads a whole pair of files.            *)
(***************************************************************************)

\* What the runner takes: at most three strategies, as many sizes, all of them
\* great enough, REF alone, and at least one request.
Runnable(strategies, capacities, requests) ==
  /\ strategies \in Seq(strategyNames) /\ Len(strategies) \in 1..3
  /\ capacities \in Seq(Nat) /\ Len(capacities) = Len(strategies)
  /\ requests \in Seq(Nat) /\ requests # <<>>
  /\ \A i \in 1..Len(strategies) :
       /\ capacities[i] >= IF strategies[i] \in {"2Q", "LIRS"} THEN 2 ELSE 1
       /\ strategies[i] = "REF" => Len(strategies) = 1

\* The parser reads a configuration file as it was meant.
LEMMA ConfigRead ==
  ASSUME NEW strategies \in Seq(strategyNames), Len(strategies) \in 1..3,
         NEW result, result = ParsedConfig(ConfigFile(strategies))
  PROVE  /\ result.parsed
         /\ result.levels \in Seq(LevelParams) /\ Len(result.levels) = Len(strategies)
         /\ \A i \in 1..Len(strategies) : result.levels[i].strategy = strategies[i]
<1>1. PICK n \in 1..3 : n = Len(strategies)
  OBVIOUS
<1>2. PICK file \in Seq(SomeToken) :
        /\ file = ConfigFile(strategies) /\ Len(file) = n + 1 /\ file[1] = INT(n)
        /\ \A i \in 1..n : file[i + 1] = IDENTIFIER(strategies[i])
  BY <1>1, ConfigFileFacts
<1>3. \A i \in 1..n : strategies[i] \in strategyNames
  BY <1>1
<1>4. IsConfig(file)
  BY <1>1, <1>2, <1>3 DEF IsConfig, maxCacheLevel
<1>5. result.parsed /\ ConfigOf(result.levels, file)
  BY <1>2, <1>4, ConfigParses
<1>6. PICK levels : levels = result.levels
  OBVIOUS
<1>7. levels \in Seq(LevelParams) /\ Len(levels) = n
  <2>1. levels \in Seq(LevelParams) /\ Len(file) = Len(levels) + 1
    BY <1>5, <1>6 DEF ConfigOf
  <2>. QED
    BY <1>2, <2>1
<1>8. ASSUME NEW i \in 1..n PROVE levels[i].strategy = strategies[i]
  <2>1. IDENTIFIER(levels[i].strategy) = IDENTIFIER(strategies[i])
    BY <1>2, <1>5, <1>6, <1>7 DEF ConfigOf
  <2>. QED
    BY <2>1 DEF IDENTIFIER
<1>. QED
  BY <1>1, <1>5, <1>6, <1>7, <1>8

\* The parser reads an input file as it was meant.
LEMMA InputRead ==
  ASSUME NEW configured \in Seq(LevelParams),
         NEW capacities \in Seq(Nat), NEW requests \in Seq(Nat),
         Len(configured) = Len(capacities),
         NEW result, result = ParsedInput(configured, InputFile(capacities, requests))
  PROVE  /\ result.parsed
         /\ result.requests = requests
         /\ result.levels = [i \in 1..Len(capacities) |->
                               [strategy |-> configured[i].strategy, size |-> capacities[i]]]
<1>1. PICK k \in Nat, n \in Nat : k = Len(capacities) /\ n = Len(requests)
  OBVIOUS
<1>2. PICK file \in Seq(SomeToken) :
        /\ file = InputFile(capacities, requests) /\ Len(file) = k + 1 + n
        /\ \A i \in 1..k : file[i] = INT(capacities[i])
        /\ file[k + 1] = INT(n)
        /\ \A i \in 1..n : file[k + 1 + i] = INT(requests[i])
  BY <1>1, InputFileFacts
<1>3. \A i \in DOMAIN file : IsInt(file[i])
  <2>. TAKE i \in DOMAIN file
  <2>1. i \in 1..(k + 1 + n)
    BY <1>2
  <2>2. CASE i \in 1..k
    <3>1. file[i] = INT(capacities[i])
      BY <1>2, <2>2
    <3>. QED
      BY <3>1 DEF INT, IsInt
  <2>3. CASE i = k + 1
    <3>1. file[i] = INT(n)
      BY <1>2, <2>3
    <3>. QED
      BY <3>1 DEF INT, IsInt
  <2>4. CASE i > k + 1
    <3>1. PICK j \in 1..n : i = k + 1 + j
      <4>1. i - (k + 1) \in 1..n /\ i = k + 1 + (i - (k + 1))
        BY <2>1, <2>4
      <4>. QED
        BY <4>1
    <3>2. file[i] = INT(requests[j])
      BY <1>2, <3>1
    <3>. QED
      BY <3>2 DEF INT, IsInt
  <2>. QED
    BY <2>1, <2>2, <2>3, <2>4
<1>4. IsInput(file, k)
  <2>1. Len(file) > k
    BY <1>2
  <2>2. file[k + 1].value = n
    BY <1>2 DEF INT
  <2>3. Len(file) = k + 1 + file[k + 1].value
    BY <1>2, <2>2
  <2>. QED
    BY <1>3, <2>1, <2>3 DEF IsInput
<1>5. PICK levels, list : levels = result.levels /\ list = result.requests
  OBVIOUS
<1>6. result.parsed /\ InputOf(levels, list, configured, file)
  BY <1>1, <1>2, <1>4, <1>5, InputParses
<1>7. /\ levels \in Seq(LevelParams) /\ list \in Seq(Nat)
      /\ Len(levels) = k /\ k + 1 + n = k + 1 + Len(list)
      /\ \A i \in 1..k : /\ levels[i].strategy = configured[i].strategy
                         /\ INT(capacities[i]) = INT(levels[i].size)
      /\ \A i \in 1..Len(list) : file[k + 1 + i] = INT(list[i])
  BY <1>1, <1>2, <1>6 DEF InputOf
<1>8. Len(list) = n
  <2>1. Len(list) \in Nat
    BY <1>7
  <2>. QED
    BY <1>7, <2>1
<1>9. \A i \in 1..n : INT(requests[i]) = INT(list[i])
  BY <1>2, <1>7, <1>8
<1>10. list = requests
  <2>1. \A i \in 1..n : requests[i] = list[i]
    BY <1>9 DEF INT
  <2>. QED
    BY <1>1, <1>7, <1>8, <2>1, SameItems
<1>11. \A i \in 1..k :
         levels[i] = [strategy |-> configured[i].strategy, size |-> capacities[i]]
  <2>. TAKE i \in 1..k
  <2>1. levels[i] \in LevelParams
    BY <1>7
  <2>2. capacities[i] = levels[i].size
    BY <1>7 DEF INT
  <2>. QED
    BY <1>7, <2>1, <2>2 DEF LevelParams
<1>12. levels = [i \in 1..k |-> [strategy |-> configured[i].strategy, size |-> capacities[i]]]
  <2>1. levels = [i \in 1..k |-> levels[i]]
    BY <1>7
  <2>. QED
    BY <1>11, <2>1
<1>. QED
  BY <1>1, <1>5, <1>6, <1>10, <1>12

\* The runner measures the experiment that the two files were written for.
LEMMA RunsAsIntended ==
  ASSUME NEW strategies, NEW capacities, NEW requests,
         Runnable(strategies, capacities, requests)
  PROVE  /\ RunExperiment(ConfigFile(strategies), InputFile(capacities, requests))
              = Intended(strategies, capacities, requests)
         /\ Intended(strategies, capacities, requests) # NoExperiment
         /\ CountersAccepted(Intended(strategies, capacities, requests),
                             Len(requests), Len(capacities))
<1>1. /\ strategies \in Seq(strategyNames) /\ Len(strategies) \in 1..3
          /\ capacities \in Seq(Nat) /\ Len(capacities) = Len(strategies)
      /\ requests \in Seq(Nat) /\ requests # <<>>
  BY DEF Runnable
<1>2. PICK n \in 1..3 : n = Len(strategies) /\ DOMAIN strategies = 1..n
  BY <1>1
<1>3. PICK fromConfig : fromConfig = ParsedConfig(ConfigFile(strategies))
  OBVIOUS
<1>4. /\ fromConfig.parsed
      /\ fromConfig.levels \in Seq(LevelParams) /\ Len(fromConfig.levels) = n
      /\ \A i \in 1..n : fromConfig.levels[i].strategy = strategies[i]
  BY <1>1, <1>2, <1>3, ConfigRead
<1>5. PICK fromInput :
        fromInput = ParsedInput(fromConfig.levels, InputFile(capacities, requests))
  OBVIOUS
<1>6. /\ fromInput.parsed
      /\ fromInput.requests = requests
      /\ fromInput.levels = [i \in 1..Len(capacities) |->
                               [strategy |-> fromConfig.levels[i].strategy,
                                size |-> capacities[i]]]
  <2>1. PICK configured \in Seq(LevelParams) : configured = fromConfig.levels
    BY <1>4
  <2>2. /\ Len(configured) = Len(capacities)
        /\ fromInput = ParsedInput(configured, InputFile(capacities, requests))
    BY <1>1, <1>2, <1>4, <1>5, <2>1
  <2>3. capacities \in Seq(Nat) /\ requests \in Seq(Nat)
    BY <1>1
  <2>4. /\ fromInput.parsed
        /\ fromInput.requests = requests
        /\ fromInput.levels = [i \in 1..Len(capacities) |->
                                 [strategy |-> configured[i].strategy, size |-> capacities[i]]]
    BY <2>2, <2>3, InputRead
  <2>. QED
    BY <2>1, <2>4
<1>7. PICK levels : levels = [i \in 1..n |-> [strategy |-> strategies[i], size |-> capacities[i]]]
  OBVIOUS
<1>8. fromInput.levels = levels
  BY <1>1, <1>2, <1>4, <1>6, <1>7
<1>9. Intended(strategies, capacities, requests) = [levels |-> levels, requests |-> requests]
  BY <1>2, <1>7 DEF Intended
<1>10. Len(levels) = n /\ DOMAIN levels = 1..n /\ levels # <<>>
  BY <1>7
<1>11. Supported(levels)
  <2>1. ASSUME NEW i \in 1..n
        PROVE  /\ levels[i].size >= IF levels[i].strategy \in {"2Q", "LIRS"} THEN 2 ELSE 1
               /\ levels[i].strategy = "REF" => Len(levels) = 1
    <3>1. levels[i].strategy = strategies[i] /\ levels[i].size = capacities[i]
      BY <1>7
    <3>2. /\ capacities[i] >= IF strategies[i] \in {"2Q", "LIRS"} THEN 2 ELSE 1
          /\ strategies[i] = "REF" => n = 1
      BY <1>2 DEF Runnable
    <3>. QED
      BY <1>10, <3>1, <3>2
  <2>. QED
    BY <1>10, <2>1 DEF Supported
<1>12. RunExperiment(ConfigFile(strategies), InputFile(capacities, requests))
         = [levels |-> levels, requests |-> requests]
  BY <1>1, <1>3, <1>4, <1>5, <1>6, <1>8, <1>11 DEF RunExperiment
<1>13. [levels |-> levels, requests |-> requests] # NoExperiment
  BY <1>1 DEF NoExperiment
<1>14. CountersAccepted([levels |-> levels, requests |-> requests], Len(requests), Len(capacities))
  BY <1>1, <1>2, <1>10 DEF CountersAccepted
<1>. QED
  BY <1>9, <1>12, <1>13, <1>14

-----------------------------------------------------------------------------
(***************************************************************************)
(* Combinations of strategies.                                             *)
(***************************************************************************)

\* dict.fromkeys: every item once.
LEMMA FromKeysFacts ==
  ASSUME NEW S, NEW seq \in Seq(S), NEW keys, keys = FromKeys(seq)
  PROVE  /\ keys \in Seq(S)
         /\ ToSet(keys) = ToSet(seq)
         /\ Len(keys) = Cardinality(ToSet(seq))
         /\ IsInjective(keys)
<1>1. PICK n \in Nat : n = Len(seq) /\ DOMAIN seq = 1..n
  OBVIOUS
<1>2. PICK first : first = {i \in 1..n : \A j \in 1..(i - 1) : seq[j] # seq[i]}
  OBVIOUS
<1>3. PICK all \in Seq(1..n) : all = [i \in 1..n |-> i] /\ ToSet(all) = 1..n /\ IsInjective(all)
  <2>1. PICK all : all = [i \in 1..n |-> i]
    OBVIOUS
  <2>2. all \in Seq(1..n) /\ Len(all) = n /\ DOMAIN all = 1..n
    BY <2>1
  <2>3. ToSet(all) = 1..n
    BY <2>1, <2>2 DEF ToSet
  <2>4. IsInjective(all)
    BY <2>1, <2>2 DEF IsInjective
  <2>. QED
    BY <2>1, <2>2, <2>3, <2>4
<1>4. PICK order : order = Among(all, first)
  OBVIOUS
<1>5. order \in Seq(1..n) /\ ToSet(order) = first /\ IsInjective(order)
  <2>1. Among(all, first) \in Seq(1..n)
    BY AmongType
  <2>2. /\ ToSet(Among(all, first)) = ToSet(all) \cap first
        /\ IsInjective(all) => IsInjective(Among(all, first))
    BY AmongItems
  <2>. QED
    BY <1>2, <1>3, <1>4, <2>1, <2>2
<1>6. PICK m \in Nat : m = Len(order) /\ DOMAIN order = 1..m
  BY <1>5
<1>7. keys = [k \in 1..m |-> seq[order[k]]]
  BY <1>1, <1>2, <1>3, <1>4, <1>6 DEF FromKeys
<1>8. \A k \in 1..m : order[k] \in first /\ order[k] \in 1..n
  <2>. TAKE k \in 1..m
  <2>1. order[k] \in ToSet(order)
    BY <1>6 DEF ToSet
  <2>. QED
    BY <1>2, <1>5, <2>1
<1>9. keys \in Seq(S) /\ Len(keys) = m /\ DOMAIN keys = 1..m
  <2>1. \A k \in 1..m : seq[order[k]] \in S
    BY <1>1, <1>8
  <2>. QED
    BY <1>7, <2>1
<1>10. ASSUME NEW i \in 1..n PROVE \E k \in 1..m : keys[k] = seq[i]
  <2>. DEFINE same == {j \in 1..n : seq[j] = seq[i]}
  <2>1. same \in SUBSET Nat /\ i \in same
    OBVIOUS
  <2>2. PICK least \in same : \A j \in same : least <= j
    <3>. HIDE DEF same
    <3>. QED
      BY <2>1, Smallest
  <2>3. least \in first
    <3>1. ASSUME NEW j \in 1..(least - 1), seq[j] = seq[least] PROVE FALSE
      <4>1. j \in same /\ j < least
        BY <3>1
      <4>. QED
        BY <2>2, <4>1
    <3>. QED
      BY <1>2, <3>1
  <2>4. PICK k \in 1..m : order[k] = least
    BY <1>5, <1>6, <2>3 DEF ToSet
  <2>. QED
    BY <1>7, <2>4
<1>11. ToSet(keys) = ToSet(seq)
  <2>1. ASSUME NEW k \in 1..m PROVE keys[k] \in ToSet(seq)
    BY <1>1, <1>7, <1>8 DEF ToSet
  <2>2. ToSet(keys) = {keys[k] : k \in 1..m} /\ ToSet(seq) = {seq[i] : i \in 1..n}
    BY <1>1, <1>9 DEF ToSet
  <2>. QED
    BY <1>10, <2>1, <2>2
<1>12. IsInjective(keys)
  <2>1. ASSUME NEW k \in 1..m, NEW l \in 1..m, keys[k] = keys[l] PROVE k = l
    <3>1. /\ order[k] \in first /\ order[l] \in first
          /\ order[k] \in 1..n /\ order[l] \in 1..n
          /\ seq[order[k]] = seq[order[l]]
      BY <1>7, <1>8, <2>1
    <3>2. ~(order[k] < order[l])
      <4>1. ASSUME order[k] < order[l] PROVE FALSE
        <5>1. order[k] \in 1..(order[l] - 1)
          BY <3>1, <4>1
        <5>. QED
          BY <1>2, <3>1, <5>1
      <4>. QED
        BY <4>1
    <3>3. ~(order[l] < order[k])
      <4>1. ASSUME order[l] < order[k] PROVE FALSE
        <5>1. order[l] \in 1..(order[k] - 1)
          BY <3>1, <4>1
        <5>. QED
          BY <1>2, <3>1, <5>1
      <4>. QED
        BY <4>1
    <3>4. order[k] = order[l]
      BY <3>1, <3>2, <3>3
    <3>. QED
      BY <1>5, <1>6, <3>4 DEF IsInjective
  <2>. QED
    BY <1>9, <2>1 DEF IsInjective
<1>. QED
  BY <1>9, <1>11, <1>12, InjectiveCardinality

\* What is true of the choices of so many strategies.
IsProduct(v, S, strategies, n) ==
  /\ v \in Seq(Seq(S))
  /\ \A chosen \in ToSet(v) : chosen \in [1..n -> ToSet(strategies)]
  /\ \A chosen \in [1..n -> ToSet(strategies)] : chosen \in ToSet(v)
  /\ IsInjective(strategies) => IsInjective(v)

\* The choices of a number of strategies have as many; every choice is there, and
\* once if no strategy is there twice.
LEMMA ProductsAre ==
  ASSUME NEW S, NEW strategies \in Seq(S), NEW levels \in Nat
  PROVE  IsProduct(Products(strategies, levels), S, strategies, levels)
<1>. DEFINE Longer(v) == FlattenSeq([i \in DOMAIN v |-> Extended(v[i], strategies)])
            Eq(g) == g = [n \in 0..levels |-> IF n = 0 THEN << <<>> >> ELSE Longer(g[n - 1])]
            V == Seq(Seq(S))
            step == [a \in (1..levels) \X V |-> Longer(a[2])]
<1>1. \A v \in V : IsLonger(Longer(v), S, strategies, v)
  BY LongerItems
<1>2. \A v \in V : Longer(v) \in V
  BY <1>1 DEF IsLonger
<1>. HIDE DEF Longer
<1>3. step \in [(1..levels) \X V -> V]
  BY <1>2
<1>4. \A i \in 1..levels, v \in V : step[<<i, v>>] = Longer(v)
  OBVIOUS
<1>5. PICK base \in V : base = << <<>> >>
  <2>1. << <<>> >> \in V
    OBVIOUS
  <2>. QED
    BY <2>1
<1>6. PICK W : W = V
  OBVIOUS
<1>. HIDE DEF step, V
<1>7. PICK f : IsCounted(f, levels, V, base, step)
  BY <1>3, CountedRecursion
<1>8. f[0] = base /\ f \in [0..levels -> V] /\ \A i \in 1..levels : f[i] = Longer(f[i - 1])
  <2>1. /\ f[0] = base /\ f \in [0..levels -> V]
        /\ \A i \in 1..levels : f[i] = step[<<i, f[i - 1]>>]
    BY <1>7 DEF IsCounted
  <2>2. ASSUME NEW i \in 1..levels PROVE f[i] = Longer(f[i - 1])
    <3>1. i - 1 \in 0..levels
      OBVIOUS
    <3>. QED
      BY <1>4, <2>1, <3>1
  <2>. QED
    BY <2>1, <2>2
<1>9. Eq(f)
  <2>1. ASSUME NEW n \in 0..levels
        PROVE  f[n] = IF n = 0 THEN << <<>> >> ELSE Longer(f[n - 1])
    BY <1>5, <1>8
  <2>2. f = [n \in 0..levels |-> f[n]]
    BY <1>8
  <2>. QED
    BY <2>1, <2>2
<1>10. Eq(CHOOSE g : Eq(g))
  BY <1>9
<1>11. Products(strategies, levels) = (CHOOSE g : Eq(g))[levels]
  BY DEF Products, Combined, Longer, Extended
<1>. DEFINE c == CHOOSE g : Eq(g)
<1>12. \A n \in 0..levels : c[n] = IF n = 0 THEN << <<>> >> ELSE Longer(c[n - 1])
  BY <1>10
<1>. HIDE DEF c, Eq
<1>. DEFINE P == {n \in Nat : n <= levels => IsProduct(c[n], S, strategies, n)}
<1>13. 0 \in P
  <2>1. 1..0 = {}
    OBVIOUS
  <2>2. \A chosen \in [1..0 -> ToSet(strategies)] : chosen = <<>>
    BY <2>1
  <2>3. <<>> \in [1..0 -> ToSet(strategies)]
    BY <2>1
  <2>4. ToSet(base) = {<<>>} /\ IsInjective(base)
    BY <1>5 DEF ToSet, IsInjective
  <2>5. c[0] = base
    BY <1>5, <1>12
  <2>6. base \in Seq(Seq(S))
    BY <1>5 DEF V
  <2>7. IsProduct(base, S, strategies, 0)
    BY <2>2, <2>3, <2>4, <2>6 DEF IsProduct
  <2>. QED
    BY <2>5, <2>7
<1>14. ASSUME NEW n \in Nat, n \in P PROVE n + 1 \in P
  <2>. SUFFICES ASSUME n + 1 <= levels PROVE IsProduct(c[n + 1], S, strategies, n + 1)
    OBVIOUS
  <2>1. n <= levels /\ n + 1 \in 0..levels /\ n + 1 # 0 /\ (n + 1) - 1 = n
    OBVIOUS
  <2>2. PICK shorter \in Seq(Seq(S)) : shorter = c[n] /\ IsProduct(shorter, S, strategies, n)
    BY <1>14, <2>1 DEF IsProduct
  <2>3. PICK all : all = c[n + 1] /\ all = Longer(shorter)
    BY <1>12, <2>1, <2>2
  <2>4. IsLonger(all, S, strategies, shorter)
    BY <1>1, <2>3 DEF V
  <2>5. PICK T : T = ToSet(strategies)
    OBVIOUS
  <2>6. AreLonger(T, n)
    BY ChoicesLonger
  <2>7. ASSUME NEW list \in ToSet(all) PROVE list \in [1..(n + 1) -> T]
    <3>1. PICK chosen \in ToSet(shorter), strategy \in T : list = Append(chosen, strategy)
      BY <2>4, <2>5 DEF IsLonger
    <3>2. chosen \in [1..n -> T]
      BY <2>2, <2>5 DEF IsProduct
    <3>. QED
      BY <2>6, <3>1, <3>2 DEF AreLonger
  <2>8. ASSUME NEW longer \in [1..(n + 1) -> T] PROVE longer \in ToSet(all)
    <3>1. PICK chosen \in [1..n -> T], strategy \in T : longer = Append(chosen, strategy)
      BY <2>6 DEF AreLonger
    <3>2. chosen \in ToSet(shorter)
      BY <2>2, <2>5 DEF IsProduct
    <3>. QED
      BY <2>4, <2>5, <3>1, <3>2 DEF IsLonger
  <2>9. all \in Seq(Seq(S)) /\ (IsInjective(strategies) => IsInjective(all))
    BY <2>2, <2>4 DEF IsProduct, IsLonger
  <2>. QED
    BY <2>3, <2>5, <2>7, <2>8, <2>9 DEF IsProduct
<1>15. levels \in P
  <2>1. P \in SUBSET Nat /\ \A n \in P : n + 1 \in P
    BY <1>14
  <2>. HIDE DEF P
  <2>. QED
    BY <1>13, <2>1, Induction
<1>. QED
  BY <1>11, <1>15 DEF c

LEMMA ProductsFacts ==
  ASSUME NEW S, NEW strategies \in Seq(S), NEW levels \in Nat
  PROVE  Products(strategies, levels) \in Seq({chosen \in Seq(S) : Len(chosen) = levels})
<1>1. PICK v \in Seq(Seq(S)) : v = Products(strategies, levels) /\ IsProduct(v, S, strategies, levels)
  BY ProductsAre DEF IsProduct
<1>2. PICK n \in Nat : DOMAIN v = 1..n /\ v \in [1..n -> Seq(S)]
  OBVIOUS
<1>3. ASSUME NEW i \in 1..n PROVE v[i] \in {chosen \in Seq(S) : Len(chosen) = levels}
  <2>1. v[i] \in ToSet(v)
    BY <1>2 DEF ToSet
  <2>2. v[i] \in [1..levels -> ToSet(strategies)]
    BY <1>1, <2>1 DEF IsProduct
  <2>3. DOMAIN v[i] = 1..levels
    BY <2>2
  <2>. QED
    BY <1>2, <2>3
<1>4. v \in [1..n -> {chosen \in Seq(S) : Len(chosen) = levels}]
  BY <1>2, <1>3
<1>. QED
  BY <1>1, <1>4

-----------------------------------------------------------------------------
(***************************************************************************)
(* Files that are torn or mixed, and the experiments measured of them.     *)
(***************************************************************************)

\* A token that is cut short is a number greater than zero, or no strategy.
LEMMA CutFacts ==
  ASSUME NEW token \in SomeToken, NEW cut \in CutShort(token)
  PROVE  /\ cut \in SomeToken
         /\ cut = IDENTIFIER("partOfAName") \/ \E v \in Nat \ {0} : cut = INT(v)
<1>1. CASE IsInt(token)
  <2>1. PICK v \in Nat : v = token.value
    BY <1>1, TokenFacts
  <2>2. PICK power \in PowersOfTen : power <= v /\ cut = INT(v \div power)
    BY <1>1, <2>1 DEF CutShort
  <2>3. v \div power \in Nat \ {0}
    BY <2>2 DEF PowersOfTen
  <2>. QED
    BY <2>2, <2>3 DEF INT, SomeToken
<1>2. CASE ~ IsInt(token)
  <2>1. cut = IDENTIFIER("partOfAName")
    BY <1>2 DEF CutShort
  <2>2. "partOfAName" \in STRING \cup strategyNames \cup {"partOfAName"}
    OBVIOUS
  <2>. QED
    BY <2>1, <2>2 DEF IDENTIFIER, SomeToken
<1>. QED
  BY <1>1, <1>2

\* What a reader may find of a file that is being written, or was not finished.
Beginnings(tokens) ==
  {part \in Seq(SomeToken) :
     /\ Len(part) <= Len(tokens)
     /\ \A i \in 1..Len(part) :
          part[i] = tokens[i] \/ (i = Len(part) /\ part[i] \in CutShort(tokens[i]))}

\* An empty file, what is there of a torn one, and a whole one are beginnings.
LEMMA Beginning ==
  ASSUME NEW tokens \in Seq(SomeToken)
  PROVE  /\ <<>> \in Beginnings(tokens)
         /\ Parts(tokens) \subseteq Beginnings(tokens)
         /\ tokens \in Beginnings(tokens)
<1>1. PICK n \in Nat : n = Len(tokens) /\ DOMAIN tokens = 1..n
  OBVIOUS
<1>2. <<>> \in Beginnings(tokens) /\ tokens \in Beginnings(tokens)
  BY DEF Beginnings
<1>3. ASSUME NEW m \in 0..n, NEW part, part = SubSeq(tokens, 1, m)
      PROVE  part \in Seq(SomeToken) /\ Len(part) = m /\ \A i \in 1..m : part[i] = tokens[i]
  <2>1. m \in Nat /\ m <= Len(tokens)
    BY <1>1
  <2>2. /\ SubSeq(tokens, 1, m) \in Seq(SomeToken) /\ Len(SubSeq(tokens, 1, m)) = m
        /\ \A i \in 1..m : SubSeq(tokens, 1, m)[i] = tokens[i]
    BY <2>1, FirstItems
  <2>. QED
    BY <1>3, <2>2
<1>4. ASSUME NEW m \in 0..(n - 1) PROVE SubSeq(tokens, 1, m) \in Beginnings(tokens)
  <2>1. m \in 0..n /\ m <= n
    BY <1>1
  <2>2. PICK part : part = SubSeq(tokens, 1, m)
    OBVIOUS
  <2>3. part \in Seq(SomeToken) /\ Len(part) = m /\ \A i \in 1..m : part[i] = tokens[i]
    BY <1>3, <2>1, <2>2
  <2>4. part \in Beginnings(tokens)
    BY <1>1, <2>1, <2>3 DEF Beginnings
  <2>. QED
    BY <2>2, <2>4
<1>5. ASSUME NEW m \in 1..n, NEW cut \in CutShort(tokens[m])
      PROVE  Append(SubSeq(tokens, 1, m - 1), cut) \in Beginnings(tokens)
  <2>1. m - 1 \in 0..n /\ tokens[m] \in SomeToken
    BY <1>1
  <2>2. PICK part : part = SubSeq(tokens, 1, m - 1)
    OBVIOUS
  <2>3. /\ part \in Seq(SomeToken) /\ Len(part) = m - 1
        /\ \A i \in 1..(m - 1) : part[i] = tokens[i]
    BY <1>3, <2>1, <2>2
  <2>4. cut \in SomeToken
    BY <2>1, CutFacts
  <2>5. PICK all : all = Append(part, cut)
    OBVIOUS
  <2>6. /\ all \in Seq(SomeToken) /\ Len(all) = Len(part) + 1
        /\ \A i \in 1..Len(part) : all[i] = part[i]
        /\ all[Len(part) + 1] = cut
    BY <2>3, <2>4, <2>5, AppendProperties
  <2>7. Len(all) = m /\ \A i \in 1..m : all[i] = tokens[i] \/ (i = m /\ all[i] \in CutShort(tokens[i]))
    BY <2>3, <2>6
  <2>8. all \in Beginnings(tokens)
    BY <1>1, <2>6, <2>7 DEF Beginnings
  <2>. QED
    BY <2>2, <2>5, <2>8
<1>6. Parts(tokens) \subseteq Beginnings(tokens)
  <2>. SUFFICES ASSUME NEW part \in Parts(tokens) PROVE part \in Beginnings(tokens)
    OBVIOUS
  <2>1. \/ \E m \in 0..(n - 1) : part = SubSeq(tokens, 1, m)
        \/ \E m \in 1..n : \E cut \in CutShort(tokens[m]) :
             part = Append(SubSeq(tokens, 1, m - 1), cut)
    BY <1>1 DEF Parts
  <2>. QED
    BY <1>4, <1>5, <2>1
<1>. QED
  BY <1>2, <1>6

\* What two writers leave of a file is of both.
LEMMA OverlaidFacts ==
  ASSUME NEW S, NEW under \in Seq(S), NEW over \in Seq(S), NEW n \in 0..(Len(under) - 1),
         NEW all, all = Overlaid(under, over, n)
  PROVE  /\ all \in Seq(S)
         /\ Len(all) = IF Len(under) > Len(over) THEN Len(under) ELSE Len(over)
         /\ \A i \in 1..Len(all) :
              \/ i <= Len(over) /\ n < i /\ all[i] = over[i]
              \/ i <= Len(under) /\ (i <= n \/ i > Len(over)) /\ all[i] = under[i]
<1>1. PICK k \in Nat, m \in Nat : k = Len(under) /\ m = Len(over) /\ n \in 0..(k - 1)
  OBVIOUS
<1>2. PICK length \in Nat : length = IF k > m THEN k ELSE m
  BY <1>1
<1>3. Max({k, m}) = length
  <2>1. length \in {k, m} /\ \A x \in {k, m} : x <= length
    BY <1>1, <1>2
  <2>. QED
    BY <1>1, <2>1, SMTT(30) DEF Max
<1>4. all = [i \in 1..length |-> IF i <= n \/ i > m THEN under[i] ELSE over[i]]
  BY <1>1, <1>3 DEF Overlaid
<1>5. ASSUME NEW i \in 1..length
      PROVE  /\ all[i] \in S
             /\ \/ i <= m /\ n < i /\ all[i] = over[i]
                \/ i <= k /\ (i <= n \/ i > m) /\ all[i] = under[i]
  <2>1. CASE i <= n \/ i > m
    <3>1. i \in 1..k
      BY <1>1, <1>2, <2>1
    <3>. QED
      BY <1>1, <1>4, <2>1, <3>1
  <2>2. CASE ~ (i <= n \/ i > m)
    <3>1. i \in 1..m /\ n < i
      BY <1>1, <2>2
    <3>. QED
      BY <1>1, <1>4, <2>2, <3>1
  <2>. QED
    BY <2>1, <2>2
<1>6. all \in [1..length -> S]
  BY <1>4, <1>5
<1>7. all \in Seq(S) /\ Len(all) = length
  BY <1>6
<1>. QED
  BY <1>1, <1>2, <1>5, <1>7

\* A file that somebody finishes over a beginning of the same file is whole.
LEMMA OverlaidSame ==
  ASSUME NEW tokens \in Seq(SomeToken), NEW part \in Beginnings(tokens),
         NEW n \in 0..(Len(part) - 1)
  PROVE  Overlaid(part, tokens, n) = tokens
<1>1. PICK all : all = Overlaid(part, tokens, n)
  OBVIOUS
<1>2. /\ part \in Seq(SomeToken) /\ Len(part) <= Len(tokens)
      /\ \A i \in 1..Len(part) : i < Len(part) => part[i] = tokens[i]
  BY DEF Beginnings
<1>3. /\ all \in Seq(SomeToken) /\ Len(all) = Len(tokens)
      /\ \A i \in 1..Len(all) :
           \/ i <= Len(tokens) /\ n < i /\ all[i] = tokens[i]
           \/ i <= Len(part) /\ (i <= n \/ i > Len(tokens)) /\ all[i] = part[i]
  BY <1>1, <1>2, OverlaidFacts
<1>4. \A i \in 1..Len(all) : all[i] = tokens[i]
  BY <1>2, <1>3
<1>. QED
  BY <1>1, <1>3, <1>4, SameItems

\* An input file, torn or mixed, of a layout: the capacities are there.
Sized(capacities, tokens) ==
  /\ tokens \in Seq(SomeToken)
  /\ \A i \in 1..Len(capacities) : i < Len(tokens) => tokens[i] = INT(capacities[i])

\* Every file of the layout is one, and what is torn or mixed of such files.
LEMMA SizedFacts ==
  ASSUME NEW capacities \in Seq(Nat), NEW trace \in Seq(Nat),
         NEW file, file = InputFile(capacities, trace)
  PROVE  /\ Sized(capacities, file)
         /\ \A found : Sized(capacities, found) =>
              \A n \in 0..(Len(found) - 1) : Sized(capacities, Overlaid(found, file, n))
<1>1. PICK k \in Nat, m \in Nat : k = Len(capacities) /\ m = Len(trace)
  OBVIOUS
<1>2. /\ file \in Seq(SomeToken) /\ Len(file) = k + 1 + m
      /\ \A i \in 1..k : file[i] = INT(capacities[i])
  BY <1>1, InputFileFacts
<1>3. Sized(capacities, file)
  BY <1>1, <1>2 DEF Sized
<1>4. ASSUME NEW found, Sized(capacities, found), NEW n \in 0..(Len(found) - 1)
      PROVE  Sized(capacities, Overlaid(found, file, n))
  <2>1. PICK all : all = Overlaid(found, file, n)
    OBVIOUS
  <2>2. /\ found \in Seq(SomeToken)
        /\ \A i \in 1..k : i < Len(found) => found[i] = INT(capacities[i])
    BY <1>1, <1>4 DEF Sized
  <2>3. /\ all \in Seq(SomeToken)
        /\ \A i \in 1..Len(all) :
             \/ i <= Len(file) /\ n < i /\ all[i] = file[i]
             \/ i <= Len(found) /\ (i <= n \/ i > Len(file)) /\ all[i] = found[i]
    BY <1>2, <2>1, <2>2, OverlaidFacts
  <2>4. ASSUME NEW i \in 1..k, i < Len(all) PROVE all[i] = INT(capacities[i])
    <3>1. i \in 1..Len(all) /\ ~ (i > Len(file)) /\ (i <= n => i < Len(found))
      BY <1>2, <2>2, <2>3, <2>4
    <3>. QED
      BY <1>2, <2>2, <2>3, <3>1
  <2>. QED
    BY <1>1, <2>1, <2>3, <2>4 DEF Sized
<1>. QED
  BY <1>3, <1>4

LEMMA SizedParts ==
  ASSUME NEW capacities \in Seq(Nat), NEW tokens, Sized(capacities, tokens)
  PROVE  \A part \in Beginnings(tokens) : Sized(capacities, part)
<1>. TAKE part \in Beginnings(tokens)
<1>1. /\ part \in Seq(SomeToken) /\ Len(part) <= Len(tokens)
      /\ \A i \in 1..Len(part) : i < Len(part) => part[i] = tokens[i]
  BY DEF Beginnings
<1>2. tokens \in Seq(SomeToken)
  BY DEF Sized
<1>3. ASSUME NEW i \in 1..Len(capacities), i < Len(part)
      PROVE  part[i] = INT(capacities[i])
  <2>1. i \in 1..Len(part) /\ i < Len(tokens)
    BY <1>1, <1>2, <1>3
  <2>. QED
    BY <1>1, <1>3, <2>1 DEF Sized
<1>. QED
  BY <1>1, <1>3 DEF Sized

\* What is read of such a file while it becomes another one.
LEMMA SizedRead ==
  ASSUME NEW capacities \in Seq(Nat), NEW before, Sized(capacities, before),
         NEW now, Sized(capacities, now), NEW n \in 0..(Len(before) - 1)
  PROVE  Sized(capacities, SubSeq(Overlaid(before, now, n), 1, Len(now)))
<1>1. PICK all : all = Overlaid(before, now, n)
  OBVIOUS
<1>2. PICK k \in Nat, m \in Nat, b \in Nat : k = Len(capacities) /\ m = Len(now) /\ b = Len(before)
  BY DEF Sized
<1>3. /\ before \in Seq(SomeToken) /\ now \in Seq(SomeToken)
      /\ \A i \in 1..k : i < b => before[i] = INT(capacities[i])
      /\ \A i \in 1..k : i < m => now[i] = INT(capacities[i])
  BY <1>2 DEF Sized
<1>4. /\ all \in Seq(SomeToken)
      /\ Len(all) = IF b > m THEN b ELSE m
      /\ \A i \in 1..Len(all) :
           \/ i <= m /\ n < i /\ all[i] = now[i]
           \/ i <= b /\ (i <= n \/ i > m) /\ all[i] = before[i]
  BY <1>1, <1>2, <1>3, OverlaidFacts
<1>5. PICK read : read = SubSeq(all, 1, m)
  OBVIOUS
<1>6. /\ read \in Seq(SomeToken) /\ Len(read) = m
      /\ \A i \in 1..m : read[i] = all[i]
  <2>1. m \in Nat /\ m <= Len(all)
    BY <1>4
  <2>2. /\ SubSeq(all, 1, m) \in Seq(SomeToken) /\ Len(SubSeq(all, 1, m)) = m
        /\ \A i \in 1..m : SubSeq(all, 1, m)[i] = all[i]
    BY <1>4, <2>1, FirstItems
  <2>. QED
    BY <1>5, <2>2
<1>7. ASSUME NEW i \in 1..k, i < m PROVE read[i] = INT(capacities[i])
  <2>1. i \in 1..m /\ i \in 1..Len(all)
    BY <1>4, <1>7
  <2>2. i <= n => i < b
    BY <1>2
  <2>. QED
    BY <1>3, <1>4, <1>6, <1>7, <2>1, <2>2
<1>. QED
  BY <1>1, <1>2, <1>5, <1>6, <1>7 DEF Sized

\* Two numbers, or two names, make the same token only if they are the same.
LEMMA SameToken ==
  ASSUME NEW a, NEW b
  PROVE  /\ INT(a) = INT(b) => a = b
         /\ IDENTIFIER(a) = IDENTIFIER(b) => a = b
<1>1. INT(a).value = a /\ INT(b).value = b
  BY DEF INT
<1>2. IDENTIFIER(a).name = a /\ IDENTIFIER(b).name = b
  BY DEF IDENTIFIER
<1>. QED
  BY <1>1, <1>2

\* A number is no name, and a strategy no part of a name.
LEMMA TokensDiffer ==
  /\ \A v, name : INT(v) # IDENTIFIER(name)
  /\ \A v, w : v # w => INT(v) # INT(w)
<1>1. \A v, name : INT(v).type = "INT" /\ IDENTIFIER(name).type = "IDENTIFIER"
  BY DEF INT, IDENTIFIER
<1>. QED
  BY <1>1, SameToken

\* The part of a configuration file that the parser accepts is all of it.
LEMMA ConfigAccepted ==
  ASSUME NEW strategies \in Seq(strategyNames),
         NEW config \in Beginnings(ConfigFile(strategies)),
         ParsedConfig(config).parsed,
         NEW levels, levels = ParsedConfig(config).levels
  PROVE  /\ levels \in Seq(LevelParams)
         /\ Len(levels) = Len(strategies)
         /\ \A i \in 1..Len(strategies) : levels[i].strategy = strategies[i]
<1>1. PICK file \in Seq(SomeToken) :
        /\ file = ConfigFile(strategies)
        /\ Len(file) = Len(strategies) + 1
        /\ file[1] = INT(Len(strategies))
        /\ \A i \in 1..Len(strategies) : file[i + 1] = IDENTIFIER(strategies[i])
  BY ConfigFileFacts
<1>2. /\ config \in Seq(SomeToken) /\ Len(config) <= Len(file)
      /\ \A i \in 1..Len(config) : config[i] = file[i] \/ config[i] \in CutShort(file[i])
      /\ \A i \in 1..Len(config) : i < Len(config) => config[i] = file[i]
  BY <1>1 DEF Beginnings
<1>3. ConfigOf(levels, config)
  BY <1>2, ConfigParses
<1>4. PICK n \in Nat : /\ n = Len(levels) /\ levels \in Seq(LevelParams)
                       /\ Len(config) = n + 1 /\ config[1] = INT(n)
                       /\ \A i \in 1..n : config[i + 1] = IDENTIFIER(levels[i].strategy)
  BY <1>3 DEF ConfigOf
<1>5. ASSUME NEW i \in 1..(n + 1) PROVE config[i] = file[i]
  <2>. SUFFICES ASSUME config[i] # file[i] PROVE FALSE
    OBVIOUS
  <2>1. /\ i \in 1..Len(file) /\ i = n + 1
        /\ file[i] \in SomeToken /\ config[i] \in CutShort(file[i])
    <3>1. i \in 1..Len(config) /\ Len(config) = n + 1
      BY <1>4
    <3>2. i \in 1..Len(file)
      BY <1>1, <1>2, <3>1
    <3>3. ~ i < n + 1
      BY <1>2, <3>1
    <3>4. i = n + 1
      BY <3>1, <3>3
    <3>. QED
      BY <1>1, <1>2, <3>1, <3>2, <3>4
  <2>2. config[i] = IDENTIFIER("partOfAName") \/ \E v \in Nat \ {0} : config[i] = INT(v)
    BY <2>1, CutFacts
  <2>3. CASE n = 0
    <3>1. config[i] = INT(0)
      BY <1>4, <2>1, <2>3
    <3>. QED
      BY <2>2, <3>1, TokensDiffer
  <2>4. CASE n > 0
    <3>1. n \in 1..n /\ config[i] = IDENTIFIER(levels[n].strategy)
      BY <1>4, <2>1, <2>4
    <3>2. levels[n].strategy \in strategyNames
      <4>1. levels[n] \in LevelParams
        BY <1>4, <3>1
      <4>. QED
        BY <4>1 DEF LevelParams
    <3>. QED
      BY <2>2, <3>1, <3>2, TokensDiffer, SameToken DEF strategyNames
  <2>. QED
    BY <2>3, <2>4
<1>6. n = Len(strategies)
  <2>1. INT(n) = INT(Len(strategies))
    BY <1>1, <1>4, <1>5
  <2>. QED
    BY <2>1, SameToken
<1>7. ASSUME NEW i \in 1..n PROVE levels[i].strategy = strategies[i]
  <2>1. config[i + 1] = file[i + 1]
    BY <1>5
  <2>2. IDENTIFIER(levels[i].strategy) = IDENTIFIER(strategies[i])
    BY <1>1, <1>4, <1>6, <2>1
  <2>. QED
    BY <2>2, SameToken
<1>. QED
  BY <1>4, <1>6, <1>7

\* Requests that are as asked for, but that the last one may be cut short.
AllButLast(requests, trace) ==
  /\ Len(requests) = Len(trace)
  /\ \A i \in 1..Len(requests) :
       \/ requests[i] = trace[i]
       \/ i = Len(requests) /\ INT(requests[i]) \in CutShort(INT(trace[i]))

\* The part of an input file that the parser accepts is all of it, but for digits
\* of its last number.
LEMMA InputAccepted ==
  ASSUME NEW capacities \in Seq(Nat), NEW trace \in Seq(Nat),
         NEW input \in Beginnings(InputFile(capacities, trace)),
         NEW configured \in Seq(LevelParams), Len(configured) = Len(capacities),
         NEW result, result = ParsedInput(configured, input), result.parsed
  PROVE  /\ AllButLast(result.requests, trace)
         /\ input = InputFile(capacities, trace) => result.requests = trace
<1>1. PICK k \in Nat, n \in Nat : k = Len(capacities) /\ n = Len(trace)
  OBVIOUS
<1>2. PICK file \in Seq(SomeToken) :
        /\ file = InputFile(capacities, trace)
        /\ Len(file) = k + 1 + n
        /\ file[k + 1] = INT(n)
        /\ \A i \in 1..n : file[k + 1 + i] = INT(trace[i])
  BY <1>1, InputFileFacts
<1>3. /\ input \in Seq(SomeToken) /\ Len(input) <= Len(file)
      /\ \A i \in 1..Len(input) :
           input[i] = file[i] \/ (i = Len(input) /\ input[i] \in CutShort(file[i]))
  BY <1>2 DEF Beginnings
<1>4. PICK levels, requests : levels = result.levels /\ requests = result.requests
  OBVIOUS
<1>5. InputOf(levels, requests, configured, input)
  BY <1>3, <1>4, InputParses
<1>6. PICK m \in Nat : /\ requests \in Seq(Nat) /\ m = Len(requests) /\ Len(levels) = k
                       /\ Len(input) = k + 1 + m
                       /\ input[k + 1] = INT(m)
                       /\ \A i \in 1..m : input[k + 1 + i] = INT(requests[i])
  <2>1. PICK m \in Nat : requests \in Seq(Nat) /\ m = Len(requests)
    BY <1>5 DEF InputOf
  <2>2. Len(levels) = k
    BY <1>1, <1>5 DEF InputOf
  <2>3. /\ Len(input) = k + 1 + m
        /\ input[k + 1] = INT(m)
        /\ \A i \in 1..m : input[k + 1 + i] = INT(requests[i])
    BY <1>5, <2>1, <2>2 DEF InputOf
  <2>. QED
    BY <2>1, <2>2, <2>3
<1>7. m = n
  <2>1. k + 1 \in 1..Len(input) /\ k + 1 \in 1..Len(file)
    BY <1>2, <1>6
  <2>2. ASSUME input[k + 1] # file[k + 1] PROVE FALSE
    <3>1. m = 0 /\ input[k + 1] \in CutShort(file[k + 1])
      BY <1>3, <1>6, <2>1, <2>2
    <3>2. \/ input[k + 1] = IDENTIFIER("partOfAName")
          \/ \E v \in Nat \ {0} : input[k + 1] = INT(v)
      BY <2>1, <3>1, CutFacts
    <3>. QED
      BY <1>6, <3>1, <3>2, TokensDiffer
  <2>3. INT(m) = INT(n)
    BY <1>2, <1>6, <2>2
  <2>. QED
    BY <2>3, SameToken
<1>8. ASSUME NEW i \in 1..n
      PROVE  /\ \/ requests[i] = trace[i]
                \/ i = n /\ INT(requests[i]) \in CutShort(INT(trace[i]))
             /\ input = file => requests[i] = trace[i]
  <2>1. k + 1 + i \in 1..Len(input) /\ (k + 1 + i = Len(input) => i = n)
    BY <1>6, <1>7
  <2>2. input[k + 1 + i] = INT(requests[i]) /\ file[k + 1 + i] = INT(trace[i])
    BY <1>2, <1>6, <1>7
  <2>3. INT(requests[i]) = INT(trace[i]) => requests[i] = trace[i]
    BY SameToken
  <2>. QED
    BY <1>3, <2>1, <2>2, <2>3
<1>9. AllButLast(requests, trace)
  BY <1>1, <1>6, <1>7, <1>8 DEF AllButLast
<1>10. ASSUME input = file PROVE requests = trace
  BY <1>1, <1>6, <1>7, <1>8, <1>10, SameItems
<1>. QED
  BY <1>2, <1>4, <1>9, <1>10

LevelsWith(strategies, capacities) ==
  [i \in DOMAIN strategies |-> [strategy |-> strategies[i], size |-> capacities[i]]]

\* What a runner measured of the files of an experiment had its levels, if there
\* were any counters at all, and the requests that were read.
LEMMA MeasuredLevels ==
  ASSUME NEW strategies \in Seq(strategyNames), NEW capacities \in Seq(Nat),
         Len(strategies) = Len(capacities),
         NEW config \in Beginnings(ConfigFile(strategies)),
         NEW input, Sized(capacities, input),
         NEW measured, measured = RunExperiment(config, input), measured # NoExperiment
  PROVE  /\ measured.levels = LevelsWith(strategies, capacities)
         /\ \E configured \in Seq(LevelParams) :
              /\ Len(configured) = Len(capacities)
              /\ ParsedInput(configured, input).parsed
              /\ measured.requests = ParsedInput(configured, input).requests
         /\ measured.requests \in Seq(Nat)
<1>1. PICK fromConfig : fromConfig = ParsedConfig(config)
  OBVIOUS
<1>2. PICK fromInput : fromInput = ParsedInput(fromConfig.levels, input)
  OBVIOUS
<1>3. /\ fromConfig.parsed /\ fromInput.parsed
      /\ measured = [levels |-> fromInput.levels, requests |-> fromInput.requests]
  BY <1>1, <1>2 DEF RunExperiment
<1>4. PICK n \in Nat : n = Len(strategies) /\ n = Len(capacities) /\ DOMAIN strategies = 1..n
  OBVIOUS
<1>5. PICK configured \in Seq(LevelParams) :
        /\ configured = fromConfig.levels
        /\ Len(configured) = n
        /\ \A i \in 1..n : configured[i].strategy = strategies[i]
  BY <1>1, <1>3, <1>4, ConfigAccepted
<1>6. PICK levels, requests : levels = fromInput.levels /\ requests = fromInput.requests
  OBVIOUS
<1>7. InputOf(levels, requests, configured, input)
  BY <1>2, <1>3, <1>5, <1>6, InputParses DEF Sized
<1>8. /\ levels \in Seq(LevelParams) /\ Len(levels) = n
      /\ Len(input) = n + 1 + Len(requests) /\ requests \in Seq(Nat)
      /\ \A i \in 1..n : /\ levels[i].strategy = configured[i].strategy
                         /\ input[i] = INT(levels[i].size)
  BY <1>5, <1>7 DEF InputOf
<1>9. ASSUME NEW i \in 1..n
      PROVE  levels[i] = [strategy |-> strategies[i], size |-> capacities[i]]
  <2>1. i < Len(input)
    BY <1>8
  <2>2. INT(levels[i].size) = INT(capacities[i])
    BY <1>4, <1>8, <2>1 DEF Sized
  <2>3. levels[i].size = capacities[i]
    BY <2>2, SameToken
  <2>4. levels[i] \in LevelParams
    BY <1>8
  <2>. QED
    BY <1>5, <1>8, <2>3, <2>4 DEF LevelParams
<1>10. levels = [i \in 1..n |-> [strategy |-> strategies[i], size |-> capacities[i]]]
  <2>1. levels = [i \in 1..n |-> levels[i]]
    BY <1>8
  <2>. QED
    BY <1>9, <2>1
<1>. QED
  BY <1>2, <1>3, <1>4, <1>5, <1>6, <1>8, <1>10 DEF LevelsWith

\* The requests, if the input was whole or in part.
LEMMA MeasuredRequests ==
  ASSUME NEW strategies \in Seq(strategyNames), NEW capacities \in Seq(Nat),
         NEW trace \in Seq(Nat),
         Len(strategies) = Len(capacities),
         NEW config \in Beginnings(ConfigFile(strategies)),
         NEW input \in Beginnings(InputFile(capacities, trace)),
         NEW measured, measured = RunExperiment(config, input), measured # NoExperiment
  PROVE  /\ AllButLast(measured.requests, trace)
         /\ input = InputFile(capacities, trace) => measured.requests = trace
<1>1. PICK file : file = InputFile(capacities, trace) /\ Sized(capacities, file)
  BY SizedFacts
<1>2. Sized(capacities, input)
  BY <1>1, SizedParts
<1>3. PICK configured \in Seq(LevelParams) :
        /\ Len(configured) = Len(capacities)
        /\ ParsedInput(configured, input).parsed
        /\ measured.requests = ParsedInput(configured, input).requests
  BY <1>2, MeasuredLevels
<1>4. PICK result : result = ParsedInput(configured, input)
  OBVIOUS
<1>5. /\ AllButLast(result.requests, trace)
      /\ input = InputFile(capacities, trace) => result.requests = trace
  BY <1>3, <1>4, InputAccepted
<1>. QED
  BY <1>3, <1>4, <1>5
=============================================================================
