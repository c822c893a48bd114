----------------------------- MODULE ListFacts -----------------------------
(* What list_add_tail and list_del of the head do to a list (tool/list.c), *)
(* modelled as a sequence without repetitions, and what a mailbox does to   *)
(* the number of messages of one kind in it; stated once for every proof.  *)
EXTENDS Integers, Sequences, FiniteSets, Functions, FiniteSetTheorems, SequenceTheorems,
        TLAPS

\* Appending keeps the old elements and adds the new one; a new element keeps
\* the list free of repetitions (list_add_tail of an unlinked node).
LEMMA AppendFacts ==
  ASSUME NEW S, NEW q \in Seq(S), NEW x \in S
  PROVE  /\ Append(q, x) \in Seq(S)
         /\ Append(q, x) # <<>>
         /\ Len(Append(q, x)) = Len(q) + 1
         /\ Range(Append(q, x)) = Range(q) \cup {x}
         /\ IsInjective(q) /\ x \notin Range(q) => IsInjective(Append(q, x))
<1> DEFINE r == Append(q, x)
<1>1. r \in Seq(S) /\ Len(r) = Len(q) + 1 /\ DOMAIN r = 1 .. (Len(q) + 1)
      /\ DOMAIN q = 1 .. Len(q) /\ Len(q) \in Nat /\ r # <<>>
  OBVIOUS
<1>2. r[Len(q) + 1] = x /\ \A i \in 1 .. Len(q) : r[i] = q[i]
  OBVIOUS
<1> HIDE DEF r
<1>3. Range(r) = Range(q) \cup {x}
  <2>1. Range(r) \subseteq Range(q) \cup {x}
    <3> SUFFICES ASSUME NEW i \in 1 .. (Len(q) + 1) PROVE r[i] \in Range(q) \cup {x}
      BY <1>1 DEF Range
    <3>1. CASE i = Len(q) + 1
      BY <3>1, <1>2
    <3>2. CASE i \in 1 .. Len(q)
      BY <3>2, <1>1, <1>2 DEF Range
    <3>3. QED
      BY <3>1, <3>2, <1>1
  <2>2. Range(q) \subseteq Range(r)
    <3> SUFFICES ASSUME NEW i \in 1 .. Len(q) PROVE q[i] \in Range(r)
      BY <1>1 DEF Range
    <3>1. i \in DOMAIN r /\ r[i] = q[i]
      BY <1>1, <1>2
    <3>2. QED
      BY <3>1 DEF Range
  <2>3. x \in Range(r)
    <3>1. Len(q) + 1 \in DOMAIN r
      BY <1>1
    <3>2. QED
      BY <3>1, <1>2 DEF Range
  <2>4. QED
    BY <2>1, <2>2, <2>3
<1>4. ASSUME IsInjective(q), x \notin Range(q)
      PROVE  IsInjective(r)
  <2> SUFFICES ASSUME NEW a \in 1 .. (Len(q) + 1), NEW b \in 1 .. (Len(q) + 1),
                      r[a] = r[b]
               PROVE  a = b
    BY <1>1 DEF IsInjective
  <2>1. \A i \in 1 .. Len(q) : q[i] # x
    BY <1>1, <1>4 DEF Range
  <2>2. CASE a \in 1 .. Len(q) /\ b \in 1 .. Len(q)
    BY <2>2, <1>1, <1>2, <1>4 DEF IsInjective
  <2>3. CASE a = Len(q) + 1 \/ b = Len(q) + 1
    BY <2>3, <2>1, <1>1, <1>2
  <2>4. QED
    BY <2>2, <2>3, <1>1
<1>5. QED
  BY <1>1, <1>3, <1>4 DEF r

\* Removing the head keeps a list free of repetitions and removes exactly that
\* element (list_del of head->next).
LEMMA TailFacts ==
  ASSUME NEW S, NEW q \in Seq(S), q # <<>>
  PROVE  /\ Tail(q) \in Seq(S)
         /\ Head(q) \in S
         /\ Head(q) \in Range(q)
         /\ Len(Tail(q)) = Len(q) - 1
         /\ IsInjective(q) => /\ IsInjective(Tail(q))
                              /\ Range(Tail(q)) = Range(q) \ {Head(q)}
<1> DEFINE r == Tail(q)
           h == Head(q)
<1>1. /\ r \in Seq(S) /\ Len(q) \in Nat /\ Len(q) > 0 /\ Len(r) = Len(q) - 1
      /\ DOMAIN q = 1 .. Len(q) /\ DOMAIN r = 1 .. (Len(q) - 1)
      /\ h = q[1] /\ h \in S
  OBVIOUS
<1>2. \A i \in 1 .. (Len(q) - 1) : r[i] = q[i + 1]
  OBVIOUS
<1> HIDE DEF r, h
<1>3. h \in Range(q)
  BY <1>1 DEF Range
<1>4. ASSUME IsInjective(q)
      PROVE  IsInjective(r) /\ Range(r) = Range(q) \ {h}
  <2>1. IsInjective(r)
    BY <1>1, <1>2, <1>4 DEF IsInjective
  <2>2. Range(r) \subseteq Range(q) \ {h}
    <3> SUFFICES ASSUME NEW i \in 1 .. (Len(q) - 1) PROVE r[i] \in Range(q) /\ r[i] # h
      BY <1>1 DEF Range
    <3>1. i + 1 \in DOMAIN q /\ 1 \in DOMAIN q /\ r[i] = q[i + 1] /\ i + 1 # 1
      BY <1>1, <1>2
    <3>2. QED
      BY <3>1, <1>1, <1>4 DEF IsInjective, Range
  <2>3. Range(q) \ {h} \subseteq Range(r)
    <3> SUFFICES ASSUME NEW i \in 1 .. Len(q), q[i] # h PROVE q[i] \in Range(r)
      BY <1>1 DEF Range
    <3>1. i - 1 \in DOMAIN r /\ r[i - 1] = q[i]
      BY <1>1, <1>2
    <3>2. QED
      BY <3>1 DEF Range
  <2>4. QED
    BY <2>1, <2>2, <2>3
<1>5. QED
  BY <1>1, <1>3, <1>4 DEF r, h

-----------------------------------------------------------------------------
(* How many elements of a list are in a set: the messages of one kind, or  *)
(* the places of one group.                                                *)

CountIn(q, K) == Cardinality({i \in DOMAIN q : q[i] \in K})

\* The number is one, is zero for the empty list, and is not zero when an element
\* is there.
LEMMA CountType ==
  ASSUME NEW S, NEW q \in Seq(S), NEW K
  PROVE  /\ IsFiniteSet({i \in DOMAIN q : q[i] \in K})
         /\ CountIn(q, K) \in Nat
         /\ CountIn(q, K) <= Len(q)
         /\ \A i \in DOMAIN q : q[i] \in K => CountIn(q, K) > 0
         /\ CountIn(<<>>, K) = 0
<1> DEFINE A == {i \in DOMAIN q : q[i] \in K}
<1>1. DOMAIN q = 1 .. Len(q) /\ Len(q) \in Nat
  OBVIOUS
<1>2. IsFiniteSet(1 .. Len(q)) /\ Cardinality(1 .. Len(q)) = Len(q)
  BY <1>1, FS_Interval, SMTT(30)
<1>3. A \in SUBSET (1 .. Len(q))
  BY <1>1
<1>4. IsFiniteSet(A) /\ Cardinality(A) <= Len(q)
  BY <1>2, <1>3, FS_Subset
<1>5. Cardinality(A) \in Nat /\ (Cardinality(A) = 0 <=> A = {})
  BY <1>4, FS_CardinalityType, FS_EmptySet
<1>6. {i \in DOMAIN <<>> : <<>>[i] \in K} = {}
  OBVIOUS
<1>7. CountIn(<<>>, K) = 0
  BY <1>6, FS_EmptySet DEF CountIn
<1>8. ASSUME NEW i \in DOMAIN q, q[i] \in K PROVE Cardinality(A) > 0
  BY <1>5, <1>8
<1>9. QED
  BY <1>4, <1>5, <1>7, <1>8 DEF CountIn

\* r is q with x put between two of its elements.
InsertedAt(r, q, k, x) ==
  /\ Len(r) = Len(q) + 1
  /\ \A i \in 1 .. Len(q) + 1 : r[i] = IF i <= k THEN q[i]
                                       ELSE IF i = k + 1 THEN x ELSE q[i - 1]

\* The new element is counted once, and the others as often as before.
LEMMA CountInserted ==
  ASSUME NEW S, NEW q \in Seq(S), NEW r \in Seq(S), NEW x \in S, NEW k \in 0 .. Len(q),
         InsertedAt(r, q, k, x), NEW K
  PROVE  CountIn(r, K) = CountIn(q, K) + (IF x \in K THEN 1 ELSE 0)
<1>a. Len(q) \in Nat /\ DOMAIN q = 1 .. Len(q) /\ k \in Nat /\ k <= Len(q)
  OBVIOUS
<1>b. Len(r) = Len(q) + 1 /\ DOMAIN r = 1 .. (Len(q) + 1)
  BY DEF InsertedAt
<1>c. \A i \in 1 .. (Len(q) + 1) : r[i] = IF i <= k THEN q[i]
                                          ELSE IF i = k + 1 THEN x ELSE q[i - 1]
  BY DEF InsertedAt
<1> DEFINE A == {i \in DOMAIN q : q[i] \in K}
           B == {i \in DOMAIN r : r[i] \in K}
           C == B \ {k + 1}
           f == [i \in A |-> IF i <= k THEN i ELSE i + 1]
<1>1. IsFiniteSet(A) /\ IsFiniteSet(B) /\ Cardinality(A) \in Nat
  BY <1>b, CountType, FS_CardinalityType
<1>2. f \in [A -> C]
  <2> SUFFICES ASSUME NEW i \in A PROVE (IF i <= k THEN i ELSE i + 1) \in C
    OBVIOUS
  <2>1. i \in 1 .. Len(q) /\ q[i] \in K
    BY <1>a
  <2>2. CASE i <= k
    BY <2>1, <2>2, <1>a, <1>b, <1>c
  <2>3. CASE i > k
    <3>1. i + 1 \in 1 .. (Len(q) + 1) /\ i + 1 > k + 1 /\ (i + 1) - 1 = i
      BY <2>1, <2>3, <1>a
    <3>2. r[i + 1] = q[i]
      BY <3>1, <1>c, <1>a
    <3>3. QED
      BY <2>1, <2>3, <3>1, <3>2, <1>a, <1>b
  <2>4. QED
    BY <2>1, <2>2, <2>3, <1>a
<1>3. \A i, j \in A : f[i] = f[j] => i = j
  BY <1>a
<1>4. \A j \in C : \E i \in A : f[i] = j
  <2> SUFFICES ASSUME NEW j \in C PROVE \E i \in A : f[i] = j
    OBVIOUS
  <2>1. j \in 1 .. (Len(q) + 1) /\ j # k + 1 /\ r[j] \in K
    BY <1>b
  <2>2. CASE j <= k
    BY <2>1, <2>2, <1>a, <1>c
  <2>3. CASE j > k + 1
    <3>1. j - 1 \in 1 .. Len(q) /\ ~(j - 1 <= k) /\ (j - 1) + 1 = j
      BY <2>1, <2>3, <1>a
    <3>2. q[j - 1] = r[j]
      BY <2>1, <2>3, <1>a, <1>c
    <3>3. j - 1 \in A
      BY <2>1, <3>1, <3>2, <1>a
    <3>4. f[j - 1] = (j - 1) + 1
      BY <3>1, <3>3
    <3>5. f[j - 1] = j
      BY <3>1, <3>4
    <3>6. QED
      BY <3>3, <3>5
  <2>4. j <= k \/ j > k + 1
    BY <2>1, <1>a
  <2>5. QED
    BY <2>2, <2>3, <2>4, Zenon
<1>5. f \in Bijection(A, C)
  BY <1>2, <1>3, <1>4 DEF Bijection, Injection, Surjection, IsInjective
<1> HIDE DEF f, C
<1>6. Cardinality(C) = Cardinality(A)
  BY <1>1, <1>5, FS_Bijection DEF ExistsBijection
<1>7. k + 1 \in B <=> x \in K
  BY <1>a, <1>b, <1>c
<1>8. Cardinality(C) = IF k + 1 \in B THEN Cardinality(B) - 1 ELSE Cardinality(B)
  BY <1>1, FS_RemoveElement DEF C
<1>9. Cardinality(B) \in Nat
  BY <1>1, FS_CardinalityType
<1> HIDE DEF A, B
<1>10. Cardinality(B) = Cardinality(A) + (IF x \in K THEN 1 ELSE 0)
  BY <1>1, <1>6, <1>7, <1>8, <1>9
<1>11. QED
  BY <1>10 DEF CountIn, A, B

\* A message that mq_send puts behind those of at least its priority.
LEMMA QueuedFacts ==
  ASSUME NEW S, NEW q \in Seq(S), NEW x \in S, NEW k \in 0 .. Len(q)
  PROVE  LET r == SubSeq(q, 1, k) \o <<x>> \o SubSeq(q, k + 1, Len(q))
         IN  r \in Seq(S) /\ InsertedAt(r, q, k, x)
<1> DEFINE a == SubSeq(q, 1, k)
           z == SubSeq(q, k + 1, Len(q))
           o == <<x>>
           b == a \o o
           r == b \o z
<1>1. Len(q) \in Nat /\ k \in Nat /\ k <= Len(q) /\ 1 \in Int /\ k + 1 \in Int
      /\ \A i \in 1 .. Len(q) : q[i] \in S
  OBVIOUS
<1>2. a \in Seq(S) /\ Len(a) = k /\ \A i \in 1 .. k : a[i] = q[i]
  <2>1. \A i \in 1 .. k : q[i] \in S
    BY <1>1
  <2>2. a \in Seq(S) /\ Len(a) = (IF 1 <= k THEN k - 1 + 1 ELSE 0)
        /\ \A i \in 1 .. k - 1 + 1 : a[i] = q[1 + i - 1]
    BY <1>1, <2>1, SubSeqProperties
  <2> HIDE DEF a
  <2>3. QED
    BY <1>1, <2>2
<1>3. z \in Seq(S) /\ Len(z) = Len(q) - k /\ \A i \in 1 .. Len(q) - k : z[i] = q[k + i]
  <2>1. \A i \in k + 1 .. Len(q) : q[i] \in S
    BY <1>1
  <2>2. z \in Seq(S) /\ Len(z) = (IF k + 1 <= Len(q) THEN Len(q) - (k + 1) + 1 ELSE 0)
        /\ \A i \in 1 .. Len(q) - (k + 1) + 1 : z[i] = q[k + 1 + i - 1]
    BY <1>1, <2>1, SubSeqProperties
  <2> HIDE DEF z
  <2>3. QED
    BY <1>1, <2>2
<1>4. o \in Seq(S) /\ Len(o) = 1 /\ o[1] = x
  OBVIOUS
<1> HIDE DEF a, z, o
<1>5. b \in Seq(S) /\ Len(b) = k + 1
      /\ \A i \in 1 .. k + 1 : b[i] = IF i <= k THEN q[i] ELSE x
  <2>1. b \in Seq(S) /\ Len(b) = Len(a) + Len(o)
        /\ \A i \in 1 .. Len(a) + Len(o) : b[i] = IF i <= Len(a) THEN a[i] ELSE o[i - Len(a)]
    BY <1>2, <1>4, ConcatProperties
  <2> HIDE DEF b
  <2>2. QED
    BY <1>1, <1>2, <1>4, <2>1
<1> HIDE DEF b
<1>6. r \in Seq(S) /\ Len(r) = Len(b) + Len(z)
      /\ \A i \in 1 .. Len(b) + Len(z) : r[i] = IF i <= Len(b) THEN b[i] ELSE z[i - Len(b)]
  BY <1>3, <1>5, ConcatProperties
<1> HIDE DEF r
<1>7. Len(r) = Len(q) + 1
  BY <1>1, <1>3, <1>5, <1>6
<1>8. ASSUME NEW i \in 1 .. Len(q) + 1
      PROVE  r[i] = IF i <= k THEN q[i] ELSE IF i = k + 1 THEN x ELSE q[i - 1]
  <2>1. Len(b) = k + 1 /\ i \in 1 .. Len(b) + Len(z)
    BY <1>1, <1>3, <1>5
  <2>2. r[i] = IF i <= k + 1 THEN b[i] ELSE z[i - (k + 1)]
    BY <1>6, <2>1
  <2>3. CASE i <= k + 1
    BY <2>2, <2>3, <1>5, <1>1
  <2>4. CASE i > k + 1
    <3>1. i - (k + 1) \in 1 .. Len(q) - k /\ k + (i - (k + 1)) = i - 1
      BY <2>4, <1>1
    <3>2. z[i - (k + 1)] = q[i - 1]
      BY <3>1, <1>3
    <3>3. ~(i <= k + 1) /\ ~(i <= k) /\ i # k + 1
      BY <2>4, <1>1
    <3>4. QED
      BY <2>2, <3>2, <3>3
  <2>5. QED
    BY <2>3, <2>4, <1>1
<1>9. QED
  BY <1>6, <1>7, <1>8 DEF InsertedAt, r, b, a, z, o

\* A message at the end of a mailbox is counted once.
LEMMA CountAppended ==
  ASSUME NEW S, NEW q \in Seq(S), NEW x \in S, NEW K
  PROVE  CountIn(Append(q, x), K) = CountIn(q, K) + (IF x \in K THEN 1 ELSE 0)
<1> DEFINE r == Append(q, x)
           k == Len(q)
<1>1. k \in 0 .. Len(q) /\ r \in Seq(S)
  OBVIOUS
<1>2. InsertedAt(r, q, k, x)
  BY DEF InsertedAt
<1> HIDE DEF r, k
<1>3. CountIn(r, K) = CountIn(q, K) + (IF x \in K THEN 1 ELSE 0)
  BY <1>1, <1>2, CountInserted
<1>4. QED
  BY <1>3 DEF r

\* Taking the first message takes it out of the number.
LEMMA CountTail ==
  ASSUME NEW S, NEW q \in Seq(S), q # <<>>, NEW K
  PROVE  CountIn(q, K) = CountIn(Tail(q), K) + (IF Head(q) \in K THEN 1 ELSE 0)
<1> DEFINE r == Tail(q)
           x == Head(q)
<1>1. r \in Seq(S) /\ x \in S /\ 0 \in 0 .. Len(r)
  OBVIOUS
<1>2. InsertedAt(q, r, 0, x)
  <2>1. Len(q) \in Nat /\ Len(Tail(q)) = Len(q) - 1 /\ Head(q) = q[1]
        /\ \A i \in 1 .. Len(q) - 1 : Tail(q)[i] = q[i + 1]
    OBVIOUS
  <2>2. \A i \in 2 .. Len(q) : Tail(q)[i - 1] = q[i]
    <3>1. SUFFICES ASSUME NEW i \in 2 .. Len(q) PROVE Tail(q)[i - 1] = q[i]
      OBVIOUS
    <3>2. i - 1 \in 1 .. Len(q) - 1 /\ (i - 1) + 1 = i
      BY <2>1
    <3>3. QED
      BY <2>1, <3>2
  <2>3. QED
    BY <2>1, <2>2 DEF InsertedAt
<1> HIDE DEF r, x
<1>3. CountIn(q, K) = CountIn(r, K) + (IF x \in K THEN 1 ELSE 0)
  BY <1>1, <1>2, CountInserted
<1>4. QED
  BY <1>3 DEF r, x

\* The elements are those there were and the new one.
LEMMA RangeInserted ==
  ASSUME NEW S, NEW q \in Seq(S), NEW r \in Seq(S), NEW x \in S, NEW k \in 0 .. Len(q),
         InsertedAt(r, q, k, x)
  PROVE  Range(r) = Range(q) \cup {x}
<1>1. /\ Len(q) \in Nat /\ DOMAIN q = 1 .. Len(q) /\ k \in Nat /\ k <= Len(q)
      /\ Len(r) = Len(q) + 1 /\ DOMAIN r = 1 .. (Len(q) + 1)
  BY DEF InsertedAt
<1>2. \A i \in 1 .. (Len(q) + 1) : r[i] = IF i <= k THEN q[i]
                                          ELSE IF i = k + 1 THEN x ELSE q[i - 1]
  BY DEF InsertedAt
<1>3. \A i \in DOMAIN r : r[i] \in Range(q) \cup {x}
  <2> SUFFICES ASSUME NEW i \in DOMAIN r PROVE r[i] \in Range(q) \cup {x}
    OBVIOUS
  <2>1. CASE i <= k
    BY <2>1, <1>1, <1>2 DEF Range
  <2>2. CASE i = k + 1
    BY <2>2, <1>1, <1>2
  <2>3. CASE i > k + 1
    <3>1. i - 1 \in DOMAIN q /\ r[i] = q[i - 1]
      BY <2>3, <1>1, <1>2
    <3>2. QED
      BY <3>1 DEF Range
  <2>4. QED
    BY <2>1, <2>2, <2>3, <1>1
<1>4. \A i \in DOMAIN q : q[i] \in Range(r)
  <2> SUFFICES ASSUME NEW i \in DOMAIN q PROVE q[i] \in Range(r)
    OBVIOUS
  <2>1. CASE i <= k
    BY <2>1, <1>1, <1>2 DEF Range
  <2>2. CASE i > k
    <3>1. i + 1 \in DOMAIN r /\ r[i + 1] = q[i]
      BY <2>2, <1>1, <1>2
    <3>2. QED
      BY <3>1 DEF Range
  <2>3. QED
    BY <2>1, <2>2, <1>1
<1>5. k + 1 \in DOMAIN r /\ r[k + 1] = x
  BY <1>1, <1>2
<1>6. QED
  BY <1>3, <1>4, <1>5 DEF Range

\* Taking the first element leaves the others, whether or not they repeat it.
LEMMA RangeTail ==
  ASSUME NEW S, NEW q \in Seq(S), q # <<>>
  PROVE  Range(q) = Range(Tail(q)) \cup {Head(q)}
<1> DEFINE r == Tail(q)
           x == Head(q)
<1>1. /\ Len(q) \in Nat /\ Len(q) > 0 /\ DOMAIN q = 1 .. Len(q) /\ x = q[1]
      /\ DOMAIN r = 1 .. (Len(q) - 1)
  OBVIOUS
<1>2. \A i \in 1 .. (Len(q) - 1) : r[i] = q[i + 1]
  OBVIOUS
<1> HIDE DEF r, x
<1>3. \A i \in DOMAIN r : r[i] \in Range(q)
  BY <1>1, <1>2 DEF Range
<1>4. \A i \in DOMAIN q : q[i] \in Range(r) \cup {x}
  <2> SUFFICES ASSUME NEW i \in DOMAIN q, i # 1 PROVE q[i] \in Range(r)
    BY <1>1
  <2>1. i - 1 \in DOMAIN r /\ r[i - 1] = q[i]
    BY <1>1, <1>2
  <2>2. QED
    BY <2>1 DEF Range
<1>5. x \in Range(q)
  BY <1>1 DEF Range
<1>6. QED
  BY <1>3, <1>4, <1>5 DEF Range, r, x
-----------------------------------------------------------------------------
(* How many elements several lists have together: the messages in all of   *)
(* the mailboxes.                                                          *)

Places(S, F) == UNION {{s} \X DOMAIN F[s] : s \in S}

\* Finitely many lists have finitely many elements, and none has more than all.
LEMMA PlacesFinite ==
  ASSUME NEW S, IsFiniteSet(S), NEW F, \A s \in S : \E n \in Nat : DOMAIN F[s] = 1 .. n
  PROVE  /\ IsFiniteSet(Places(S, F)) /\ Cardinality(Places(S, F)) \in Nat
         /\ \A s \in S, n \in Nat : DOMAIN F[s] = 1 .. n => n <= Cardinality(Places(S, F))
<1> DEFINE P(s) == {s} \X DOMAIN F[s]
           U == {P(s) : s \in S}
<1>1. IsFiniteSet(U)
  <2> DEFINE f == [s \in S |-> P(s)]
  <2>1. f \in Surjection(S, U)
    BY DEF Surjection
  <2> HIDE DEF f, U
  <2>2. QED
    BY <2>1, FS_Surjection
<1>2. ASSUME NEW s \in S, NEW n \in Nat, DOMAIN F[s] = 1 .. n
      PROVE  IsFiniteSet(P(s)) /\ Cardinality(P(s)) = n
  <2>1. IsFiniteSet(1 .. n) /\ Cardinality(1 .. n) = n
    BY FS_Interval
  <2>2. IsFiniteSet({s}) /\ Cardinality({s}) = 1
    BY FS_Singleton
  <2>3. IsFiniteSet({s} \X (1 .. n)) /\ Cardinality({s} \X (1 .. n)) = 1 * n
    BY <2>1, <2>2, FS_Product, ZenonT(30)
  <2>4. QED
    BY <1>2, <2>3
<1> HIDE DEF P
<1>3. \A T \in U : IsFiniteSet(T)
  BY <1>2
<1>4. IsFiniteSet(UNION U)
  BY <1>1, <1>3, FS_UNION
<1>5. UNION U = Places(S, F)
  BY DEF P, Places
<1>6. IsFiniteSet(Places(S, F)) /\ Cardinality(Places(S, F)) \in Nat
  BY <1>4, <1>5, FS_CardinalityType
<1>7. ASSUME NEW s \in S, NEW n \in Nat, DOMAIN F[s] = 1 .. n
      PROVE  n <= Cardinality(Places(S, F))
  <2>1. P(s) \in SUBSET Places(S, F)
    BY DEF P, Places
  <2>2. Cardinality(P(s)) <= Cardinality(Places(S, F))
    BY <1>6, <2>1, FS_Subset
  <2>3. QED
    BY <1>2, <1>7, <2>2
<1>8. QED
  BY <1>6, <1>7

\* When one of them gets an element, they have one more.
LEMMA PlacesMore ==
  ASSUME NEW S, IsFiniteSet(S), NEW F, \A s \in S : \E n \in Nat : DOMAIN F[s] = 1 .. n,
         NEW G, NEW b \in S, NEW n \in Nat, DOMAIN F[b] = 1 .. n, DOMAIN G[b] = 1 .. (n + 1),
         \A s \in S \ {b} : DOMAIN G[s] = DOMAIN F[s]
  PROVE  Cardinality(Places(S, G)) = Cardinality(Places(S, F)) + 1
<1>1. IsFiniteSet(Places(S, F))
  BY PlacesFinite
<1>2. <<b, n + 1>> \notin Places(S, F)
  BY DEF Places
<1>3. Places(S, G) = Places(S, F) \cup {<<b, n + 1>>}
  <2>1. 1 .. (n + 1) = (1 .. n) \cup {n + 1}
    OBVIOUS
  <2>2. \A p : p \in Places(S, F) <=> \E s \in S : \E i \in DOMAIN F[s] : p = <<s, i>>
    BY DEF Places
  <2>3. \A p : p \in Places(S, G) <=> \E s \in S : \E i \in DOMAIN G[s] : p = <<s, i>>
    BY DEF Places
  <2>4. \A p : p \in Places(S, G) <=> p \in Places(S, F) \/ p = <<b, n + 1>>
    BY <2>1, <2>2, <2>3
  <2>5. QED
    BY <2>4
<1>4. QED
  BY <1>1, <1>2, <1>3, FS_AddElement
-----------------------------------------------------------------------------
(* How many threads are at certain points of their program.                *)

Standing(S, f, K) == {q \in S : f[q].at \in K}
StandsIn(p, K) == IF p.at \in K THEN 1 ELSE 0

\* Between f and g only thread r has moved.
OnlyMoves(S, f, g, r) == \A q \in S \ {r} : g[q] = f[q]

\* A step of one thread changes the number by that thread.
LEMMA StandingMoves ==
  ASSUME NEW S, IsFiniteSet(S), NEW f, NEW g, NEW r \in S, OnlyMoves(S, f, g, r), NEW K
  PROVE  /\ Cardinality(Standing(S, g, K)) + StandsIn(f[r], K)
              = Cardinality(Standing(S, f, K)) + StandsIn(g[r], K)
         /\ IsFiniteSet(Standing(S, f, K))
         /\ Cardinality(Standing(S, f, K)) \in Nat /\ Cardinality(Standing(S, g, K)) \in Nat
<1> DEFINE A == Standing(S, f, K)
           B == Standing(S, g, K)
<1>1. r \in A <=> StandsIn(f[r], K) = 1
  BY DEF Standing, StandsIn
<1>2. r \in B <=> StandsIn(g[r], K) = 1
  BY DEF Standing, StandsIn
<1>3. StandsIn(f[r], K) \in {0, 1} /\ StandsIn(g[r], K) \in {0, 1}
  BY DEF StandsIn
<1>4. B \ {r} = A \ {r}
  BY DEF Standing, OnlyMoves
<1>5. A \in SUBSET S /\ B \in SUBSET S
  BY DEF Standing
<1>6. IsFiniteSet(A) /\ IsFiniteSet(B) /\ Cardinality(A) \in Nat /\ Cardinality(B) \in Nat
  BY <1>5, FS_Subset, FS_CardinalityType
<1> HIDE DEF A, B
<1>7. CASE r \in A /\ r \notin B
  <2>1. B = A \ {r}
    BY <1>4, <1>7
  <2>2. Cardinality(B) = Cardinality(A) - 1
    BY <1>6, <1>7, <2>1, FS_RemoveElement
  <2>3. QED
    BY <1>1, <1>2, <1>3, <1>6, <1>7, <2>2 DEF A, B
<1>8. CASE r \notin A /\ r \in B
  <2>1. B = A \cup {r}
    BY <1>4, <1>8
  <2>2. Cardinality(B) = Cardinality(A) + 1
    BY <1>6, <1>8, <2>1, FS_AddElement
  <2>3. QED
    BY <1>1, <1>2, <1>3, <1>6, <1>8, <2>2 DEF A, B
<1>9. CASE r \in A <=> r \in B
  <2>1. B = A
    BY <1>4, <1>9
  <2>2. StandsIn(f[r], K) = StandsIn(g[r], K)
    BY <1>1, <1>2, <1>3, <1>9
  <2>3. QED
    BY <1>6, <2>1, <2>2 DEF A, B
<1>10. QED
  BY <1>7, <1>8, <1>9
=============================================================================
