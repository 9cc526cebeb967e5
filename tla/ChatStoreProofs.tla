--------------------------- MODULE ChatStoreProofs ---------------------------
(* The properties of ChatStore for any number of tabs, tenants and turns, and *)
(* any bounds.                                                                *)
EXTENDS ChatStore, FiniteSetTheorems, FunctionTheorems, SequenceTheorems, TLAPS

-----------------------------------------------------------------------------
(* What a sort by distinct times returns                                     *)

\* How many elements of S are not later than t.
Position(S, time, t) == Cardinality({u \in S : time[u] <= time[t]})

Sorted(order, time) == \A i, j \in DOMAIN order : i < j => time[order[i]] <= time[order[j]]

\* Later elements have greater positions, and every position is taken.
LEMMA Positions ==
    ASSUME NEW S, IsFiniteSet(S), NEW time \in [S -> Nat], IsInjective(time)
    PROVE  LET place == [t \in S |-> Position(S, time, t)] IN
           /\ Cardinality(S) \in Nat
           /\ place \in Bijection(S, 1 .. Cardinality(S))
           /\ \A t, u \in S : time[t] < time[u] => place[t] < place[u]
<1> DEFINE place == [t \in S |-> Position(S, time, t)]
           upTo(t) == {u \in S : time[u] <= time[t]}
<1>1. Cardinality(S) \in Nat
  BY FS_CardinalityType
<1>2. ASSUME NEW t \in S
      PROVE  IsFiniteSet(upTo(t)) /\ Cardinality(upTo(t)) \in 1 .. Cardinality(S)
  <2>1. IsFiniteSet(upTo(t)) /\ Cardinality(upTo(t)) <= Cardinality(S)
    <3>1. upTo(t) \in SUBSET S
      OBVIOUS
    <3> HIDE DEF upTo
    <3> QED  BY <3>1, FS_Subset
  <2>2. t \in upTo(t)
    OBVIOUS
  <2> HIDE DEF upTo
  <2>3. Cardinality(upTo(t)) \in Nat /\ Cardinality(upTo(t)) # 0
    BY <2>1, <2>2, FS_CardinalityType, FS_EmptySet
  <2> QED  BY <1>1, <2>1, <2>3
<1>3. ASSUME NEW t \in S, NEW u \in S, time[t] < time[u]
      PROVE  Cardinality(upTo(t)) < Cardinality(upTo(u))
  <2>1. upTo(t) \in SUBSET upTo(u) /\ u \in upTo(u) /\ u \notin upTo(t)
    BY <1>3
  <2>2. /\ IsFiniteSet(upTo(u))
        /\ Cardinality(upTo(t)) \in Nat /\ Cardinality(upTo(u)) \in Nat
    BY SMTT(30), <1>2
  <2> HIDE DEF upTo
  <2>3. /\ Cardinality(upTo(t)) <= Cardinality(upTo(u))
        /\ Cardinality(upTo(u)) = Cardinality(upTo(t)) => upTo(u) = upTo(t)
    BY <2>1, <2>2, FS_Subset
  <2> QED  BY <2>1, <2>2, <2>3
<1>4. \A t \in S : place[t] = Cardinality(upTo(t))
  BY DEF Position
<1> HIDE DEF upTo
<1>5. place \in [S -> 1 .. Cardinality(S)]
  BY <1>2, <1>4
<1>6. \A t, u \in S : time[t] < time[u] => place[t] < place[u]
  BY <1>3, <1>4
<1> HIDE DEF place
<1>7. \A t, u \in S : place[t] = place[u] => t = u
  <2> SUFFICES ASSUME NEW t \in S, NEW u \in S, place[t] = place[u], t # u
               PROVE  FALSE
    OBVIOUS
  <2>1. time[t] # time[u] /\ time[t] \in Nat /\ time[u] \in Nat
    BY DEF IsInjective
  <2>2. place[t] \in Nat /\ ~(place[t] < place[u]) /\ ~(place[u] < place[t])
    BY <1>1, <1>5
  <2> QED  BY <1>6, <2>1, <2>2
<1>8. place \in Injection(S, 1 .. Cardinality(S))
  BY <1>5, <1>7, Fun_IsInj
<1>9. IsFiniteSet(1 .. Cardinality(S)) /\ Cardinality(1 .. Cardinality(S)) = Cardinality(S)
  BY <1>1, FS_Interval
<1>10. place \in Surjection(S, 1 .. Cardinality(S))
  BY <1>8, <1>9, FS_Injection
<1>11. place \in Bijection(S, 1 .. Cardinality(S))
  BY <1>8, <1>10, Fun_IsBij
<1> QED
  BY <1>1, <1>6, <1>11 DEF place

LEMMA SortExists ==
    ASSUME NEW S, IsFiniteSet(S), NEW time \in [S -> Nat], IsInjective(time)
    PROVE  \E order \in SetToSeqs(S) : Sorted(order, time)
<1> DEFINE n == Cardinality(S)
           place == [t \in S |-> Position(S, time, t)]
           order == Inverse(place, S, 1 .. n)
<1>1. /\ n \in Nat /\ place \in Bijection(S, 1 .. n)
      /\ \A t, u \in S : time[t] < time[u] => place[t] < place[u]
  BY Positions
<1> HIDE DEF n, place
<1>2. place \in [S -> 1 .. n] /\ place \in Surjection(S, 1 .. n)
  BY <1>1, Fun_BijectionProperties
<1>3. order \in Bijection(1 .. n, S)
  BY <1>1, Fun_BijInverse
<1>4. order \in [1 .. n -> S] /\ \A i, j \in 1 .. n : order[i] = order[j] => i = j
  <2> HIDE DEF order
  <2> DEFINE T == 1 .. n
  <2>1. order \in Bijection(T, S)
    BY <1>3
  <2> HIDE DEF T
  <2>2. order \in [T -> S] /\ \A i, j \in T : order[i] = order[j] => i = j
    BY <2>1, Fun_BijectionProperties
  <2> QED  BY <2>2 DEF T
<1>5. \A i \in 1 .. n : place[order[i]] = i
  <2>1. Range(place) = 1 .. n
    BY <1>2, Fun_SurjectionProperties
  <2> QED  BY <1>2, <2>1, Fun_InverseProperties
<1> HIDE DEF order
<1>6. order \in SetToSeqs(S)
  BY <1>4 DEF SetToSeqs, n
<1>7. Sorted(order, time)
  <2> SUFFICES ASSUME NEW i \in 1 .. n, NEW j \in 1 .. n, i < j
               PROVE  time[order[i]] <= time[order[j]]
    BY <1>4 DEF Sorted
  <2>1. order[i] \in S /\ order[j] \in S
    BY <1>4
  <2>2. ~(place[order[j]] < place[order[i]])
    BY <1>1, <1>5
  <2> QED  BY <1>1, <2>1, <2>2
<1> QED
  BY <1>6, <1>7

\* In a sorted sequence everything is at its position: there is only one.
LEMMA SortedPlaces ==
    ASSUME NEW S, IsFiniteSet(S), NEW time \in [S -> Nat], IsInjective(time),
           NEW order \in SetToSeqs(S), Sorted(order, time)
    PROVE  /\ Cardinality(S) \in Nat
           /\ order \in [1 .. Cardinality(S) -> S]
           /\ \A i \in 1 .. Cardinality(S) : Position(S, time, order[i]) = i
           /\ \A t \in S : \E i \in 1 .. Cardinality(S) : order[i] = t
<1> DEFINE n == Cardinality(S)
<1>1. n \in Nat
  BY FS_CardinalityType
<1>2. order \in [1 .. n -> S] /\ \A i, j \in 1 .. n : i # j => order[i] # order[j]
  BY DEF SetToSeqs
<1>3. IsFiniteSet(1 .. n) /\ Cardinality(1 .. n) = n
  BY <1>1, FS_Interval
<1>4. order \in Injection(1 .. n, S)
  BY <1>2, Fun_IsInj
<1>5. \A t \in S : \E i \in 1 .. n : order[i] = t
  <2>1. order \in Surjection(1 .. n, S)
    BY <1>3, <1>4, FS_Injection
  <2> DEFINE T == 1 .. n
  <2>2. order \in Surjection(T, S)
    BY <2>1
  <2> HIDE DEF T
  <2>3. \A t \in S : \E i \in T : order[i] = t
    BY <2>2, Fun_SurjectionProperties
  <2> QED  BY <2>3 DEF T
<1>6. ASSUME NEW i \in 1 .. n  PROVE Position(S, time, order[i]) = i
  <2> DEFINE first == {order[j] : j \in 1 .. i}
             part == [j \in 1 .. i |-> order[j]]
  <2>1. i \in Nat /\ \A j \in 1 .. i : j \in 1 .. n
    BY <1>1
  <2>2. part \in Bijection(1 .. i, first)
    <3>1. part \in [1 .. i -> first]
      OBVIOUS
    <3>2. \A a, b \in 1 .. i : part[a] = part[b] => a = b
      BY <1>2, <2>1
    <3>3. \A t \in first : \E a \in 1 .. i : part[a] = t
      OBVIOUS
    <3> HIDE DEF part, first
    <3> QED  BY <3>1, <3>2, <3>3, Fun_IsBij
  <2>3. Cardinality(first) = i
    <3> HIDE DEF part, first
    <3>1. IsFiniteSet(1 .. i) /\ Cardinality(1 .. i) = i
      BY <2>1, FS_Interval
    <3>2. ExistsBijection(1 .. i, first)
      BY <2>2 DEF ExistsBijection
    <3> QED  BY <3>1, <3>2, FS_Bijection
  <2>4. \A j \in 1 .. n : time[order[j]] <= time[order[i]] <=> j <= i
    <3> SUFFICES ASSUME NEW j \in 1 .. n
                 PROVE  time[order[j]] <= time[order[i]] <=> j <= i
      OBVIOUS
    <3>1. /\ order[i] \in S /\ order[j] \in S
          /\ time[order[i]] \in Nat /\ time[order[j]] \in Nat
          /\ j # i => order[j] # order[i] /\ time[order[j]] # time[order[i]]
      BY <1>2 DEF IsInjective
    <3>2. j < i => time[order[j]] <= time[order[i]]
      BY <1>2 DEF Sorted
    <3>3. i < j => time[order[i]] <= time[order[j]]
      BY <1>2 DEF Sorted
    <3> QED  BY <1>1, <3>1, <3>2, <3>3
  <2>5. {u \in S : time[u] <= time[order[i]]} = first
    BY <1>2, <1>5, <2>1, <2>4
  <2> QED  BY <2>3, <2>5 DEF Position
<1> QED
  BY <1>1, <1>2, <1>5, <1>6

\* InOrder returns such a sequence.
LEMMA InOrderSorts ==
    ASSUME NEW S, IsFiniteSet(S), NEW time \in [S -> Nat], IsInjective(time)
    PROVE  InOrder(time) \in SetToSeqs(S) /\ Sorted(InOrder(time), time)
<1>1. DOMAIN time = S
  OBVIOUS
<1>2. \E order \in SetToSeqs(S) : Sorted(order, time)
  BY SortExists
<1> QED  BY <1>1, <1>2 DEF InOrder, Sorted

LEMMA SortedOnce ==
    ASSUME NEW S, IsFiniteSet(S), NEW time \in [S -> Nat], IsInjective(time),
           NEW order \in SetToSeqs(S), Sorted(order, time)
    PROVE  order = InOrder(time)
<1> DEFINE n == Cardinality(S)
           other == InOrder(time)
<1>1. /\ order \in [1 .. n -> S]
      /\ \A i \in 1 .. n : Position(S, time, order[i]) = i
  BY SortedPlaces
<1>2. other \in SetToSeqs(S) /\ Sorted(other, time)
  BY InOrderSorts
<1> HIDE DEF other
<1>3. /\ other \in [1 .. n -> S]
      /\ \A i \in 1 .. n : Position(S, time, other[i]) = i
  BY <1>2, SortedPlaces
<1>4. \A t, u \in S : Position(S, time, t) = Position(S, time, u) => t = u
  <2> DEFINE place == [t \in S |-> Position(S, time, t)]
  <2>1. place \in Bijection(S, 1 .. n)
    BY Positions
  <2>2. \A t \in S : place[t] = Position(S, time, t)
    OBVIOUS
  <2> HIDE DEF place
  <2>3. \A t, u \in S : place[t] = place[u] => t = u
    BY <2>1, Fun_BijectionProperties
  <2> QED  BY <2>2, <2>3
<1>5. \A i \in 1 .. n : order[i] = other[i]
  BY <1>1, <1>3, <1>4
<1> HIDE DEF n
<1>6. order = other
  <2> DEFINE D == 1 .. n
  <2>1. order \in [D -> S] /\ other \in [D -> S] /\ \A i \in D : order[i] = other[i]
    BY <1>1, <1>3, <1>5
  <2> HIDE DEF D
  <2> QED  BY <2>1
<1> QED  BY <1>6 DEF other

\* t is added to S with a time later than the others have.
ComesLast(t, S, time, before) ==
    /\ t \notin S /\ time \in [S \union {t} -> Nat] /\ before \in [S -> Nat]
    /\ IsInjective(time)
    /\ \A u \in S : time[u] < time[t] /\ before[u] = time[u]

\* What is later than everything comes at the end.
LEMMA SortGrows ==
    ASSUME NEW S, IsFiniteSet(S), NEW t, NEW time, NEW before, ComesLast(t, S, time, before)
    PROVE  InOrder(time) = Append(InOrder(before), t)
<1> t \notin S /\ time \in [S \union {t} -> Nat] /\ before \in [S -> Nat]
  BY DEF ComesLast
<1> IsInjective(time) /\ \A u \in S : time[u] < time[t] /\ before[u] = time[u]
  BY DEF ComesLast
<1> DEFINE n == Cardinality(S)
           T == S \union {t}
           order == InOrder(before)
           longer == Append(order, t)
<1>1. IsFiniteSet(T) /\ Cardinality(T) = n + 1 /\ n \in Nat
  BY FS_AddElement, FS_CardinalityType
<1>2. IsInjective(before)
  BY DEF IsInjective
<1>3. order \in SetToSeqs(S) /\ Sorted(order, before)
  BY <1>2, InOrderSorts
<1> HIDE DEF order
<1>4. order \in [1 .. n -> S] /\ \A i, j \in 1 .. n : i # j => order[i] # order[j]
  BY <1>3 DEF SetToSeqs
<1> HIDE DEF n
<1>5. order \in Seq(S) /\ Len(order) = n
  BY <1>1, <1>4
<1>6. /\ longer \in [1 .. n + 1 -> T] /\ longer[n + 1] = t
      /\ \A i \in 1 .. n : longer[i] = order[i] /\ longer[i] \in S
  <2>1. longer \in Seq(T) /\ Len(longer) = n + 1
    BY <1>5
  <2>2. longer[n + 1] = t /\ \A i \in 1 .. n : longer[i] = order[i]
    BY <1>5
  <2> HIDE DEF longer, T
  <2> QED  BY <1>1, <1>4, <2>1, <2>2
<1> HIDE DEF longer
<1>7. longer \in SetToSeqs(T)
  <2>1. ASSUME NEW i \in 1 .. n + 1, NEW j \in 1 .. n + 1, i # j
        PROVE  longer[i] # longer[j]
    <3>1. i \in 1 .. n \/ i = n + 1
      BY <1>1
    <3>2. j \in 1 .. n \/ j = n + 1
      BY <1>1
    <3> QED  BY <1>4, <1>6, <2>1, <3>1, <3>2
  <2> HIDE DEF T
  <2> QED  BY <1>1, <1>6, <2>1 DEF SetToSeqs
<1>8. Sorted(longer, time)
  <2> SUFFICES ASSUME NEW i \in 1 .. n + 1, NEW j \in 1 .. n + 1, i < j
               PROVE  time[longer[i]] <= time[longer[j]]
    BY <1>6 DEF Sorted
  <2>1. i \in 1 .. n /\ longer[i] = order[i] /\ order[i] \in S
    BY <1>1, <1>4, <1>6
  <2>2. CASE j = n + 1
    <3>1. longer[j] = t /\ time[order[i]] < time[t] /\ time[order[i]] \in Nat /\ time[t] \in Nat
      BY <1>6, <2>1, <2>2
    <3> QED  BY <2>1, <3>1
  <2>3. CASE j # n + 1
    <3>1. j \in 1 .. n /\ longer[j] = order[j] /\ order[j] \in S
      BY <1>1, <1>4, <1>6, <2>3
    <3>2. before[order[i]] <= before[order[j]]
      BY <1>3, <1>4, <2>1, <3>1 DEF Sorted
    <3> QED  BY <2>1, <3>1, <3>2
  <2> QED  BY <2>2, <2>3
<1>9. T = S \union {t}
  OBVIOUS
<1> HIDE DEF T
<1>10. time \in [T -> Nat]
  BY <1>9
<1>11. longer = InOrder(time)
  BY <1>1, <1>7, <1>8, <1>10, SortedOnce
<1> QED  BY <1>11 DEF longer, order

LEMMA BubblesType ==
    ASSUME NEW order \in Seq(Turn)
    PROVE  Bubbles(order) \in Seq(Bubble) /\ Len(Bubbles(order)) = 2 * Len(order)
<1> DEFINE n == Len(order)
<1>1. n \in Nat /\ \A i \in 1 .. n : order[i] \in Turn
  OBVIOUS
<1> HIDE DEF n
<1>2. ASSUME NEW i \in 1 .. 2 * n
      PROVE  Bubbles(order)[i] \in Bubble
  <2>1. Bubbles(order)[i] =
          IF i % 2 = 1 THEN Question(order[(i + 1) \div 2]) ELSE Answer(<<order[i \div 2]>>)
    BY DEF Bubbles, n
  <2>2. CASE i % 2 = 1
    <3>1. (i + 1) \div 2 \in 1 .. n
      BY <1>1, <2>2
    <3> QED  BY <1>1, <2>1, <2>2, <3>1 DEF Question, Bubble
  <2>3. CASE i % 2 # 1
    <3>1. i \div 2 \in 1 .. n
      BY <1>1, <2>3
    <3> QED  BY <1>1, <2>1, <2>3, <3>1 DEF Answer, Bubble
  <2> QED  BY <2>2, <2>3
<1>3. DOMAIN Bubbles(order) = 1 .. 2 * n /\ 2 * n \in Nat
  BY <1>1 DEF Bubbles, n
<1>4. Bubbles(order) = [i \in 1 .. 2 * n |-> Bubbles(order)[i]]
  BY DEF Bubbles, n
<1>5. Bubbles(order) \in [1 .. 2 * n -> Bubble]
  BY <1>2, <1>4
<1> QED  BY <1>3, <1>5 DEF n

\* The messages of one more turn are one more question and its answer.
LEMMA BubblesGrow ==
    ASSUME NEW order \in Seq(Turn), NEW t \in Turn
    PROVE  Bubbles(Append(order, t))
             = Append(Append(Bubbles(order), Question(t)), Answer(<<t>>))
<1> DEFINE n == Len(order)
           more == Append(order, t)
           begun == Bubbles(order)
           longer == Append(begun, Question(t))
           long == Append(longer, Answer(<<t>>))
<1>1. /\ more \in Seq(Turn) /\ Len(more) = n + 1 /\ more[n + 1] = t
      /\ \A i \in 1 .. n : more[i] = order[i]
  BY AppendProperties
<1>2. n \in Nat
  OBVIOUS
<1> HIDE DEF more, n
<1> DEFINE m == 2 * n
<1>3. m \in Nat /\ m = 2 * n /\ 2 * (n + 1) = m + 2
  BY <1>2
<1>4. begun \in Seq(Bubble) /\ Len(begun) = m
  BY BubblesType DEF n
<1>5. Bubbles(more) \in Seq(Bubble) /\ Len(Bubbles(more)) = m + 2
  BY <1>1, <1>3, BubblesType
<1>6. \A i \in 1 .. m : begun[i] =
        IF i % 2 = 1 THEN Question(order[(i + 1) \div 2]) ELSE Answer(<<order[i \div 2]>>)
  BY DEF Bubbles, n
<1>7. \A i \in 1 .. m + 2 : Bubbles(more)[i] =
        IF i % 2 = 1 THEN Question(more[(i + 1) \div 2]) ELSE Answer(<<more[i \div 2]>>)
  <2>1. 2 * Len(more) = m + 2
    BY <1>1, <1>3
  <2> HIDE DEF m
  <2> QED  BY <2>1 DEF Bubbles
<1> HIDE DEF m, begun
<1>8. Question(t) \in Bubble /\ Answer(<<t>>) \in Bubble
  BY DEF Question, Answer, Bubble
<1>9. /\ longer \in Seq(Bubble) /\ Len(longer) = m + 1
      /\ \A i \in 1 .. m : longer[i] = begun[i]
      /\ longer[m + 1] = Question(t)
  BY <1>4, <1>8, AppendProperties
<1> HIDE DEF longer
<1>10. /\ long \in Seq(Bubble) /\ Len(long) = m + 2
       /\ \A i \in 1 .. m : long[i] = begun[i]
       /\ long[m + 1] = Question(t) /\ long[m + 2] = Answer(<<t>>)
  <2>1. /\ long \in Seq(Bubble) /\ Len(long) = (m + 1) + 1
        /\ \A i \in 1 .. m + 1 : long[i] = longer[i]
        /\ long[(m + 1) + 1] = Answer(<<t>>)
    BY <1>8, <1>9, AppendProperties
  <2> HIDE DEF long
  <2> QED  BY <1>3, <1>9, <2>1
<1> HIDE DEF long
<1>11. ASSUME NEW i \in 1 .. m + 2  PROVE Bubbles(more)[i] = long[i]
  <2>1. i \in 1 .. m \/ i = m + 1 \/ i = m + 2
    BY <1>3
  <2>2. CASE i \in 1 .. m /\ i % 2 = 1
    <3>1. (i + 1) \div 2 \in 1 .. n
      BY <1>2, <1>3, <2>2
    <3> QED  BY <1>1, <1>6, <1>7, <1>10, <2>2, <3>1
  <2>3. CASE i \in 1 .. m /\ i % 2 # 1
    <3>1. i \div 2 \in 1 .. n
      BY <1>2, <1>3, <2>3
    <3> QED  BY <1>1, <1>6, <1>7, <1>10, <2>3, <3>1
  <2>4. CASE i = m + 1
    <3>1. i % 2 = 1 /\ (i + 1) \div 2 = n + 1
      BY <1>2, <1>3, <2>4
    <3> QED  BY <1>1, <1>7, <1>10, <2>4, <3>1
  <2>5. CASE i = m + 2
    <3>1. i % 2 # 1 /\ i \div 2 = n + 1
      BY <1>2, <1>3, <2>5
    <3> QED  BY <1>1, <1>7, <1>10, <2>5, <3>1
  <2> QED  BY <2>1, <2>2, <2>3, <2>4, <2>5
<1>12. Bubbles(more) = long
  BY <1>5, <1>10, <1>11, SeqEqual
<1> QED  BY <1>12 DEF more, long, longer, begun

-----------------------------------------------------------------------------
(* What is true of the server's turns                                        *)

\* The turns of order follow one another in time and end before the given time.
InTime(order, ts, time) == \A i \in DOMAIN order :
    /\ ts[order[i]].stamp < time
    /\ \A j \in DOMAIN order : i < j => ts[order[i]].stamp < ts[order[j]].stamp

\* A turn q, beside the conversations cs, the turns ts and the clock: it belongs
\* to a conversation of its tenant once it was looked up; it has a time from the
\* moment its transaction began; what it was told was saved in its conversation,
\* before it.
TurnOK(q, cs, ts, now) ==
    /\ q.conversation # NoConversation =>
         q.conversation \in DOMAIN cs /\ cs[q.conversation].tenant = q.tenant
    /\ q.at = "sent" => /\ q.conversation = NoConversation /\ q.stamp = 0
                        /\ q.history = <<>> /\ q.wire = <<>>
    /\ q.at \notin {"sent", "closed"} => q.conversation # NoConversation
    /\ q.at \in {"stream", "append", "commit"} \/ q.saved => q.stamp > 0
    /\ q.stamp <= now
    /\ q.saved => q.at = "closed" /\ q.conversation # NoConversation
    /\ \A i \in DOMAIN q.history :
         /\ q.history[i] \in DOMAIN ts
         /\ ts[q.history[i]].saved /\ ts[q.history[i]].conversation = q.conversation
    /\ InTime(q.history, ts, q.stamp)

OwnTimes == \A t, u \in DOMAIN turns :
    turns[t].stamp = turns[u].stamp => t = u \/ turns[t].stamp = 0

ServerInv ==
    /\ TypeOK
    /\ \A t \in DOMAIN turns : TurnOK(turns[t], conversations, turns, clock)
    /\ OwnTimes

-----------------------------------------------------------------------------
(* What a user who waits sees                                                *)

Active(b) == {t \in TurnsFrom(b) : turns[t].at # "closed" \/ turns[t].wire # <<>>}

\* The conversation a turn is about.
About(q) == IF q.at = "sent" THEN q.asked ELSE q.conversation

\* The events of an answer that can be on their way.
OnTheWay(stage) ==
    CASE stage = "sent" -> {<<>>}
      [] stage \in {"lookup", "stream"} -> {<<"conversation">>, <<>>}
      [] stage = "append" -> {<<"conversation", "token">>, <<"token">>, <<>>}
      [] OTHER -> {<<"conversation", "token", "done">>, <<"token", "done">>, <<"done">>, <<>>}

Adopted(q) == q.at # "sent" /\ (q.wire = <<>> \/ Head(q.wire) # "conversation")
HasToken(q) == q.wire = <<"done">> \/ (q.at = "append" /\ q.wire = <<>>)
Finished(q) == q.at = "commit" /\ q.wire = <<>>

\* The turns of its conversation without the turn itself, in their order.
Earlier(t) == InOrder(CreatedAt(TurnsOf(About(turns[t])) \ {t}))

\* A page that waits for turn t, which is q; own: its conversation has only turns
\* of this tab.
Waiting(page, q, t, earlier, own) ==
    LET asked == Append(Bubbles(earlier), Question(t))
    IN /\ page.opening = <<>>
       /\ q.wire \in OnTheWay(q.at)
       /\ page.conversation = IF Adopted(q) THEN q.conversation ELSE q.asked
       /\ page.isStreaming = ~Finished(q)
       /\ page.streamingText = IF HasToken(q) THEN <<t>> ELSE <<>>
       /\ own => /\ page.messages = IF Finished(q) THEN Append(asked, Answer(<<t>>)) ELSE asked
                 /\ q.at \in {"stream", "append"} => q.history = earlier

\* A page that waits for no turn; order: the turns of its conversation.
Settled(page, order, own) ==
    /\ ~page.isStreaming
    /\ \/ page.opening = <<>> /\ (own => page.messages = Bubbles(order))
       \/ /\ Len(page.opening) = 1 /\ page.opening[1].conversation = page.conversation
          /\ page.opening[1].answered /\ own => page.opening[1].bubbles = Bubbles(order)

\* The conversation of the page is one of its tenant's; it waits for one turn at
\* most, which is the latest of the tab to have a time.
PageOK(b) ==
    /\ tabs[b].conversation # NoConversation =>
         /\ tabs[b].conversation \in DOMAIN conversations
         /\ conversations[tabs[b].conversation].tenant = tabs[b].tenant
    /\ \A t \in TurnsFrom(b) : turns[t].tenant = tabs[b].tenant
    /\ \A t, u \in Active(b) : t = u
    /\ \A t \in Active(b), u \in DOMAIN turns :
         turns[u].tab = b /\ u # t /\ turns[t].stamp > 0 => turns[u].stamp < turns[t].stamp
    /\ Active(b) = {} =>
         Settled(tabs[b], Ordered(tabs[b].conversation), Own(b, tabs[b].conversation))
    /\ \A t \in Active(b) :
         Waiting(tabs[b], turns[t], t, Earlier(t), Own(b, About(turns[t])))

TurnsEnd == \A t \in DOMAIN turns :
    /\ turns[t].at # "closed" => turns[t].listening
    /\ turns[t].at = "closed" => turns[t].saved

ScreenInv == Calm => TurnsEnd /\ \A b \in Tabs : PageOK(b)

-----------------------------------------------------------------------------
(* The server's turns                                                        *)

LEMMA SpendTypes ==
    ASSUME budget \in Budget,
           NEW kinds \in SUBSET {"turns", "opens", "renames", "errors", "haste", "switches"},
           Spend(kinds)
    PROVE  /\ budget' \in Budget
           /\ budget'.happened = budget.happened \union (kinds \intersect Trouble)
<1> DEFINE left(kind) == IF kind = "happened" THEN budget.happened \union (kinds \intersect Trouble)
                         ELSE IF kind \in kinds THEN budget[kind] - 1 ELSE budget[kind]
<1>1. DOMAIN budget = {"turns", "opens", "renames", "errors", "haste", "switches", "happened"}
  BY DEF Budget
<1>2. budget' = [kind \in DOMAIN budget |-> left(kind)]
  BY DEF Spend
<1>3. /\ left("turns") \in Nat /\ left("opens") \in Nat /\ left("renames") \in Nat
      /\ left("errors") \in Nat /\ left("haste") \in Nat /\ left("switches") \in Nat
  BY DEF Spend, Budget
<1>4. left("happened") \in SUBSET Trouble
         /\ left("happened") = budget.happened \union (kinds \intersect Trouble)
  BY DEF Budget
<1> HIDE DEF left
<1>5. budget' = [turns |-> left("turns"), opens |-> left("opens"), renames |-> left("renames"),
                 errors |-> left("errors"), haste |-> left("haste"),
                 switches |-> left("switches"), happened |-> left("happened")]
  BY <1>1, <1>2
<1> QED  BY <1>3, <1>4, <1>5 DEF Budget

LEMMA TurnTypes ==
    ASSUME turns \in Seq(TurnRecord), NEW t \in DOMAIN turns
    PROVE  turns[t] \in TurnRecord /\ turns[t].stamp \in Nat /\ turns[t].tab \in Tabs
<1>1. turns[t] \in TurnRecord
  OBVIOUS
<1> QED  BY <1>1 DEF TurnRecord

\* The saved turns among which a sort chooses.
LEMMA SavedTimes ==
    ASSUME ServerInv, NEW set \in SUBSET {t \in DOMAIN turns : turns[t].saved}
    PROVE  /\ IsFiniteSet(set) /\ set \subseteq Turn
           /\ CreatedAt(set) \in [set -> Nat] /\ IsInjective(CreatedAt(set))
<1>1. DOMAIN turns = 1 .. Len(turns) /\ Len(turns) \in Nat
  BY DEF ServerInv, TypeOK, ServerTypeOK
<1>2. IsFiniteSet(set)
  <2>1. IsFiniteSet(1 .. Len(turns)) /\ set \in SUBSET (1 .. Len(turns))
    BY <1>1, FS_Interval
  <2> QED  BY <2>1, FS_Subset
<1>3. set \subseteq Turn
  BY <1>1 DEF Turn
<1>4. ASSUME NEW t \in set  PROVE turns[t].stamp \in Nat /\ turns[t].stamp # 0
  <2>1. turns[t] \in TurnRecord /\ TurnOK(turns[t], conversations, turns, clock)
    BY TurnTypes DEF ServerInv, TypeOK, ServerTypeOK
  <2> QED  BY <2>1 DEF TurnOK, TurnRecord
<1>5. CreatedAt(set) \in [set -> Nat]
  BY <1>4 DEF CreatedAt
<1>6. \A t, u \in set : turns[t].stamp = turns[u].stamp => t = u
  BY <1>4 DEF ServerInv, OwnTimes
<1>7. IsInjective(CreatedAt(set))
  BY <1>6 DEF CreatedAt, IsInjective
<1> QED  BY <1>2, <1>3, <1>5, <1>7

LEMMA OrderTypes ==
    ASSUME ServerInv, NEW set \in SUBSET {t \in DOMAIN turns : turns[t].saved}
    PROVE  InOrder(CreatedAt(set)) \in Seq(set) /\ InOrder(CreatedAt(set)) \in Seq(Turn)
<1> DEFINE order == InOrder(CreatedAt(set))
<1>1. /\ IsFiniteSet(set) /\ set \subseteq Turn
      /\ CreatedAt(set) \in [set -> Nat] /\ IsInjective(CreatedAt(set))
  BY SavedTimes
<1>2. order \in SetToSeqs(set) /\ Sorted(order, CreatedAt(set))
  BY <1>1, InOrderSorts
<1> HIDE DEF order
<1>3. Cardinality(set) \in Nat /\ order \in [1 .. Cardinality(set) -> set]
  BY <1>1, <1>2, SortedPlaces
<1>4. order \in Seq(set)
  BY <1>3
<1> QED  BY <1>1, <1>4, SeqMonotonic DEF order

LEMMA OrderedTypes ==
    ASSUME ServerInv, NEW c
    PROVE  Ordered(c) \in Seq(TurnsOf(c)) /\ Ordered(c) \in Seq(Turn)
  BY OrderTypes DEF Ordered, TurnsOf

\* The readers get the turns of a conversation one after the other.
LEMMA OrderedTimes ==
    ASSUME ServerInv, NEW c
    PROVE  /\ \A i, j \in DOMAIN Ordered(c) :
                i < j => turns[Ordered(c)[i]].stamp < turns[Ordered(c)[j]].stamp
           /\ \A t \in TurnsOf(c) : \E i \in DOMAIN Ordered(c) : Ordered(c)[i] = t
<1> DEFINE set == TurnsOf(c)
           time == CreatedAt(set)
           order == Ordered(c)
<1>1. /\ IsFiniteSet(set) /\ time \in [set -> Nat] /\ IsInjective(time)
      /\ \A t \in set : time[t] = turns[t].stamp
  BY SavedTimes DEF TurnsOf, CreatedAt
<1>2. order \in SetToSeqs(set) /\ Sorted(order, time)
  <2>1. order = InOrder(time)
    BY DEF Ordered
  <2> HIDE DEF order, set, time
  <2> QED  BY <1>1, <2>1, InOrderSorts
<1> HIDE DEF order, set, time
<1> DEFINE n == Cardinality(set)
<1>3. /\ n \in Nat /\ order \in [1 .. n -> set]
      /\ \A t \in set : \E i \in 1 .. n : order[i] = t
  BY <1>1, <1>2, SortedPlaces
<1>4. \A i, j \in 1 .. n : i # j => order[i] # order[j]
  BY <1>2 DEF SetToSeqs
<1> HIDE DEF n
<1>5. ASSUME NEW i \in 1 .. n, NEW j \in 1 .. n, i < j
      PROVE  turns[order[i]].stamp < turns[order[j]].stamp
  <2>1. order[i] \in set /\ order[j] \in set /\ order[i] # order[j]
    BY <1>3, <1>4, <1>5
  <2>2. /\ time[order[i]] \in Nat /\ time[order[j]] \in Nat
        /\ time[order[i]] # time[order[j]]
    BY <1>1, <2>1 DEF IsInjective
  <2>3. time[order[i]] <= time[order[j]]
    BY <1>2, <1>3, <1>5 DEF Sorted
  <2> QED  BY <1>1, <2>1, <2>2, <2>3
<1>6. DOMAIN order = 1 .. n
  BY <1>3
<1> QED  BY <1>3, <1>5, <1>6 DEF order, set

LEMMA NothingTold == \A ts, time : InTime(<<>>, ts, time)
  BY DEF InTime

\* A turn that is not touched stays right while the tables grow.
LEMMA TurnStaysOK ==
    ASSUME NEW q, NEW cs, NEW ts, NEW now \in Nat, TurnOK(q, cs, ts, now), q.stamp \in Nat,
           NEW newer, NEW more, NEW later \in Nat, now <= later,
           \A c \in DOMAIN cs : c \in DOMAIN newer /\ newer[c].tenant = cs[c].tenant,
           \A t \in DOMAIN ts : ts[t].saved =>
              /\ t \in DOMAIN more /\ more[t].saved /\ more[t].stamp = ts[t].stamp
              /\ more[t].conversation = ts[t].conversation
    PROVE  TurnOK(q, newer, more, later)
<1>1. q.stamp <= later
  BY DEF TurnOK
<1>2. InTime(q.history, more, q.stamp)
  <2>1. \A i \in DOMAIN q.history : more[q.history[i]].stamp = ts[q.history[i]].stamp
    BY DEF TurnOK
  <2> QED  BY <2>1 DEF TurnOK, InTime
<1> QED  BY <1>1, <1>2 DEF TurnOK

LEMMA TurnMoves ==
    ASSUME ServerInv, NEW t \in DOMAIN turns, NEW new \in TurnRecord,
           turns' = [turns EXCEPT ![t] = new],
           conversations' \in Seq(Row), clock' \in Nat, clock <= clock',
           budget' \in Budget, tabs' \in [Tabs -> Tab],
           \A c \in DOMAIN conversations :
              c \in DOMAIN conversations' /\ conversations'[c].tenant = conversations[c].tenant,
           TurnOK(new, conversations', turns, clock'),
           turns[t].saved => /\ new.saved /\ new.stamp = turns[t].stamp
                             /\ new.conversation = turns[t].conversation,
           \A u \in DOMAIN turns : u # t /\ turns[u].stamp = new.stamp => new.stamp = 0
    PROVE  ServerInv'
<1>1. /\ turns \in Seq(TurnRecord) /\ clock \in Nat
      /\ \A u \in DOMAIN turns : TurnOK(turns[u], conversations, turns, clock)
  BY DEF ServerInv, TypeOK, ServerTypeOK
<1>2. /\ turns' \in Seq(TurnRecord) /\ DOMAIN turns' = DOMAIN turns
      /\ turns'[t] = new /\ \A u \in DOMAIN turns : u # t => turns'[u] = turns[u]
  BY <1>1
<1>3. \A u \in DOMAIN turns : turns[u].saved =>
         /\ u \in DOMAIN turns' /\ turns'[u].saved /\ turns'[u].stamp = turns[u].stamp
         /\ turns'[u].conversation = turns[u].conversation
  BY <1>2
<1>4. \A u \in DOMAIN turns : turns[u] \in TurnRecord /\ turns[u].stamp \in Nat
  BY <1>1, TurnTypes
<1>5. new.stamp \in Nat
  BY DEF TurnRecord
<1>6. ASSUME NEW u \in DOMAIN turns  PROVE TurnOK(turns'[u], conversations', turns', clock')
  <2>1. CASE u = t
    <3>1. clock' <= clock'
      OBVIOUS
    <3>2. TurnOK(new, conversations', turns', clock')
      BY ZenonT(60), <1>3, <1>5, <3>1, TurnStaysOK
    <3> QED  BY <1>2, <2>1, <3>2
  <2>2. CASE u # t
    <3>1. TurnOK(turns[u], conversations', turns', clock')
      BY ZenonT(60), <1>1, <1>3, <1>4, TurnStaysOK
    <3> QED  BY <1>2, <2>2, <3>1
  <2> QED  BY <2>1, <2>2
<1>7. OwnTimes'
  BY <1>2 DEF ServerInv, OwnTimes
<1>8. ServerTypeOK'
  BY <1>2, <1>6 DEF ServerTypeOK, TurnOK
<1> QED  BY <1>2, <1>6, <1>7, <1>8 DEF ServerInv, TypeOK

LEMMA TurnFacts ==
    ASSUME ServerInv, NEW t \in DOMAIN turns
    PROVE  /\ turns[t] \in TurnRecord /\ TurnOK(turns[t], conversations, turns, clock)
           /\ turns \in Seq(TurnRecord) /\ conversations \in Seq(Row) /\ clock \in Nat
           /\ budget \in Budget /\ tabs \in [Tabs -> Tab]
           /\ \A u \in DOMAIN turns : turns[u].stamp \in Nat /\ turns[u].stamp <= clock
<1>1. /\ turns \in Seq(TurnRecord) /\ conversations \in Seq(Row) /\ clock \in Nat
      /\ budget \in Budget /\ tabs \in [Tabs -> Tab]
      /\ \A u \in DOMAIN turns : TurnOK(turns[u], conversations, turns, clock)
  BY DEF ServerInv, TypeOK, ServerTypeOK
<1>2. \A u \in DOMAIN turns : turns[u].stamp \in Nat /\ turns[u].stamp <= clock
  BY <1>1, TurnTypes DEF TurnOK
<1> QED  BY <1>1, <1>2, TurnTypes

LEMMA PostOK ==
    ASSUME ServerInv, NEW t \in DOMAIN turns, Post(t), UNCHANGED tabs
    PROVE  ServerInv'
<1> DEFINE q == turns[t]
           reply(c) == [q EXCEPT !.at = "lookup", !.conversation = c, !.wire = <<"conversation">>]
<1>1. /\ q \in TurnRecord /\ TurnOK(q, conversations, turns, clock)
      /\ turns \in Seq(TurnRecord) /\ conversations \in Seq(Row) /\ clock \in Nat
      /\ budget \in Budget /\ tabs \in [Tabs -> Tab]
  BY TurnFacts
<1>2. q.at = "sent" /\ UNCHANGED <<budget, tabs>>
  BY DEF Post, TurnAt
<1>3. q.stamp = 0 /\ q.history = <<>> /\ ~q.saved
  BY <1>1, <1>2 DEF TurnOK
<1>4. ASSUME NEW c \in ConversationId
      PROVE  /\ reply(c) \in TurnRecord /\ reply(c).at = "lookup" /\ reply(c).conversation = c
             /\ reply(c).tenant = q.tenant /\ reply(c).stamp = 0 /\ reply(c).history = <<>>
             /\ ~reply(c).saved
  <2>1. <<"conversation">> \in Seq(Event) /\ "lookup" \in Stage
    BY DEF Event, Stage
  <2> QED  BY <1>1, <1>3, <1>4, <2>1 DEF TurnRecord
<1>5. ASSUME NEW c \in ConversationId, turns' = [turns EXCEPT ![t] = reply(c)],
             conversations' \in Seq(Row), clock' \in Nat, clock <= clock',
             \A d \in DOMAIN conversations :
                d \in DOMAIN conversations' /\ conversations'[d].tenant = conversations[d].tenant,
             c \in DOMAIN conversations', conversations'[c].tenant = q.tenant
      PROVE  ServerInv'
  <2> DEFINE new == reply(c)
  <2>1. /\ new \in TurnRecord /\ new.at = "lookup" /\ new.conversation = c
        /\ new.tenant = q.tenant /\ new.stamp = 0 /\ new.history = <<>> /\ ~new.saved
    BY <1>4
  <2>2. turns' = [turns EXCEPT ![t] = new]
    BY <1>5
  <2> HIDE DEF new, reply
  <2>3. c # NoConversation
    BY ConversationsAssumption
  <2>4. TurnOK(new, conversations', turns, clock')
    BY <1>5, <2>1, <2>3, NothingTold DEF TurnOK
  <2>5. budget' \in Budget /\ tabs' \in [Tabs -> Tab]
    BY <1>1, <1>2
  <2> QED  BY <1>3, <1>5, <2>1, <2>2, <2>4, <2>5, TurnMoves
<1>6. CASE /\ Found(t) /\ UNCHANGED <<conversations, clock>>
           /\ turns' = [turns EXCEPT ![t] = reply(q.asked)]
  <2>1. q.asked \in ConversationId
    BY <1>1, <1>6 DEF Found, ConversationId
  <2>2. q.asked \in DOMAIN conversations /\ conversations[q.asked].tenant = q.tenant
    BY <1>6 DEF Found
  <2> DEFINE c == q.asked
  <2>3. /\ c \in ConversationId /\ turns' = [turns EXCEPT ![t] = reply(c)]
        /\ c \in DOMAIN conversations' /\ conversations'[c].tenant = q.tenant
    BY <1>6, <2>1, <2>2
  <2>4. /\ conversations' \in Seq(Row) /\ clock' \in Nat /\ clock <= clock'
        /\ \A d \in DOMAIN conversations :
             d \in DOMAIN conversations' /\ conversations'[d].tenant = conversations[d].tenant
    BY <1>1, <1>6
  <2> HIDE DEF q, c, reply
  <2> QED  BY <1>5, <2>3, <2>4
<1>7. CASE /\ clock' = clock + 1
           /\ conversations' = Append(conversations,
                  [tenant |-> q.tenant, updated |-> clock + 1, titled |-> FALSE])
           /\ turns' = [turns EXCEPT ![t] = reply(Len(conversations) + 1)]
  <2> DEFINE row == [tenant |-> q.tenant, updated |-> clock + 1, titled |-> FALSE]
             c == Len(conversations) + 1
  <2>1. row \in Row /\ row.tenant = q.tenant
    BY <1>1 DEF Row, TurnRecord
  <2>2. conversations' = Append(conversations, row)
    BY <1>7
  <2> HIDE DEF row
  <2>3. /\ conversations' \in Seq(Row) /\ c \in DOMAIN conversations'
        /\ conversations'[c] = row
        /\ \A d \in DOMAIN conversations :
             d \in DOMAIN conversations' /\ conversations'[d] = conversations[d]
    BY <1>1, <2>1, <2>2
  <2>4. c \in ConversationId
    BY <1>1 DEF ConversationId
  <2> HIDE DEF reply
  <2>5. turns' = [turns EXCEPT ![t] = reply(c)] /\ clock' \in Nat /\ clock <= clock'
    BY <1>1, <1>7
  <2> HIDE DEF q, c
  <2> QED  BY <1>5, <2>1, <2>3, <2>4, <2>5
<1> QED
  BY <1>6, <1>7 DEF Post

LEMMA TimeStays ==
    ASSUME ServerInv, NEW t \in DOMAIN turns
    PROVE  \A u \in DOMAIN turns :
             u # t /\ turns[u].stamp = turns[t].stamp => turns[t].stamp = 0
  BY DEF ServerInv, OwnTimes

\* A turn begins its transaction, or goes on in it.
LEMMA AnswerOK ==
    ASSUME ServerInv, NEW t \in DOMAIN turns,
           Hit(t) \/ LoadHistory(t) \/ Stream(t) \/ AppendMessages(t) \/ Commit(t),
           UNCHANGED tabs
    PROVE  ServerInv'
<1> DEFINE q == turns[t]
<1>1. /\ q \in TurnRecord /\ TurnOK(q, conversations, turns, clock)
      /\ turns \in Seq(TurnRecord) /\ conversations \in Seq(Row) /\ clock \in Nat
      /\ budget \in Budget /\ tabs \in [Tabs -> Tab]
      /\ \A u \in DOMAIN turns : turns[u].stamp \in Nat /\ turns[u].stamp <= clock
  BY TurnFacts
<1>2. /\ conversations' \in Seq(Row) /\ budget' \in Budget /\ tabs' \in [Tabs -> Tab]
      /\ conversations' = conversations
  BY <1>1 DEF Hit, LoadHistory, Stream, AppendMessages, Commit
<1>3. q.at \notin {"sent", "closed"} /\ q.conversation # NoConversation /\ ~q.saved
  BY <1>1 DEF Hit, LoadHistory, Stream, AppendMessages, Commit, TurnAt, TurnOK
<1>4. ASSUME NEW new \in TurnRecord, turns' = [turns EXCEPT ![t] = new],
             new.conversation = q.conversation, new.tenant = q.tenant, new.at # "sent",
             \/ new.stamp = q.stamp /\ clock' = clock /\ q.stamp > 0
             \/ new.stamp = clock + 1 /\ clock' = clock + 1,
             new.saved => new.at = "closed",
             \A i \in DOMAIN new.history :
               /\ new.history[i] \in DOMAIN turns
               /\ turns[new.history[i]].saved
               /\ turns[new.history[i]].conversation = new.conversation,
             InTime(new.history, turns, new.stamp)
      PROVE  ServerInv'
  <2>1. new.stamp \in Nat /\ new.stamp > 0 /\ new.stamp <= clock'
        /\ clock' \in Nat /\ clock <= clock'
    BY <1>1, <1>4
  <2>2. TurnOK(new, conversations', turns, clock')
    BY <1>1, <1>2, <1>3, <1>4, <2>1 DEF TurnOK
  <2>3. \A u \in DOMAIN turns : u # t /\ turns[u].stamp = new.stamp => new.stamp = 0
    BY <1>1, <1>4, TimeStays
  <2>4. \A c \in DOMAIN conversations :
          c \in DOMAIN conversations' /\ conversations'[c].tenant = conversations[c].tenant
    BY <1>2
  <2> HIDE DEF q
  <2> QED  BY <1>2, <1>3, <1>4, <2>1, <2>2, <2>3, <2>4, TurnMoves DEF q
<1>5. \A i \in DOMAIN q.history :
         /\ q.history[i] \in DOMAIN turns
         /\ turns[q.history[i]].saved /\ turns[q.history[i]].conversation = q.conversation
  BY <1>1 DEF TurnOK
<1>6. q.wire \in Seq(Event) /\ q.history \in Seq(Turn) /\ InTime(q.history, turns, q.stamp)
  BY <1>1 DEF TurnRecord, TurnOK
<1>7. CASE Hit(t)
  <2> DEFINE wire == q.wire \o <<"token", "done">>
             new == [q EXCEPT !.at = "commit", !.stamp = clock + 1, !.wire = wire]
  <2>1. turns' = [turns EXCEPT ![t] = new] /\ clock' = clock + 1
    BY <1>1, <1>7 DEF Hit
  <2>2. wire \in Seq(Event)
    <3>1. <<"token", "done">> \in Seq(Event)
      BY DEF Event
    <3> QED  BY <1>6, <3>1, ConcatProperties
  <2> HIDE DEF wire
  <2>3. /\ new \in TurnRecord /\ new.conversation = q.conversation /\ new.tenant = q.tenant
        /\ new.at = "commit" /\ new.stamp = clock + 1 /\ new.saved = q.saved
        /\ new.history = q.history
    <3>1. q \in TurnRecord /\ "commit" \in Stage /\ clock + 1 \in Nat
      BY <1>1 DEF Stage
    <3> HIDE DEF q
    <3> QED  BY <2>2, <3>1 DEF TurnRecord
  <2>4. InTime(q.history, turns, clock + 1)
    BY <1>1, <1>5, <1>6 DEF InTime
  <2> HIDE DEF new, q
  <2> QED  BY <1>3, <1>4, <1>5, <2>1, <2>3, <2>4
<1>8. CASE LoadHistory(t)
  <2> DEFINE history == Ordered(q.conversation)
             new == [q EXCEPT !.at = "stream", !.stamp = clock + 1, !.history = history]
  <2>1. turns' = [turns EXCEPT ![t] = new] /\ clock' = clock + 1
    BY <1>1, <1>8 DEF LoadHistory
  <2>2. /\ history \in Seq(Turn) /\ history \in Seq(TurnsOf(q.conversation))
        /\ \A i, j \in DOMAIN history :
             i < j => turns[history[i]].stamp < turns[history[j]].stamp
    BY OrderedTypes, OrderedTimes
  <2> HIDE DEF history
  <2>3. \A i \in DOMAIN history : history[i] \in TurnsOf(q.conversation)
    BY <2>2
  <2>4. /\ new \in TurnRecord /\ new.conversation = q.conversation /\ new.tenant = q.tenant
        /\ new.at = "stream" /\ new.stamp = clock + 1 /\ new.saved = q.saved
        /\ new.history = history
    <3>1. q \in TurnRecord /\ "stream" \in Stage /\ clock + 1 \in Nat
      BY <1>1 DEF Stage
    <3> HIDE DEF q
    <3> QED  BY <2>2, <3>1 DEF TurnRecord
  <2> HIDE DEF new, q
  <2>5. \A i \in DOMAIN new.history :
          /\ new.history[i] \in DOMAIN turns
          /\ turns[new.history[i]].saved
          /\ turns[new.history[i]].conversation = new.conversation
    BY <2>3, <2>4 DEF TurnsOf
  <2>6. InTime(history, turns, clock + 1)
    <3>1. ASSUME NEW i \in DOMAIN history  PROVE turns[history[i]].stamp < clock + 1
      BY <1>1, <2>3 DEF TurnsOf
    <3> QED  BY <2>2, <3>1 DEF InTime
  <2> QED  BY <1>3, <1>4, <2>1, <2>4, <2>5, <2>6
<1>9. CASE Stream(t) \/ AppendMessages(t) \/ Commit(t)
  <2>1. q.stamp > 0 /\ clock' = clock
    BY <1>1, <1>9 DEF Stream, AppendMessages, Commit, TurnAt, TurnOK
  <2>2. CASE Stream(t) \/ AppendMessages(t)
    <3>1. PICK stage \in {"append", "commit"}, event \in Event :
            turns' = [turns EXCEPT ![t] = [q EXCEPT !.at = stage, !.wire = Append(q.wire, event)]]
      BY <1>1, <2>2 DEF Stream, AppendMessages, Event
    <3> DEFINE wire == Append(q.wire, event)
               new == [q EXCEPT !.at = stage, !.wire = wire]
    <3>2. turns' = [turns EXCEPT ![t] = new]
      BY <3>1
    <3>3. q \in TurnRecord /\ stage \in Stage /\ wire \in Seq(Event) /\ stage # "sent"
      BY <1>1, <1>6 DEF Stage
    <3> HIDE DEF q, wire
    <3>4. /\ new \in TurnRecord /\ new.conversation = q.conversation /\ new.tenant = q.tenant
          /\ new.at = stage /\ new.stamp = q.stamp /\ new.saved = q.saved
          /\ new.history = q.history
      BY <3>3 DEF TurnRecord
    <3> HIDE DEF new
    <3> QED  BY <1>3, <1>4, <1>5, <1>6, <2>1, <3>2, <3>3, <3>4
  <2>3. CASE Commit(t)
    <3> DEFINE new == [q EXCEPT !.at = "closed", !.saved = TRUE]
    <3>1. turns' = [turns EXCEPT ![t] = new]
      BY <1>1, <2>3 DEF Commit
    <3>2. q \in TurnRecord /\ "closed" \in Stage
      BY <1>1 DEF Stage
    <3> HIDE DEF q
    <3>3. /\ new \in TurnRecord /\ new.conversation = q.conversation /\ new.tenant = q.tenant
          /\ new.at = "closed" /\ new.stamp = q.stamp /\ new.history = q.history
      BY <3>2 DEF TurnRecord
    <3> HIDE DEF new
    <3> QED  BY <1>4, <1>5, <1>6, <2>1, <3>1, <3>3
  <2> QED  BY <1>9, <2>2, <2>3
<1> QED
  BY <1>7, <1>8, <1>9

\* What was not committed is rolled back.
LEMMA FailOK ==
    ASSUME ServerInv, NEW t \in DOMAIN turns, Fail(t), UNCHANGED tabs
    PROVE  ServerInv'
<1> DEFINE q == turns[t]
           wire == Append(q.wire, "error")
           new == [q EXCEPT !.at = "closed", !.wire = wire]
<1>1. /\ q \in TurnRecord /\ TurnOK(q, conversations, turns, clock)
      /\ turns \in Seq(TurnRecord) /\ conversations \in Seq(Row) /\ clock \in Nat
      /\ budget \in Budget /\ tabs \in [Tabs -> Tab]
  BY TurnFacts
<1>2. turns' = [turns EXCEPT ![t] = new]
  BY <1>1 DEF Fail
<1>3. budget' \in Budget
  BY <1>1, SpendTypes DEF Fail
<1>4. UNCHANGED <<conversations, clock, tabs>> /\ q.at # "closed"
  BY DEF Fail
<1>5. wire \in Seq(Event)
  <2>1. q.wire \in Seq(Event)
    BY <1>1 DEF TurnRecord
  <2> HIDE DEF q
  <2> QED  BY <2>1 DEF Event
<1>6. /\ new \in TurnRecord /\ new.conversation = q.conversation /\ new.tenant = q.tenant
      /\ new.at = "closed" /\ new.stamp = q.stamp /\ new.saved = q.saved
      /\ new.history = q.history
  <2>1. q \in TurnRecord /\ "closed" \in Stage
    BY <1>1 DEF Stage
  <2> HIDE DEF q, wire
  <2> QED  BY <1>5, <2>1 DEF TurnRecord
<1> HIDE DEF new
<1>7. ~q.saved
  BY <1>1, <1>4 DEF TurnOK
<1>8. TurnOK(new, conversations', turns, clock')
  BY <1>1, <1>4, <1>6, <1>7 DEF TurnOK
<1>9. \A u \in DOMAIN turns : u # t /\ turns[u].stamp = new.stamp => new.stamp = 0
  BY <1>6, TimeStays
<1>10. /\ conversations' \in Seq(Row) /\ clock' \in Nat /\ clock <= clock'
       /\ tabs' \in [Tabs -> Tab]
       /\ \A c \in DOMAIN conversations :
            c \in DOMAIN conversations' /\ conversations'[c].tenant = conversations[c].tenant
  BY <1>1, <1>4
<1> HIDE DEF q
<1> QED  BY <1>2, <1>3, <1>6, <1>7, <1>8, <1>9, <1>10, TurnMoves DEF q

-----------------------------------------------------------------------------
(* The pages                                                                 *)

LEMMA TabTypes ==
    ASSUME tabs \in [Tabs -> Tab], NEW b \in Tabs
    PROVE  /\ tabs[b] \in Tab /\ tabs[b].tenant \in Tenants
           /\ tabs[b].conversation \in ConversationId \union {NoConversation}
           /\ tabs[b].messages \in Seq(Bubble) /\ tabs[b].isStreaming \in BOOLEAN
           /\ tabs[b].streamingText \in Seq(Turn) /\ tabs[b].opening \in Seq(Opening)
<1>1. tabs[b] \in Tab
  OBVIOUS
<1> QED  BY <1>1 DEF Tab

\* What the next event does to the page.
LEMMA DeliverTypes ==
    ASSUME ServerInv, NEW t \in DOMAIN turns, Deliver(t)
    PROVE  tabs' \in [Tabs -> Tab]
<1> DEFINE q == turns[t]
           b == q.tab
           page == tabs[b]
<1>1. /\ q \in TurnRecord /\ q.tab \in Tabs /\ tabs \in [Tabs -> Tab] /\ q.wire \in Seq(Event)
      /\ q.conversation \in ConversationId \union {NoConversation}
  BY TurnFacts DEF TurnRecord
<1>2. t \in Turn
  BY TurnFacts DEF Turn
<1>3. page \in Tab
  BY <1>1
<1>4. page.messages \in Seq(Bubble) /\ page.streamingText \in Seq(Turn)
  BY <1>1, TabTypes
<1>5. tabs' \in {tabs, OnConversation(t), OnToken(t), FinishStreaming(b)}
  <2>1. Head(q.wire) \in Event
    BY <1>1 DEF Deliver
  <2> QED  BY <2>1 DEF Deliver, OnError, Event
<1>6. OnConversation(t) \in [Tabs -> Tab]
  <2> DEFINE new == [page EXCEPT !.conversation = q.conversation]
  <2>1. OnConversation(t) = tabs \/ OnConversation(t) = [tabs EXCEPT ![b] = new]
    BY <1>1 DEF OnConversation
  <2>2. new \in Tab
    <3> HIDE DEF page, q
    <3> QED  BY <1>1, <1>3 DEF Tab
  <2> HIDE DEF new, b
  <2> QED  BY <1>1, <2>1, <2>2
<1>7. OnToken(t) \in [Tabs -> Tab]
  <2> DEFINE text == Append(page.streamingText, t)
             new == [page EXCEPT !.streamingText = text]
  <2>1. OnToken(t) = [tabs EXCEPT ![b] = new]
    BY <1>1 DEF OnToken
  <2>2. text \in Seq(Turn)
    BY <1>2, <1>4
  <2>3. new \in Tab
    <3> HIDE DEF page, text
    <3> QED  BY <1>3, <2>2 DEF Tab
  <2> HIDE DEF new, b
  <2> QED  BY <1>1, <2>1, <2>3
<1>8. FinishStreaming(b) \in [Tabs -> Tab]
  <2> DEFINE shown == Append(page.messages, Answer(page.streamingText))
             new == [page EXCEPT !.messages = shown, !.isStreaming = FALSE,
                                 !.streamingText = <<>>]
  <2>1. FinishStreaming(b) = [tabs EXCEPT ![b] = new]
    BY <1>1 DEF FinishStreaming
  <2>2. shown \in Seq(Bubble)
    <3>1. Answer(page.streamingText) \in Bubble
      BY <1>4 DEF Answer, Bubble
    <3> HIDE DEF page
    <3> QED  BY <1>4, <3>1
  <2>3. new \in Tab
    <3>1. <<>> \in Seq(Turn)
      OBVIOUS
    <3> HIDE DEF page, shown
    <3> QED  BY <1>3, <2>2, <3>1 DEF Tab
  <2> HIDE DEF new, b
  <2> QED  BY <1>1, <2>1, <2>3
<1> HIDE DEF q, b, page
<1> QED  BY <1>1, <1>5, <1>6, <1>7, <1>8

LEMMA DeliverOK ==
    ASSUME ServerInv, NEW t \in DOMAIN turns, Deliver(t)
    PROVE  ServerInv'
<1> DEFINE q == turns[t]
           wire == Tail(q.wire)
           new == [q EXCEPT !.wire = wire]
<1>1. /\ q \in TurnRecord /\ TurnOK(q, conversations, turns, clock)
      /\ conversations \in Seq(Row) /\ clock \in Nat /\ budget \in Budget
  BY TurnFacts
<1>2. /\ turns' = [turns EXCEPT ![t] = new] /\ UNCHANGED <<conversations, clock, budget>>
      /\ q.wire # <<>>
  BY <1>1 DEF Deliver
<1>3. wire \in Seq(Event)
  <2>1. q.wire \in Seq(Event)
    BY <1>1 DEF TurnRecord
  <2> HIDE DEF q
  <2> QED  BY <1>2, <2>1
<1>4. /\ new \in TurnRecord /\ new.conversation = q.conversation /\ new.tenant = q.tenant
      /\ new.at = q.at /\ new.stamp = q.stamp /\ new.saved = q.saved
      /\ new.history = q.history
  <2> HIDE DEF q, wire
  <2> QED  BY <1>1, <1>3 DEF TurnRecord
<1> HIDE DEF new
<1>5. TurnOK(new, conversations', turns, clock')
  BY <1>1, <1>2, <1>4 DEF TurnOK
<1>6. \A u \in DOMAIN turns : u # t /\ turns[u].stamp = new.stamp => new.stamp = 0
  BY <1>4, TimeStays
<1>7. /\ conversations' \in Seq(Row) /\ clock' \in Nat /\ clock <= clock' /\ budget' \in Budget
      /\ \A c \in DOMAIN conversations :
           c \in DOMAIN conversations' /\ conversations'[c].tenant = conversations[c].tenant
  BY <1>1, <1>2
<1>8. tabs' \in [Tabs -> Tab]
  BY DeliverTypes
<1> HIDE DEF q
<1> QED  BY ZenonT(60), <1>2, <1>4, <1>5, <1>6, <1>7, <1>8, TurnMoves DEF q

LEMMA ActsTypes ==
    ASSUME budget \in Budget, NEW b, NEW kind \in {"turns", "opens", "switches"}, Acts(b, kind)
    PROVE  /\ budget' \in Budget
           /\ budget'.happened = budget.happened
                \union (IF kind = "switches" THEN {kind} ELSE {})
                \union (IF Busy(b) THEN {"haste"} ELSE {})
<1> DEFINE kinds == {kind} \union IF Busy(b) THEN {"haste"} ELSE {}
<1>1. kinds \in SUBSET {"turns", "opens", "renames", "errors", "haste", "switches"}
  OBVIOUS
<1>2. Spend(kinds)
  BY DEF Acts
<1>3. kinds \intersect Trouble = (IF kind = "switches" THEN {kind} ELSE {})
                                   \union (IF Busy(b) THEN {"haste"} ELSE {})
  BY DEF Trouble
<1> HIDE DEF kinds
<1> QED  BY <1>1, <1>2, <1>3, SpendTypes

\* A step of the pages alone.
LEMMA PageMoves ==
    ASSUME ServerInv, UNCHANGED <<conversations, turns, clock>>,
           budget' \in Budget, tabs' \in [Tabs -> Tab]
    PROVE  ServerInv'
  BY DEF ServerInv, TypeOK, ServerTypeOK, OwnTimes, TurnOK

LEMMA PagesOK ==
    ASSUME ServerInv, NEW b \in Tabs,
           \/ StartNew(b)
           \/ \E c \in DOMAIN conversations : Open(b, c)
           \/ \E i \in DOMAIN tabs[b].opening : Fetch(b, i) \/ Load(b, i) \/ LoadFails(b, i)
           \/ \E tenant \in Tenants : SetApiKey(b, tenant)
    PROVE  ServerInv'
<1> DEFINE page == tabs[b]
<1>1. /\ tabs \in [Tabs -> Tab] /\ budget \in Budget /\ page \in Tab
      /\ page.opening \in Seq(Opening)
  BY TabTypes DEF ServerInv, TypeOK, ServerTypeOK
<1>2. UNCHANGED <<conversations, turns, clock>>
  BY DEF StartNew, Open, Fetch, Load, LoadFails, SetApiKey, serverVars
<1>3. budget' \in Budget
  <2>1. CASE \E i \in DOMAIN tabs[b].opening : Fetch(b, i) \/ Load(b, i)
    BY <1>1, <2>1 DEF Fetch, Load, serverVars
  <2>2. CASE \E i \in DOMAIN tabs[b].opening : LoadFails(b, i)
    BY <1>1, <2>2, SpendTypes DEF LoadFails
  <2>3. CASE StartNew(b)
    BY <1>1, <2>3, ActsTypes DEF StartNew
  <2>4. CASE \E c \in DOMAIN conversations : Open(b, c)
    BY <1>1, <2>4, ActsTypes DEF Open
  <2>5. CASE \E tenant \in Tenants : SetApiKey(b, tenant)
    BY <1>1, <2>5, ActsTypes DEF SetApiKey
  <2> QED  BY <2>1, <2>2, <2>3, <2>4, <2>5
<1>4. \E new \in Tab : tabs' = [tabs EXCEPT ![b] = new]
  <2>1. CASE StartNew(b)
    <3> DEFINE new == [page EXCEPT !.conversation = NoConversation, !.messages = <<>>,
                                   !.streamingText = <<>>]
    <3>1. tabs' = [tabs EXCEPT ![b] = new]
      BY <1>1, <2>1 DEF StartNew
    <3>2. <<>> \in Seq(Turn) /\ <<>> \in Seq(Bubble)
      OBVIOUS
    <3>3. new \in Tab
      <4> HIDE DEF page
      <4> QED  BY <1>1, <3>2 DEF Tab
    <3> QED  BY <3>1, <3>3
  <2>2. ASSUME NEW c \in DOMAIN conversations, Open(b, c)
        PROVE  \E new \in Tab : tabs' = [tabs EXCEPT ![b] = new]
    <3> DEFINE row == [conversation |-> c, answered |-> FALSE, bubbles |-> <<>>]
               opening == Append(page.opening, row)
               new == [page EXCEPT !.conversation = c, !.opening = opening]
    <3>1. tabs' = [tabs EXCEPT ![b] = new]
      BY <1>1, <2>2 DEF Open
    <3>2. c \in ConversationId /\ <<>> \in Seq(Bubble)
      BY DEF ServerInv, TypeOK, ServerTypeOK, ConversationId
    <3>3. opening \in Seq(Opening)
      <4>1. row \in Opening
        BY <3>2 DEF Opening
      <4> HIDE DEF row, page
      <4> QED  BY <1>1, <4>1
    <3>4. new \in Tab
      <4> HIDE DEF page, opening
      <4> QED  BY <1>1, <3>2, <3>3 DEF Tab
    <3> QED  BY <3>1, <3>4
  <2>3. ASSUME NEW i \in DOMAIN page.opening, Fetch(b, i)
        PROVE  \E new \in Tab : tabs' = [tabs EXCEPT ![b] = new]
    <3> DEFINE bubbles == Bubbles(Ordered(page.opening[i].conversation))
               row == [page.opening[i] EXCEPT !.answered = TRUE, !.bubbles = bubbles]
               opening == [page.opening EXCEPT ![i] = row]
               new == [page EXCEPT !.opening = opening]
    <3>1. tabs' = [tabs EXCEPT ![b] = new]
      BY <1>1, <2>3 DEF Fetch
    <3>2. bubbles \in Seq(Bubble)
      BY OrderedTypes, BubblesType
    <3>3. opening \in Seq(Opening)
      <4>1. row \in Opening
        <5>1. page.opening[i] \in Opening
          BY <1>1
        <5> HIDE DEF page, bubbles
        <5> QED  BY <3>2, <5>1 DEF Opening
      <4> HIDE DEF row, page
      <4> QED  BY <1>1, <4>1
    <3>4. new \in Tab
      <4> HIDE DEF page, opening
      <4> QED  BY <1>1, <3>3 DEF Tab
    <3> QED  BY <3>1, <3>4
  <2>4. ASSUME NEW i \in DOMAIN page.opening, Load(b, i) \/ LoadFails(b, i)
        PROVE  \E new \in Tab : tabs' = [tabs EXCEPT ![b] = new]
    <3> DEFINE opening == RemoveAt(page.opening, i)
               new(shown) == [page EXCEPT !.messages = shown, !.opening = opening]
    <3>1. /\ tabs' = [tabs EXCEPT ![b] = new(page.opening[i].bubbles)]
          \/ tabs' = [tabs EXCEPT ![b] = new(page.messages)]
      <4>1. page = [page EXCEPT !.messages = page.messages]
        BY <1>1 DEF Tab
      <4> QED  BY <1>1, <2>4, <4>1 DEF Load, LoadFails, Tab
    <3>2. page.opening[i].bubbles \in Seq(Bubble) /\ page.messages \in Seq(Bubble)
      <4>1. page.opening[i] \in Opening
        BY <1>1
      <4> QED  BY <1>1, <4>1, TabTypes DEF Opening
    <3>3. opening \in Seq(Opening)
      <4> DEFINE old == page.opening
      <4>1. old \in Seq(Opening) /\ i \in 1 .. Len(old)
        BY <1>1
      <4> HIDE DEF old, page
      <4>2. /\ SubSeq(old, 1, i - 1) \in Seq(Opening)
            /\ SubSeq(old, i + 1, Len(old)) \in Seq(Opening)
        BY <4>1
      <4>3. RemoveAt(old, i) \in Seq(Opening)
        BY <4>2, ConcatProperties DEF RemoveAt
      <4> QED  BY <4>3 DEF old
    <3>4. \A shown \in Seq(Bubble) : new(shown) \in Tab
      <4> HIDE DEF page, opening
      <4> QED  BY <1>1, <3>3 DEF Tab
    <3> HIDE DEF new
    <3> QED  BY <3>1, <3>2, <3>4
  <2>5. ASSUME NEW tenant \in Tenants, SetApiKey(b, tenant)
        PROVE  \E new \in Tab : tabs' = [tabs EXCEPT ![b] = new]
    <3> DEFINE new == [page EXCEPT !.tenant = tenant]
    <3>1. tabs' = [tabs EXCEPT ![b] = new]
      BY <1>1, <2>5 DEF SetApiKey
    <3>2. new \in Tab
      <4> HIDE DEF page
      <4> QED  BY <1>1 DEF Tab
    <3> QED  BY <3>1, <3>2
  <2> QED  BY <2>1, <2>2, <2>3, <2>4, <2>5
<1>5. tabs' \in [Tabs -> Tab]
  BY <1>1, <1>4
<1> QED  BY <1>2, <1>3, <1>5, PageMoves

LEMMA SendOK ==
    ASSUME ServerInv, NEW b \in Tabs, Send(b)
    PROVE  ServerInv'
<1> DEFINE page == tabs[b]
           q == Sent(b, page.tenant, page.conversation)
           n == Len(turns) + 1
<1>1. /\ tabs \in [Tabs -> Tab] /\ budget \in Budget /\ page \in Tab
      /\ page.tenant \in Tenants /\ page.conversation \in ConversationId \union {NoConversation}
      /\ page.messages \in Seq(Bubble)
      /\ turns \in Seq(TurnRecord) /\ conversations \in Seq(Row) /\ clock \in Nat
      /\ \A t \in DOMAIN turns : TurnOK(turns[t], conversations, turns, clock)
      /\ OwnTimes
  BY TabTypes DEF ServerInv, TypeOK, ServerTypeOK
<1>2. turns' = Append(turns, q) /\ UNCHANGED <<conversations, clock>>
  BY DEF Send
<1>3. q \in TurnRecord
  <2>1. /\ <<>> \in Seq(Turn) /\ <<>> \in Seq(Event) /\ "sent" \in Stage
    BY DEF Stage
  <2> HIDE DEF page
  <2> QED  BY <1>1, <2>1 DEF Sent, TurnRecord
<1>4. /\ q.at = "sent" /\ q.conversation = NoConversation /\ q.stamp = 0 /\ q.history = <<>>
      /\ q.wire = <<>> /\ ~q.saved
  BY DEF Sent
<1> HIDE DEF q
<1>5. /\ turns' \in Seq(TurnRecord) /\ DOMAIN turns' = DOMAIN turns \union {n}
      /\ turns'[n] = q /\ n \notin DOMAIN turns /\ \A t \in DOMAIN turns : turns'[t] = turns[t]
  BY <1>1, <1>2, <1>3
<1>6. ASSUME NEW t \in DOMAIN turns'  PROVE TurnOK(turns'[t], conversations', turns', clock')
  <2>1. CASE t = n
    <3>1. TurnOK(q, conversations', turns', clock')
      BY <1>1, <1>2, <1>4, NothingTold DEF TurnOK
    <3> QED  BY <1>5, <2>1, <3>1
  <2>2. CASE t # n
    <3>1. t \in DOMAIN turns
      BY <1>5, <2>2
    <3>2. turns[t].stamp \in Nat
      BY <1>1, <3>1, TurnTypes
    <3>3. \A u \in DOMAIN turns : turns[u].saved =>
            /\ u \in DOMAIN turns' /\ turns'[u].saved /\ turns'[u].stamp = turns[u].stamp
            /\ turns'[u].conversation = turns[u].conversation
      BY <1>5
    <3>4. \A c \in DOMAIN conversations :
            c \in DOMAIN conversations' /\ conversations'[c].tenant = conversations[c].tenant
      BY <1>2
    <3>5. clock \in Nat /\ clock' \in Nat /\ clock <= clock'
      BY <1>1, <1>2
    <3>6. TurnOK(turns[t], conversations, turns, clock)
      BY <1>1, <3>1
    <3>7. TurnOK(turns[t], conversations', turns', clock')
      BY <3>2, <3>3, <3>4, <3>5, <3>6, TurnStaysOK
    <3> QED  BY <1>5, <3>1, <3>7
  <2> QED  BY <2>1, <2>2
<1>7. OwnTimes'
  <2> SUFFICES ASSUME NEW t \in DOMAIN turns', NEW u \in DOMAIN turns',
                      turns'[t].stamp = turns'[u].stamp, turns'[t].stamp # 0
               PROVE  t = u
    BY DEF OwnTimes
  <2>1. t \in DOMAIN turns /\ u \in DOMAIN turns
    BY <1>4, <1>5
  <2> QED  BY <1>1, <1>5, <2>1 DEF OwnTimes
<1>8. budget' \in Budget
  BY <1>1, ActsTypes DEF Send
<1>9. tabs' \in [Tabs -> Tab]
  <2> DEFINE shown == Append(page.messages, Question(n))
             new == [page EXCEPT !.messages = shown, !.isStreaming = TRUE,
                                 !.streamingText = <<>>]
  <2>1. tabs' = [tabs EXCEPT ![b] = new]
    BY <1>1 DEF Send
  <2>2. shown \in Seq(Bubble) /\ <<>> \in Seq(Turn)
    <3>1. Question(n) \in Bubble
      BY <1>1 DEF Question, Bubble, Turn
    <3> HIDE DEF page
    <3> QED  BY <1>1, <3>1
  <2>3. new \in Tab
    <3> HIDE DEF page, shown
    <3> QED  BY <1>1, <2>2 DEF Tab
  <2> HIDE DEF new, page
  <2> QED  BY <1>1, <2>1, <2>3
<1>10. ServerTypeOK'
  BY <1>1, <1>2, <1>5, <1>6, <1>8 DEF ServerTypeOK, TurnOK
<1> QED
  BY <1>6, <1>7, <1>9, <1>10 DEF ServerInv, TypeOK

LEMMA ReloadOK ==
    ASSUME ServerInv, NEW b \in Tabs, Reload(b)
    PROVE  ServerInv'
<1>1. /\ tabs \in [Tabs -> Tab] /\ budget \in Budget /\ tabs[b].tenant \in Tenants
      /\ turns \in Seq(TurnRecord) /\ conversations \in Seq(Row) /\ clock \in Nat
      /\ \A t \in DOMAIN turns : TurnOK(turns[t], conversations, turns, clock)
      /\ OwnTimes
  BY TabTypes DEF ServerInv, TypeOK, ServerTypeOK
<1>2. /\ UNCHANGED <<conversations, clock>>
      /\ tabs' = [tabs EXCEPT ![b] = NewPage(tabs[b].tenant)]
      /\ turns' = [t \in DOMAIN turns |->
                     IF turns[t].tab = b THEN [turns[t] EXCEPT !.listening = FALSE]
                     ELSE turns[t]]
  BY DEF Reload
<1>3. ASSUME NEW t \in DOMAIN turns
      PROVE  /\ turns'[t] \in TurnRecord /\ turns'[t].at = turns[t].at
             /\ turns'[t].conversation = turns[t].conversation
             /\ turns'[t].tenant = turns[t].tenant /\ turns'[t].stamp = turns[t].stamp
             /\ turns'[t].history = turns[t].history /\ turns'[t].saved = turns[t].saved
             /\ turns'[t].wire = turns[t].wire
  <2> DEFINE q == turns[t]
  <2>1. q \in TurnRecord
    BY <1>1
  <2>2. turns'[t] = [q EXCEPT !.listening = FALSE] \/ turns'[t] = q
    BY <1>2
  <2> HIDE DEF q
  <2>3. /\ turns'[t] \in TurnRecord /\ turns'[t].at = q.at
        /\ turns'[t].conversation = q.conversation
        /\ turns'[t].tenant = q.tenant /\ turns'[t].stamp = q.stamp
        /\ turns'[t].history = q.history /\ turns'[t].saved = q.saved
        /\ turns'[t].wire = q.wire
    BY <2>1, <2>2 DEF TurnRecord
  <2> QED  BY <2>3 DEF q
<1>4. DOMAIN turns' = DOMAIN turns /\ turns' \in Seq(TurnRecord)
  <2>1. DOMAIN turns' = DOMAIN turns
    BY <1>2
  <2> DEFINE n == Len(turns)
  <2>2. n \in Nat /\ DOMAIN turns = 1 .. n
    BY <1>1
  <2>3. turns' \in [1 .. n -> TurnRecord]
    <3> DEFINE D == DOMAIN turns
               rows(t) == IF turns[t].tab = b THEN [turns[t] EXCEPT !.listening = FALSE]
                          ELSE turns[t]
    <3>1. turns' = [t \in D |-> rows(t)]
      BY <1>2
    <3> HIDE DEF D, rows
    <3>2. turns' \in [D -> TurnRecord]
      BY <1>3, <3>1 DEF D
    <3> QED  BY <2>2, <3>2 DEF D
  <2> HIDE DEF n
  <2> QED  BY <2>1, <2>2, <2>3
<1>5. ASSUME NEW t \in DOMAIN turns  PROVE TurnOK(turns'[t], conversations', turns', clock')
  <2>1. TurnOK(turns[t], conversations, turns, clock)
    BY <1>1
  <2> HIDE DEF Reload
  <2>2. \A u \in DOMAIN turns : /\ turns'[u].saved = turns[u].saved
                                /\ turns'[u].stamp = turns[u].stamp
                                /\ turns'[u].conversation = turns[u].conversation
    BY <1>3
  <2>3. \A i \in DOMAIN turns[t].history :
          turns'[turns[t].history[i]].stamp = turns[turns[t].history[i]].stamp
    BY <2>1, <2>2 DEF TurnOK
  <2>4. InTime(turns'[t].history, turns', turns'[t].stamp)
    BY <1>3, <2>1, <2>3 DEF TurnOK, InTime
  <2> QED  BY <1>2, <1>3, <1>4, <2>1, <2>2, <2>4 DEF TurnOK
<1>6. OwnTimes'
  BY <1>1, <1>3, <1>4 DEF OwnTimes
<1>7. budget' \in Budget
  BY <1>1, ActsTypes DEF Reload
<1>8. tabs' \in [Tabs -> Tab]
  <2>1. NewPage(tabs[b].tenant) \in Tab
    <3>1. <<>> \in Seq(Turn) /\ <<>> \in Seq(Bubble) /\ <<>> \in Seq(Opening)
      OBVIOUS
    <3> QED  BY <1>1, <3>1 DEF NewPage, Tab
  <2> QED  BY <1>1, <1>2, <2>1
<1>9. ServerTypeOK'
  BY <1>1, <1>2, <1>4, <1>5, <1>7 DEF ServerTypeOK, TurnOK
<1> QED
  BY <1>4, <1>5, <1>6, <1>8, <1>9 DEF ServerInv, TypeOK

\* A title is all a user can change of a conversation.
LEMMA RenameRows ==
    ASSUME ServerInv, NEW c \in DOMAIN conversations, NEW titled \in BOOLEAN, Rename(c, titled)
    PROVE  /\ conversations' \in Seq(Row) /\ DOMAIN conversations' = DOMAIN conversations
           /\ \A d \in DOMAIN conversations :
                /\ conversations'[d].tenant = conversations[d].tenant
                /\ conversations'[d].updated = conversations[d].updated
           /\ UNCHANGED <<turns, clock>> /\ budget' \in Budget
           /\ budget'.happened = budget.happened
<1> DEFINE row == conversations[c]
           new == [row EXCEPT !.titled = titled]
<1>1. conversations \in Seq(Row) /\ row \in Row /\ budget \in Budget
  BY DEF ServerInv, TypeOK, ServerTypeOK
<1>2. conversations' = [conversations EXCEPT ![c] = new]
  BY <1>1 DEF Rename
<1>3. new \in Row /\ new.tenant = row.tenant /\ new.updated = row.updated
  <2> HIDE DEF row
  <2> QED  BY <1>1 DEF Row
<1> HIDE DEF new
<1>4. /\ budget' \in Budget /\ budget'.happened = budget.happened
  <2>1. Spend({"renames"}) /\ {"renames"} \intersect Trouble = {}
    BY DEF Rename, Trouble
  <2> QED  BY <1>1, <2>1, SpendTypes
<1> QED
  BY <1>1, <1>2, <1>3, <1>4 DEF Rename, row

LEMMA RenameOK ==
    ASSUME ServerInv, NEW c \in DOMAIN conversations, NEW titled \in BOOLEAN,
           Rename(c, titled), UNCHANGED tabs
    PROVE  ServerInv'
<1>1. /\ conversations' \in Seq(Row) /\ DOMAIN conversations' = DOMAIN conversations
      /\ \A d \in DOMAIN conversations : conversations'[d].tenant = conversations[d].tenant
      /\ UNCHANGED <<turns, clock, tabs>> /\ budget' \in Budget
  BY RenameRows
<1> QED
  BY <1>1 DEF ServerInv, TypeOK, ServerTypeOK, OwnTimes, TurnOK

LEMMA ServerInvInit ==
    ASSUME Init
    PROVE  ServerInv
<1>1. conversations = <<>> /\ turns = <<>> /\ clock = 0 /\ budget \in Budget
  BY ConversationsAssumption DEF Init, ServerInit
<1>2. tabs \in [Tabs -> Tab]
  <2>1. ASSUME NEW tenant \in Tenants  PROVE NewPage(tenant) \in Tab
    <3>1. <<>> \in Seq(Turn) /\ <<>> \in Seq(Bubble) /\ <<>> \in Seq(Opening)
      OBVIOUS
    <3> QED  BY <3>1 DEF NewPage, Tab
  <2>2. {NewPage(tenant) : tenant \in Tenants} \subseteq Tab
    BY <2>1
  <2> QED  BY <2>2 DEF Init
<1> QED
  BY <1>1, <1>2 DEF ServerInv, TypeOK, ServerTypeOK, OwnTimes

LEMMA ServerInvStep ==
    ASSUME ServerInv, [Next]_vars
    PROVE  ServerInv'
<1>1. CASE UNCHANGED vars
  BY <1>1 DEF vars, serverVars, ServerInv, TypeOK, ServerTypeOK, OwnTimes, TurnOK
<1>2. ASSUME NEW t \in DOMAIN turns, Answering(t) \/ Fail(t), UNCHANGED tabs
      PROVE  ServerInv'
  BY <1>2, PostOK, AnswerOK, FailOK DEF Answering
<1>3. ASSUME NEW t \in DOMAIN turns, Deliver(t)
      PROVE  ServerInv'
  BY <1>3, DeliverOK
<1>4. ASSUME NEW b \in Tabs, Send(b) \/ Reload(b)
      PROVE  ServerInv'
  BY <1>4, SendOK, ReloadOK
<1>5. ASSUME NEW b \in Tabs,
             \/ StartNew(b)
             \/ \E c \in DOMAIN conversations : Open(b, c)
             \/ \E i \in DOMAIN tabs[b].opening : Fetch(b, i) \/ Load(b, i) \/ LoadFails(b, i)
             \/ \E tenant \in Tenants : SetApiKey(b, tenant)
      PROVE  ServerInv'
  BY <1>5, PagesOK
<1>6. ASSUME NEW b \in Tabs, NEW c \in Listed(tabs[b].tenant), NEW titled \in BOOLEAN,
             Rename(c, titled), UNCHANGED tabs
      PROVE  ServerInv'
  BY <1>6, RenameOK DEF Listed
<1> QED
  BY <1>1, <1>2, <1>3, <1>4, <1>5, <1>6 DEF Next

\* Every variable keeps its type, and a request that answers has its conversation.
THEOREM ServerInvAlways == Spec => []ServerInv
  BY ServerInvInit, ServerInvStep, PTL DEF Spec

\* The tables, the requests and the pages only ever hold what the code puts there.
THEOREM ChatTypes == Spec => []TypeOK
<1>1. ServerInv => TypeOK
  BY DEF ServerInv
<1> QED  BY <1>1, ServerInvAlways, PTL

\* Whatever id a page sends under whatever key, a turn is answered and saved in
\* a conversation of its own tenant, and the model is told only turns of that
\* conversation (get_or_create_conversation, load_history).
THEOREM TenantsApartHolds == Spec => []TenantsApart
<1>1. ServerInv => TenantsApart
  BY DEF ServerInv, TenantsApart, TurnOK
<1> QED  BY <1>1, ServerInvAlways, PTL

\* What the model is told of a conversation stays in it in that order, and the
\* answer comes after it, whoever chats in it at the same time (load_history,
\* append_message).
THEOREM ToldComesFirstHolds == Spec => []ToldComesFirst
<1>1. ServerInv => ToldComesFirst
  <2> SUFFICES ASSUME ServerInv, NEW t \in DOMAIN turns, NEW c, c = turns[t].conversation,
                      NEW told, told = turns[t].history
               PROVE  /\ \A i, j \in DOMAIN told : i < j => Precedes(c, told[i], told[j])
                      /\ turns[t].saved => \A i \in DOMAIN told : Precedes(c, told[i], t)
    BY DEF ToldComesFirst
  <2>1. /\ \A i \in DOMAIN told : told[i] \in TurnsOf(c)
        /\ InTime(told, turns, turns[t].stamp)
        /\ turns[t].saved => t \in TurnsOf(c)
    BY TurnFacts DEF TurnOK, TurnsOf
  <2>2. ASSUME NEW u \in TurnsOf(c), NEW v \in TurnsOf(c), turns[u].stamp < turns[v].stamp
        PROVE  Precedes(c, u, v)
    <3> PICK order : order = Ordered(c)
      OBVIOUS
    <3>1. PICK j \in DOMAIN order, k \in DOMAIN order : order[j] = u /\ order[k] = v
      BY OrderedTimes
    <3>2. j \in Nat /\ k \in Nat
      BY OrderedTypes
    <3>3. turns[u].stamp \in Nat /\ turns[v].stamp \in Nat
      BY TurnFacts DEF TurnsOf
    <3>4. ~(k < j) /\ k # j
      <4>1. k < j => turns[v].stamp < turns[u].stamp
        BY <3>1, OrderedTimes
      <4> QED  BY <2>2, <3>1, <3>3, <4>1
    <3> QED  BY <3>1, <3>2, <3>4 DEF Precedes
  <2> QED  BY <2>1, <2>2 DEF InTime
<1> QED  BY <1>1, ServerInvAlways, PTL

-----------------------------------------------------------------------------
(* A page and the turn it waits for                                          *)

LEMMA AppendIs ==
    ASSUME NEW S, NEW short \in Seq(S), NEW e \in S, NEW long \in Seq(S),
           Len(long) = Len(short) + 1, long[Len(short) + 1] = e,
           \A i \in 1 .. Len(short) : long[i] = short[i]
    PROVE  Append(short, e) = long
<1> DEFINE more == Append(short, e)
<1>1. /\ more \in Seq(S) /\ Len(more) = Len(long) /\ more[Len(short) + 1] = e
      /\ \A i \in 1 .. Len(short) : more[i] = short[i]
  BY AppendProperties
<1> HIDE DEF more
<1>2. \A i \in 1 .. Len(long) : more[i] = long[i]
  BY <1>1
<1> QED  BY <1>1, <1>2, SeqEqual DEF more

LEMMA ConcatIs ==
    ASSUME NEW S, NEW first \in Seq(S), NEW second \in Seq(S), NEW long \in Seq(S),
           Len(long) = Len(first) + Len(second),
           \A i \in 1 .. Len(long) :
             long[i] = IF i <= Len(first) THEN first[i] ELSE second[i - Len(first)]
    PROVE  first \o second = long
<1> DEFINE both == first \o second
<1>1. /\ both \in Seq(S) /\ Len(both) = Len(long)
      /\ \A i \in 1 .. Len(first) + Len(second) :
           both[i] = IF i <= Len(first) THEN first[i] ELSE second[i - Len(first)]
  BY ConcatProperties
<1> HIDE DEF both
<1>2. \A i \in 1 .. Len(long) : both[i] = long[i]
  BY <1>1
<1> QED  BY <1>1, <1>2, SeqEqual DEF both

LEMMA Tails ==
    ASSUME NEW a, NEW b, NEW c
    PROVE  /\ Head(<<a>>) = a /\ Tail(<<a>>) = <<>>
           /\ Head(<<a, b>>) = a /\ Tail(<<a, b>>) = <<b>>
           /\ Head(<<a, b, c>>) = a /\ Tail(<<a, b, c>>) = <<b, c>>
<1>1. Tail(<<a, b>>) = <<b>>
  OBVIOUS
<1>2. Tail(<<a, b, c>>) = <<b, c>>
  <2> DEFINE all == <<a, b, c>>
             rest == <<b, c>>
  <2>1. /\ all \in Seq({a, b, c}) /\ Len(all) = 3 /\ all[2] = b /\ all[3] = c
        /\ rest \in Seq({a, b, c}) /\ Len(rest) = 2 /\ rest[1] = b /\ rest[2] = c
    OBVIOUS
  <2> HIDE DEF all, rest
  <2>2. /\ Tail(all) \in Seq({a, b, c}) /\ Len(Tail(all)) = 2
        /\ Tail(all)[1] = b /\ Tail(all)[2] = c
    BY <2>1
  <2>3. \A i \in 1 .. Len(rest) : Tail(all)[i] = rest[i]
    BY <2>1, <2>2
  <2>4. Tail(all) = rest
    BY <2>1, <2>2, <2>3, SeqEqual
  <2> QED  BY <2>4 DEF all, rest
<1>3. Tail(<<a>>) = <<>>
  <2> DEFINE all == <<a>>
  <2>1. all \in Seq({a}) /\ Len(all) = 1
    OBVIOUS
  <2> HIDE DEF all
  <2>2. Tail(all) \in Seq({a}) /\ Len(Tail(all)) = 0
    BY SMTT(30), <2>1
  <2>3. Tail(all) = <<>>
    BY <2>2, EmptySeq
  <2> QED  BY <2>3 DEF all
<1> QED
  BY <1>1, <1>2, <1>3

LEMMA AppendSecond ==
    ASSUME NEW a, NEW b
    PROVE  Append(<<>>, a) = <<a>> /\ Append(<<a>>, b) = <<a, b>>
<1> DEFINE one == <<a>>
           two == <<a, b>>
<1>1. /\ one \in Seq({a, b}) /\ Len(one) = 1 /\ one[1] = a /\ b \in {a, b}
      /\ two \in Seq({a, b}) /\ Len(two) = 2 /\ two[1] = a /\ two[2] = b
  OBVIOUS
<1>2. Append(<<>>, a) = one
  OBVIOUS
<1> HIDE DEF one, two
<1>3. Len(two) = Len(one) + 1 /\ two[Len(one) + 1] = b
      /\ \A i \in 1 .. Len(one) : two[i] = one[i]
  BY <1>1
<1>4. Append(one, b) = two
  BY <1>1, <1>3, AppendIs
<1> QED  BY <1>2, <1>4 DEF one, two

LEMMA AppendThird ==
    ASSUME NEW a, NEW b, NEW c
    PROVE  Append(<<a, b>>, c) = <<a, b, c>>
<1> DEFINE two == <<a, b>>
           all == <<a, b, c>>
<1>1. /\ two \in Seq({a, b, c}) /\ Len(two) = 2 /\ two[1] = a /\ two[2] = b
      /\ all \in Seq({a, b, c}) /\ Len(all) = 3 /\ all[1] = a /\ all[2] = b /\ all[3] = c
      /\ c \in {a, b, c}
  OBVIOUS
<1> HIDE DEF two, all
<1>2. Len(all) = Len(two) + 1 /\ all[Len(two) + 1] = c
      /\ \A i \in 1 .. Len(two) : all[i] = two[i]
  BY <1>1
<1>3. Append(two, c) = all
  BY <1>1, <1>2, AppendIs
<1> QED  BY <1>3 DEF two, all

LEMMA OneAndTwo ==
    ASSUME NEW a, NEW b, NEW c
    PROVE  <<a>> \o <<b, c>> = <<a, b, c>>
<1> DEFINE one == <<a>>
           last == <<b, c>>
           all == <<a, b, c>>
<1>1. /\ one \in Seq({a, b, c}) /\ Len(one) = 1 /\ one[1] = a
      /\ last \in Seq({a, b, c}) /\ Len(last) = 2 /\ last[1] = b /\ last[2] = c
      /\ all \in Seq({a, b, c}) /\ Len(all) = 3 /\ all[1] = a /\ all[2] = b /\ all[3] = c
  OBVIOUS
<1> HIDE DEF one, last, all
<1>2. Len(all) = Len(one) + Len(last)
      /\ \A i \in 1 .. Len(all) : all[i] = IF i <= Len(one) THEN one[i] ELSE last[i - Len(one)]
  BY <1>1
<1>3. one \o last = all
  BY <1>1, <1>2, ConcatIs
<1> QED  BY <1>3 DEF one, last, all

LEMMA NoneAndTwo ==
    ASSUME NEW a, NEW b
    PROVE  <<>> \o <<a, b>> = <<a, b>>
<1> DEFINE two == <<a, b>>
<1>1. two \in Seq({a, b})
  OBVIOUS
<1> HIDE DEF two
<1>2. <<>> \o two = two
  BY <1>1, ConcatEmptySeq
<1> QED  BY <1>2 DEF two

LEMMA Wires ==
    ASSUME NEW stage \in Stage, NEW wire \in OnTheWay(stage)
    PROVE  /\ stage = "sent" => wire = <<>>
           /\ stage \in {"lookup", "stream"} => wire \in {<<"conversation">>, <<>>}
           /\ stage = "append" => wire \in {<<"conversation", "token">>, <<"token">>, <<>>}
           /\ stage \in {"commit", "closed"} =>
                wire \in {<<"conversation", "token", "done">>, <<"token", "done">>,
                          <<"done">>, <<>>}
  BY DEF OnTheWay, Stage

\* The first event on the wire, and what is left when it has arrived.
LEMMA WireHeads ==
    /\ \A w \in {<<"conversation">>, <<"conversation", "token">>,
                 <<"conversation", "token", "done">>} :
         w # <<>> /\ w # <<"done">> /\ Head(w) = "conversation"
    /\ \A w \in {<<"token">>, <<"token", "done">>} :
         w # <<>> /\ w # <<"done">> /\ Head(w) = "token"
    /\ <<"done">> # <<>> /\ Head(<<"done">>) = "done"
<1>1. /\ <<"conversation">> # <<>> /\ <<"conversation", "token">> # <<>>
      /\ <<"conversation", "token", "done">> # <<>>
      /\ <<"token">> # <<>> /\ <<"token", "done">> # <<>> /\ <<"done">> # <<>>
  OBVIOUS
<1>2. /\ Head(<<"conversation">>) = "conversation"
      /\ Head(<<"conversation", "token">>) = "conversation"
      /\ Head(<<"conversation", "token", "done">>) = "conversation"
      /\ Head(<<"token">>) = "token" /\ Head(<<"token", "done">>) = "token"
      /\ Head(<<"done">>) = "done"
  BY Tails
<1>3. "done" # "conversation" /\ "done" # "token"
  OBVIOUS
<1> QED
  BY <1>1, <1>2, <1>3

LEMMA WireMoves ==
    /\ Tail(<<"conversation">>) = <<>> /\ Tail(<<"conversation", "token">>) = <<"token">>
    /\ Tail(<<"conversation", "token", "done">>) = <<"token", "done">>
    /\ Tail(<<"token">>) = <<>> /\ Tail(<<"token", "done">>) = <<"done">>
    /\ Tail(<<"done">>) = <<>>
    /\ Append(<<"conversation">>, "token") = <<"conversation", "token">>
    /\ Append(<<>>, "token") = <<"token">>
    /\ Append(<<"conversation", "token">>, "done") = <<"conversation", "token", "done">>
    /\ Append(<<"token">>, "done") = <<"token", "done">> /\ Append(<<>>, "done") = <<"done">>
    /\ <<"conversation">> \o <<"token", "done">> = <<"conversation", "token", "done">>
    /\ <<>> \o <<"token", "done">> = <<"token", "done">>
<1> DEFINE c == "conversation"
           t == "token"
           d == "done"
<1> HIDE DEF c, t, d
<1>1. Tail(<<c>>) = <<>> /\ Tail(<<t>>) = <<>> /\ Tail(<<d>>) = <<>>
  BY Tails
<1>2. Tail(<<c, t>>) = <<t>> /\ Tail(<<t, d>>) = <<d>> /\ Tail(<<c, t, d>>) = <<t, d>>
  BY Tails
<1>3. Append(<<>>, t) = <<t>> /\ Append(<<>>, d) = <<d>>
  BY AppendSecond
<1>4. Append(<<c>>, t) = <<c, t>> /\ Append(<<t>>, d) = <<t, d>>
  BY AppendSecond
<1>5. Append(<<c, t>>, d) = <<c, t, d>>
  BY AppendThird
<1>6. <<c>> \o <<t, d>> = <<c, t, d>>
  BY OneAndTwo
<1>7. <<>> \o <<t, d>> = <<t, d>>
  BY NoneAndTwo
<1> QED
  BY <1>1, <1>2, <1>3, <1>4, <1>5, <1>6, <1>7, Zenon DEF c, t, d

\* The handler goes on.
LEMMA WaitPost ==
    ASSUME NEW page, NEW q, NEW t, NEW earlier, NEW own, Waiting(page, q, t, earlier, own),
           q.at = "sent", NEW new, new.at = "lookup", new.asked = q.asked,
           new.wire = <<"conversation">>
    PROVE  Waiting(page, new, t, earlier, own)
<1>1. ~Adopted(q) /\ ~Finished(q) /\ q.wire = <<>>
  BY Wires DEF Adopted, Finished, Waiting, Stage
<1>2. ~HasToken(q) /\ ~Adopted(new) /\ ~Finished(new) /\ ~HasToken(new)
  BY <1>1, WireHeads DEF Adopted, Finished, HasToken
<1>3. new.wire \in OnTheWay(new.at)
  BY DEF OnTheWay
<1> QED
  BY <1>1, <1>2, <1>3 DEF Waiting

LEMMA WaitHit ==
    ASSUME NEW page, NEW q, NEW t, NEW earlier, NEW own, Waiting(page, q, t, earlier, own),
           q.at = "lookup", NEW new, new.at = "commit", new.asked = q.asked,
           new.conversation = q.conversation,
           q.wire = <<"conversation">> => new.wire = <<"conversation", "token", "done">>,
           q.wire = <<>> => new.wire = <<"token", "done">>
    PROVE  Waiting(page, new, t, earlier, own)
<1>1. q.wire \in {<<"conversation">>, <<>>}
  BY Wires DEF Waiting, Stage
<1>2. /\ q.wire = <<"conversation">> => new.wire = <<"conversation", "token", "done">>
      /\ q.wire = <<>> => new.wire = <<"token", "done">>
  OBVIOUS
<1>5. Adopted(new) <=> Adopted(q)
  BY <1>1, <1>2, WireHeads DEF Adopted
<1>3. ~Finished(q) /\ ~HasToken(q) /\ ~Finished(new) /\ ~HasToken(new)
  BY <1>1, <1>2, WireHeads DEF Finished, HasToken
<1>4. new.wire \in OnTheWay(new.at)
  BY <1>1, <1>2 DEF OnTheWay
<1> QED
  BY <1>3, <1>4, <1>5 DEF Waiting

LEMMA WaitLoad ==
    ASSUME NEW page, NEW q, NEW t, NEW earlier, NEW own, Waiting(page, q, t, earlier, own),
           q.at = "lookup", NEW new, new.at = "stream", new.asked = q.asked,
           new.conversation = q.conversation, new.wire = q.wire, own => new.history = earlier
    PROVE  Waiting(page, new, t, earlier, own)
<1>1. q.wire \in {<<"conversation">>, <<>>}
  BY Wires DEF Waiting, Stage
<1>2. /\ Adopted(new) <=> Adopted(q)
      /\ ~Finished(q) /\ ~HasToken(q) /\ ~Finished(new) /\ ~HasToken(new)
  BY <1>1, WireHeads DEF Adopted, Finished, HasToken
<1>3. new.wire \in OnTheWay(new.at)
  BY <1>1 DEF OnTheWay
<1> QED
  BY <1>2, <1>3 DEF Waiting

LEMMA WaitStream ==
    ASSUME NEW page, NEW q, NEW t, NEW earlier, NEW own, Waiting(page, q, t, earlier, own),
           q.at = "stream", NEW new, new.at = "append", new.asked = q.asked,
           new.conversation = q.conversation, new.wire = Append(q.wire, "token"),
           new.history = q.history
    PROVE  Waiting(page, new, t, earlier, own)
<1>1. q.wire \in {<<"conversation">>, <<>>}
  BY Wires DEF Waiting, Stage
<1>2. new.wire \in {<<"conversation", "token">>, <<"token">>}
      /\ (Adopted(new) <=> Adopted(q))
  BY <1>1, WireHeads, WireMoves DEF Adopted
<1>3. ~Finished(q) /\ ~HasToken(q) /\ ~Finished(new) /\ ~HasToken(new)
  BY <1>1, <1>2, WireHeads DEF Finished, HasToken
<1>4. new.wire \in OnTheWay(new.at)
  BY <1>2 DEF OnTheWay
<1> QED
  BY <1>2, <1>3, <1>4 DEF Waiting

LEMMA WaitAppend ==
    ASSUME NEW page, NEW q, NEW t, NEW earlier, NEW own, Waiting(page, q, t, earlier, own),
           q.at = "append", NEW new, new.at = "commit", new.asked = q.asked,
           new.conversation = q.conversation, new.wire = Append(q.wire, "done")
    PROVE  Waiting(page, new, t, earlier, own)
<1>1. q.wire \in {<<"conversation", "token">>, <<"token">>, <<>>}
  BY Wires DEF Waiting, Stage
<1>2. /\ q.wire = <<"conversation", "token">> => new.wire = <<"conversation", "token", "done">>
      /\ q.wire = <<"token">> => new.wire = <<"token", "done">>
      /\ q.wire = <<>> => new.wire = <<"done">>
  BY WireMoves
<1>3. /\ Adopted(new) <=> Adopted(q)
      /\ HasToken(new) <=> HasToken(q)
      /\ ~Finished(q) /\ ~Finished(new)
  BY <1>1, <1>2, WireHeads DEF Adopted, Finished, HasToken
<1>4. new.wire \in OnTheWay(new.at)
  BY <1>1, <1>2 DEF OnTheWay
<1> QED
  BY <1>3, <1>4 DEF Waiting

LEMMA WaitCommit ==
    ASSUME NEW page, NEW q, NEW t, NEW earlier, NEW own, Waiting(page, q, t, earlier, own),
           q.at = "commit", q.wire # <<>>, NEW new, new.at = "closed", new.asked = q.asked,
           new.conversation = q.conversation, new.wire = q.wire
    PROVE  Waiting(page, new, t, earlier, own)
<1>1. q.wire \in {<<"conversation", "token", "done">>, <<"token", "done">>, <<"done">>}
  BY Wires DEF Waiting, Stage
<1>2. /\ Adopted(new) <=> Adopted(q)
      /\ HasToken(new) <=> HasToken(q)
      /\ ~Finished(q) /\ ~Finished(new)
  BY DEF Adopted, Finished, HasToken
<1>3. new.wire \in OnTheWay(new.at)
  BY <1>1 DEF OnTheWay
<1> QED
  BY <1>2, <1>3 DEF Waiting

\* The answer is saved when the page already shows it.
LEMMA WaitEnds ==
    ASSUME NEW page, NEW q, NEW t \in Turn, NEW earlier \in Seq(Turn), NEW own,
           Waiting(page, q, t, earlier, own), q.at = "commit", q.wire = <<>>
    PROVE  Settled(page, Append(earlier, t), own) /\ page.conversation = q.conversation
<1> DEFINE order == Append(earlier, t)
<1>1. Adopted(q) /\ Finished(q)
  BY DEF Adopted, Finished
<1>2. own => page.messages = Bubbles(order)
  BY <1>1, BubblesGrow DEF Waiting
<1> QED
  BY <1>1, <1>2 DEF Waiting, Settled

\* new is q without its first event.
Arrives(q, new) ==
    /\ new.tab = q.tab /\ new.tenant = q.tenant /\ new.asked = q.asked /\ new.at = q.at
    /\ new.conversation = q.conversation /\ new.stamp = q.stamp /\ new.history = q.history
    /\ new.saved = q.saved /\ new.listening = q.listening /\ new.wire = Tail(q.wire)

\* What the events do to a page.
Adopts(page, next, c) ==
    /\ next.tenant = page.tenant /\ next.conversation = c /\ next.opening = page.opening
    /\ next.messages = page.messages /\ next.isStreaming = page.isStreaming
    /\ next.streamingText = page.streamingText

GetsToken(page, next, t) ==
    /\ next.tenant = page.tenant /\ next.conversation = page.conversation
    /\ next.opening = page.opening /\ next.messages = page.messages
    /\ next.isStreaming = page.isStreaming
    /\ next.streamingText = Append(page.streamingText, t)

GetsAnswer(page, next) ==
    /\ next.tenant = page.tenant /\ next.conversation = page.conversation
    /\ next.opening = page.opening /\ next.isStreaming = FALSE /\ next.streamingText = <<>>
    /\ next.messages = Append(page.messages, Answer(page.streamingText))

\* The events arrive.
LEMMA WaitConversation ==
    ASSUME NEW page, NEW q, NEW t, NEW earlier, NEW own, Waiting(page, q, t, earlier, own),
           q.at \in Stage, q.wire # <<>>, Head(q.wire) = "conversation",
           NEW new, Arrives(q, new), NEW next, Adopts(page, next, q.conversation)
    PROVE  Waiting(next, new, t, earlier, own) /\ (new.at = "closed" => new.wire # <<>>)
<1> /\ new.at = q.at /\ new.asked = q.asked /\ new.conversation = q.conversation
    /\ new.wire = Tail(q.wire) /\ new.history = q.history
  BY DEF Arrives
<1> /\ next.opening = page.opening /\ next.conversation = q.conversation
    /\ next.isStreaming = page.isStreaming /\ next.streamingText = page.streamingText
    /\ next.messages = page.messages
  BY DEF Adopts
<1>1. \/ q.at \in {"lookup", "stream"} /\ q.wire = <<"conversation">> /\ new.wire = <<>>
      \/ q.at = "append" /\ q.wire = <<"conversation", "token">> /\ new.wire = <<"token">>
      \/ /\ q.at \in {"commit", "closed"} /\ q.wire = <<"conversation", "token", "done">>
         /\ new.wire = <<"token", "done">>
  <2>1. \/ q.at \in {"lookup", "stream"} /\ q.wire = <<"conversation">>
        \/ q.at = "append" /\ q.wire = <<"conversation", "token">>
        \/ q.at \in {"commit", "closed"} /\ q.wire = <<"conversation", "token", "done">>
    <3>1. q.wire \in OnTheWay(q.at)
      BY DEF Waiting
    <3>2. CASE q.at \in {"lookup", "stream"}
      <4>1. q.wire \in {<<"conversation">>, <<>>}
        BY <3>1, <3>2, Wires
      <4> QED  BY <3>2, <4>1
    <3>3. CASE q.at = "append"
      <4>1. q.wire \in {<<"conversation", "token">>, <<"token">>, <<>>}
        BY <3>1, <3>3, Wires
      <4>2. q.wire # <<"token">>
        BY Tails
      <4> QED  BY <3>3, <4>1, <4>2
    <3>4. CASE q.at \in {"commit", "closed"}
      <4>1. q.wire \in {<<"conversation", "token", "done">>, <<"token", "done">>, <<"done">>, <<>>}
        BY <3>1, <3>4, Wires
      <4> QED  BY <3>4, <4>1, WireHeads
    <3> QED  BY <3>1, <3>2, <3>3, <3>4, Wires DEF Stage
  <2> QED  BY <2>1, WireMoves
<1>2. /\ ~Adopted(q) /\ Adopted(new) /\ ~Finished(q) /\ ~Finished(new)
      /\ ~HasToken(q) /\ ~HasToken(new)
  BY <1>1, WireHeads DEF Adopted, Finished, HasToken
<1>3. new.wire \in OnTheWay(new.at)
  BY <1>1 DEF OnTheWay
<1>4. new.at = "closed" => new.wire # <<>>
  BY <1>1, WireHeads
<1> QED
  BY <1>2, <1>3, <1>4 DEF Waiting

LEMMA WaitToken ==
    ASSUME NEW page, NEW q, NEW t, NEW earlier, NEW own, Waiting(page, q, t, earlier, own),
           q.at \in Stage, q.wire # <<>>, Head(q.wire) = "token",
           NEW new, Arrives(q, new), NEW next, GetsToken(page, next, t)
    PROVE  Waiting(next, new, t, earlier, own) /\ (new.at = "closed" => new.wire # <<>>)
<1> /\ new.at = q.at /\ new.asked = q.asked /\ new.conversation = q.conversation
    /\ new.wire = Tail(q.wire) /\ new.history = q.history
  BY DEF Arrives
<1> /\ next.opening = page.opening /\ next.conversation = page.conversation
    /\ next.isStreaming = page.isStreaming /\ next.messages = page.messages
    /\ next.streamingText = Append(page.streamingText, t)
  BY DEF GetsToken
<1>1. \/ q.at = "append" /\ q.wire = <<"token">> /\ new.wire = <<>>
      \/ q.at \in {"commit", "closed"} /\ q.wire = <<"token", "done">> /\ new.wire = <<"done">>
  <2>1. \/ q.at = "append" /\ q.wire = <<"token">>
        \/ q.at \in {"commit", "closed"} /\ q.wire = <<"token", "done">>
    BY Wires, WireHeads DEF Waiting, Stage
  <2> QED  BY <2>1, WireMoves
<1>2. /\ Adopted(q) /\ Adopted(new) /\ ~Finished(q) /\ ~Finished(new)
      /\ ~HasToken(q) /\ HasToken(new)
  BY <1>1, WireHeads DEF Adopted, Finished, HasToken
<1>3. new.wire \in OnTheWay(new.at)
  BY <1>1 DEF OnTheWay
<1>4. next.streamingText = <<t>>
  BY <1>2, AppendSecond DEF Waiting
<1>5. new.at = "closed" => new.wire # <<>>
  BY <1>1, WireHeads
<1> QED
  BY <1>2, <1>3, <1>4, <1>5 DEF Waiting

\* The answer is on the page, whether it is saved already or not.
Answered(next, new, q, t, earlier, own) ==
    /\ new.wire = <<>> /\ next.conversation = q.conversation
    /\ q.at \in {"commit", "closed"}
    /\ q.at = "commit" => Waiting(next, new, t, earlier, own)
    /\ Settled(next, Append(earlier, t), own)

LEMMA WaitDone ==
    ASSUME NEW page, NEW q, NEW t \in Turn, NEW earlier \in Seq(Turn), NEW own,
           Waiting(page, q, t, earlier, own),
           q.at \in Stage, q.wire # <<>>, Head(q.wire) = "done",
           NEW new, Arrives(q, new), NEW next, GetsAnswer(page, next)
    PROVE  Answered(next, new, q, t, earlier, own)
<1> DEFINE order == Append(earlier, t)
<1> /\ new.at = q.at /\ new.asked = q.asked /\ new.conversation = q.conversation
    /\ new.wire = Tail(q.wire) /\ new.history = q.history
  BY DEF Arrives
<1> /\ next.opening = page.opening /\ next.conversation = page.conversation
    /\ ~next.isStreaming /\ next.isStreaming = FALSE /\ next.streamingText = <<>>
    /\ next.messages = Append(page.messages, Answer(page.streamingText))
  BY DEF GetsAnswer
<1>1. q.at \in {"commit", "closed"} /\ q.wire = <<"done">> /\ new.wire = <<>>
  BY Wires, WireHeads, WireMoves DEF Waiting, Stage
<1>2. /\ Adopted(q) /\ Adopted(new) /\ ~Finished(q) /\ HasToken(q) /\ ~HasToken(new)
      /\ q.at = "commit" => Finished(new)
  BY <1>1, WireHeads DEF Adopted, Finished, HasToken
<1>3. new.wire \in OnTheWay(new.at)
  BY <1>1 DEF OnTheWay
<1>4. own => next.messages = Append(Append(Bubbles(earlier), Question(t)), Answer(<<t>>))
  BY <1>2 DEF Waiting
<1>5. own => next.messages = Bubbles(order)
  BY <1>4, BubblesGrow
<1>6. q.at = "commit" => Waiting(next, new, t, earlier, own)
  BY <1>1, <1>2, <1>3, <1>4 DEF Waiting
<1>7. Settled(next, order, own)
  BY <1>5 DEF Settled, Waiting
<1> QED
  BY <1>1, <1>2, <1>6, <1>7 DEF Waiting, Answered

-----------------------------------------------------------------------------
(* What a step leaves alone                                                  *)

Kept ==
    /\ \A c \in DOMAIN conversations :
         c \in DOMAIN conversations' /\ conversations'[c].tenant = conversations[c].tenant
    /\ \A t \in DOMAIN turns :
         /\ t \in DOMAIN turns' /\ turns'[t].tab = turns[t].tab
         /\ turns[t].saved => /\ turns'[t].saved /\ turns'[t].stamp = turns[t].stamp
                              /\ turns'[t].conversation = turns[t].conversation

NothingSaved == \A t \in DOMAIN turns' : turns'[t].saved => t \in DOMAIN turns /\ turns[t].saved

Untouched(b) ==
    /\ tabs'[b] = tabs[b]
    /\ \A t \in DOMAIN turns' :
         turns'[t].tab = b => t \in DOMAIN turns /\ turns'[t] = turns[t]

\* The turns of conversation c without turn t, in their order.
Others(c, t) == InOrder(CreatedAt(TurnsOf(c) \ {t}))

LEMMA EarlierIsOthers ==
    ASSUME NEW t
    PROVE  Earlier(t) = Others(About(turns[t]), t)
  BY DEF Earlier, Others

LEMMA OrderStays ==
    ASSUME NEW c, TurnsOf(c)' = TurnsOf(c),
           \A t \in TurnsOf(c) : turns'[t].stamp = turns[t].stamp
    PROVE  /\ Ordered(c)' = Ordered(c)
           /\ \A t : Others(c, t)' = Others(c, t)
<1>1. ASSUME NEW t  PROVE Others(c, t)' = Others(c, t)
  <2> DEFINE set == TurnsOf(c) \ {t}
  <2>1. CreatedAt(set)' = CreatedAt(set)
    <3>1. set' = set /\ \A u \in set : turns'[u].stamp = turns[u].stamp
      OBVIOUS
    <3>2. CreatedAt(set)' = [u \in set' |-> turns'[u].stamp]
      BY DEF CreatedAt
    <3> HIDE DEF set
    <3> QED  BY <3>1, <3>2 DEF CreatedAt
  <2> QED  BY <2>1 DEF Others
<1>2. Ordered(c)' = Ordered(c)
  <2> DEFINE set == TurnsOf(c)
  <2>1. CreatedAt(set)' = CreatedAt(set)
    <3>1. set' = set /\ \A u \in set : turns'[u].stamp = turns[u].stamp
      OBVIOUS
    <3>2. CreatedAt(set)' = [u \in set' |-> turns'[u].stamp]
      BY DEF CreatedAt
    <3> HIDE DEF set
    <3> QED  BY <3>1, <3>2 DEF CreatedAt
  <2> QED  BY <2>1 DEF Ordered
<1> QED
  BY <1>1, <1>2

\* Nothing is saved: every conversation is as it was.
LEMMA SavedSame ==
    ASSUME Kept, NothingSaved, NEW c
    PROVE  /\ TurnsOf(c)' = TurnsOf(c) /\ Ordered(c)' = Ordered(c)
           /\ \A t : Others(c, t)' = Others(c, t)
           /\ \A b : Own(b, c)' <=> Own(b, c)
<1>1. TurnsOf(c)' = TurnsOf(c)
  BY DEF Kept, NothingSaved, TurnsOf
<1>2. \A t \in TurnsOf(c) : turns'[t].stamp = turns[t].stamp /\ turns'[t].tab = turns[t].tab
  BY DEF Kept, TurnsOf
<1>3. \A b : Own(b, c)' <=> Own(b, c)
  BY <1>1, <1>2 DEF Own
<1> QED
  BY <1>1, <1>2, <1>3, OrderStays

\* So is a conversation of an untouched tab.
LEMMA OwnStays ==
    ASSUME Kept, NEW b, Untouched(b), NEW c, Own(b, c)'
    PROVE  /\ TurnsOf(c)' = TurnsOf(c) /\ Ordered(c)' = Ordered(c) /\ Own(b, c)
           /\ \A t : Others(c, t)' = Others(c, t)
<1>1. TurnsOf(c)' = TurnsOf(c)
  <2>1. ASSUME NEW t \in TurnsOf(c)  PROVE t \in TurnsOf(c)'
    BY DEF Kept, TurnsOf
  <2>2. ASSUME NEW t \in TurnsOf(c)'  PROVE t \in TurnsOf(c)
    <3>1. t \in DOMAIN turns' /\ turns'[t].tab = b
      BY DEF Own, TurnsOf
    <3>2. t \in DOMAIN turns /\ turns'[t] = turns[t]
      BY <3>1 DEF Untouched
    <3> QED  BY <3>2 DEF TurnsOf
  <2> QED  BY <2>1, <2>2
<1>2. \A t \in TurnsOf(c) : turns'[t].stamp = turns[t].stamp /\ turns'[t].tab = turns[t].tab
  BY DEF Kept, TurnsOf
<1>3. Own(b, c)
  BY <1>1, <1>2 DEF Own
<1> QED
  BY <1>1, <1>2, <1>3, OrderStays

LEMMA WaitStays ==
    ASSUME NEW page, NEW q, NEW t, NEW earlier, NEW own, Waiting(page, q, t, earlier, own),
           NEW later, NEW owned, owned => own /\ later = earlier
    PROVE  Waiting(page, q, t, later, owned)
  BY DEF Waiting

LEMMA SettledStays ==
    ASSUME NEW page, NEW order, NEW own, Settled(page, order, own),
           NEW later, NEW owned, owned => own /\ later = order
    PROVE  Settled(page, later, owned)
  BY DEF Settled

LEMMA PageStays ==
    ASSUME Kept, NEW b, Untouched(b), PageOK(b)
    PROVE  PageOK(b)'
<1>1. \A t : t \in DOMAIN turns' /\ turns'[t].tab = b <=> t \in DOMAIN turns /\ turns[t].tab = b
  BY DEF Kept, Untouched
<1>2. \A t \in DOMAIN turns' : turns'[t].tab = b => turns'[t] = turns[t]
  BY DEF Untouched
<1>3. TurnsFrom(b)' = TurnsFrom(b) /\ \A t \in TurnsFrom(b) : turns'[t] = turns[t]
  BY <1>1, <1>2 DEF TurnsFrom
<1>4. Active(b)' = Active(b) /\ \A t \in Active(b) : turns'[t] = turns[t]
  BY <1>3 DEF Active
<1>5. tabs'[b] = tabs[b]
  BY DEF Untouched
<1>6. tabs'[b].conversation # NoConversation =>
         /\ tabs'[b].conversation \in DOMAIN conversations'
         /\ conversations'[tabs'[b].conversation].tenant = tabs'[b].tenant
  BY <1>5 DEF PageOK, Kept
<1>7. \A t \in TurnsFrom(b)' : turns'[t].tenant = tabs'[b].tenant
  BY <1>3, <1>5 DEF PageOK
<1>8. \A t, u \in Active(b)' : t = u
  BY <1>4 DEF PageOK
<1>9. \A t \in Active(b)', u \in DOMAIN turns' :
        turns'[u].tab = b /\ u # t /\ turns'[t].stamp > 0 => turns'[u].stamp < turns'[t].stamp
  BY <1>1, <1>2, <1>4 DEF PageOK
<1>10. Active(b)' = {} =>
         Settled(tabs[b], Ordered(tabs[b].conversation), Own(b, tabs[b].conversation))'
  <2> DEFINE c == tabs[b].conversation
             page == tabs[b]
  <2>1. c' = c /\ page' = page
    BY <1>5
  <2>2. SUFFICES ASSUME Active(b)' = {}
                 PROVE  Settled(page, Ordered(c)', Own(b, c)')
    BY <2>1
  <2>3. Settled(page, Ordered(c), Own(b, c))
    BY <1>4, <2>2 DEF PageOK
  <2>4. Own(b, c)' => Own(b, c) /\ Ordered(c)' = Ordered(c)
    BY <2>1, OwnStays
  <2> QED  BY <2>3, <2>4, SettledStays
<1>11. ASSUME NEW t \in Active(b)'
       PROVE  Waiting(tabs[b], turns[t], t, Earlier(t), Own(b, About(turns[t])))'
  <2> DEFINE c == About(turns[t])
             page == tabs[b]
             q == turns[t]
  <2>1. c' = c /\ page' = page /\ q' = q
    BY <1>4, <1>5
  <2>2. SUFFICES Waiting(page, q, t, Others(c, t)', Own(b, c)')
    BY <2>1, EarlierIsOthers DEF Earlier, Others
  <2>3. Waiting(page, q, t, Others(c, t), Own(b, c))
    BY <1>4, EarlierIsOthers DEF PageOK
  <2>4. Own(b, c)' => Own(b, c) /\ Others(c, t)' = Others(c, t)
    BY <2>1, OwnStays
  <2> QED  BY <2>3, <2>4, WaitStays
<1> QED
  BY <1>6, <1>7, <1>8, <1>9, <1>10, <1>11 DEF PageOK

LEMMA EarlierStays ==
    ASSUME Kept, NothingSaved, NEW t, NEW b, About(turns[t])' = About(turns[t])
    PROVE  /\ Earlier(t)' = Earlier(t)
           /\ Own(b, About(turns[t]))' <=> Own(b, About(turns[t]))
<1> DEFINE c == About(turns[t])
<1>1. c' = c
  OBVIOUS
<1>2. Others(c, t)' = Others(c, t) /\ (Own(b, c)' <=> Own(b, c))
  BY <1>1, SavedSame
<1>3. Earlier(t) = Others(c, t) /\ Earlier(t)' = Others(c, t)'
  BY DEF Earlier, Others
<1> QED
  BY <1>2, <1>3

\* One turn moves.
LEMMA OneTurn ==
    ASSUME ServerInv, NEW t \in DOMAIN turns, NEW new, turns' = [turns EXCEPT ![t] = new],
           new.tab = turns[t].tab,
           turns[t].saved => /\ new.saved /\ new.stamp = turns[t].stamp
                             /\ new.conversation = turns[t].conversation,
           \A c \in DOMAIN conversations :
             c \in DOMAIN conversations' /\ conversations'[c].tenant = conversations[c].tenant
    PROVE  /\ DOMAIN turns' = DOMAIN turns /\ turns'[t] = new
           /\ \A u \in DOMAIN turns : u # t => turns'[u] = turns[u]
           /\ Kept
           /\ (new.saved => turns[t].saved) => NothingSaved
           /\ \A b : b # turns[t].tab /\ tabs'[b] = tabs[b] => Untouched(b)
<1>1. /\ DOMAIN turns' = DOMAIN turns /\ turns'[t] = new
      /\ \A u \in DOMAIN turns : u # t => turns'[u] = turns[u]
  BY DEF ServerInv, TypeOK, ServerTypeOK
<1>2. Kept
  BY <1>1 DEF Kept
<1>3. (new.saved => turns[t].saved) => NothingSaved
  BY <1>1 DEF NothingSaved
<1>4. \A b : b # turns[t].tab /\ tabs'[b] = tabs[b] => Untouched(b)
  BY <1>1 DEF Untouched
<1> QED
  BY <1>1, <1>2, <1>3, <1>4

\* The page goes on waiting for the turn that moved.
LEMMA StillWaits ==
    ASSUME ServerInv, NEW t \in DOMAIN turns, NEW new, turns' = [turns EXCEPT ![t] = new],
           NEW b, PageOK(b), t \in Active(b),
           new.tab = b, new.tenant = turns[t].tenant, new.listening,
           new.at # "closed" \/ new.wire # <<>>,
           new.stamp = turns[t].stamp \/ new.stamp = clock + 1,
           tabs'[b].tenant = tabs[b].tenant,
           tabs'[b].conversation # NoConversation =>
             /\ tabs'[b].conversation \in DOMAIN conversations'
             /\ conversations'[tabs'[b].conversation].tenant = tabs'[b].tenant,
           Waiting(tabs'[b], new, t, Earlier(t)', Own(b, About(new))')
    PROVE  PageOK(b)'
<1>1. /\ DOMAIN turns' = DOMAIN turns /\ turns'[t] = new
      /\ \A u \in DOMAIN turns : u # t => turns'[u] = turns[u]
  BY DEF ServerInv, TypeOK, ServerTypeOK
<1>2. turns[t].tab = b /\ turns[t].listening
  BY DEF Active, TurnsFrom
<1>3. TurnsFrom(b)' = TurnsFrom(b)
  BY <1>1, <1>2 DEF TurnsFrom
<1>4. Active(b) = {t}
  BY DEF PageOK
<1>5. Active(b)' = {t}
  BY <1>1, <1>3, <1>4 DEF Active
<1>6. \A u \in TurnsFrom(b)' : turns'[u].tenant = tabs'[b].tenant
  <2>1. \A u \in TurnsFrom(b) : turns[u].tenant = tabs[b].tenant /\ u \in DOMAIN turns
    BY DEF PageOK, TurnsFrom
  <2>2. t \in TurnsFrom(b)
    BY DEF Active
  <2> QED  BY <1>1, <1>3, <2>1, <2>2
<1>7. ASSUME NEW u \in DOMAIN turns', turns'[u].tab = b, u # t, turns'[t].stamp > 0
      PROVE  turns'[u].stamp < turns'[t].stamp
  <2>1. u \in DOMAIN turns /\ turns'[u] = turns[u] /\ turns'[t].stamp = new.stamp
    BY <1>1, <1>7
  <2>2. turns[u].stamp \in Nat /\ turns[u].stamp <= clock /\ clock \in Nat
    BY <2>1, TurnFacts
  <2>3. CASE new.stamp = turns[t].stamp
    <3>1. turns[u].stamp < turns[t].stamp
      BY <1>4, <1>7, <2>1, <2>3 DEF PageOK
    <3> QED  BY <2>1, <2>3, <3>1
  <2>4. CASE new.stamp = clock + 1
    BY <2>1, <2>2, <2>4
  <2> QED  BY <2>3, <2>4
<1>8. \A x, y \in Active(b)' : x = y
  BY <1>5
<1>9. \A x \in Active(b)' :
        Waiting(tabs[b], turns[x], x, Earlier(x), Own(b, About(turns[x])))'
  <2> SUFFICES Waiting(tabs[b], turns[t], t, Earlier(t), Own(b, About(turns[t])))'
    BY <1>5
  <2> QED  BY <1>1
<1> QED
  BY <1>5, <1>6, <1>7, <1>8, <1>9 DEF PageOK

\* The page waits no more.
LEMMA WaitsNoMore ==
    ASSUME ServerInv, NEW t \in DOMAIN turns, NEW new, turns' = [turns EXCEPT ![t] = new],
           NEW b, PageOK(b), t \in Active(b),
           new.tab = b, new.tenant = turns[t].tenant, new.at = "closed", new.wire = <<>>,
           tabs'[b].tenant = tabs[b].tenant,
           tabs'[b].conversation # NoConversation =>
             /\ tabs'[b].conversation \in DOMAIN conversations'
             /\ conversations'[tabs'[b].conversation].tenant = tabs'[b].tenant,
           Settled(tabs[b], Ordered(tabs[b].conversation), Own(b, tabs[b].conversation))'
    PROVE  PageOK(b)'
<1>1. /\ DOMAIN turns' = DOMAIN turns /\ turns'[t] = new
      /\ \A u \in DOMAIN turns : u # t => turns'[u] = turns[u]
  BY DEF ServerInv, TypeOK, ServerTypeOK
<1>2. turns[t].tab = b /\ turns[t].listening
  BY DEF Active, TurnsFrom
<1>3. TurnsFrom(b)' \subseteq TurnsFrom(b)
  BY <1>1, <1>2 DEF TurnsFrom
<1>4. Active(b) = {t}
  BY DEF PageOK
<1>5. Active(b)' = {}
  BY <1>1, <1>3, <1>4 DEF Active
<1>6. \A u \in TurnsFrom(b)' : turns'[u].tenant = tabs'[b].tenant
  <2>1. \A u \in TurnsFrom(b) : turns[u].tenant = tabs[b].tenant /\ u \in DOMAIN turns
    BY DEF PageOK, TurnsFrom
  <2>2. t \in TurnsFrom(b)
    BY DEF Active
  <2> QED  BY <1>1, <1>3, <2>1, <2>2
<1> QED
  BY <1>5, <1>6 DEF PageOK

Screens == TurnsEnd /\ \A b \in Tabs : PageOK(b)

LEMMA AnswererIsAwaited ==
    ASSUME ServerInv, Screens, NEW t \in DOMAIN turns, turns[t].at # "closed"
    PROVE  LET b == turns[t].tab IN
           /\ b \in Tabs /\ PageOK(b) /\ t \in Active(b)
           /\ turns[t].listening /\ ~turns[t].saved
           /\ Waiting(tabs[b], turns[t], t, Earlier(t), Own(b, About(turns[t])))
           /\ tabs[b].tenant = turns[t].tenant
<1> DEFINE b == turns[t].tab
<1>1. b \in Tabs /\ turns[t].listening /\ ~turns[t].saved
  BY TurnFacts DEF TurnRecord, TurnOK, Screens, TurnsEnd
<1>2. t \in TurnsFrom(b) /\ t \in Active(b)
  BY <1>1 DEF TurnsFrom, Active
<1>3. PageOK(b)
  BY <1>1 DEF Screens
<1> QED
  BY <1>1, <1>2, <1>3 DEF PageOK

LEMMA ScreensMove ==
    ASSUME ServerInv, Screens, NEW t \in DOMAIN turns, NEW new, NEW b, b = turns[t].tab,
           turns' = [turns EXCEPT ![t] = new], new.tab = b,
           turns[t].saved => /\ new.saved /\ new.stamp = turns[t].stamp
                             /\ new.conversation = turns[t].conversation,
           \A c \in DOMAIN conversations :
             c \in DOMAIN conversations' /\ conversations'[c].tenant = conversations[c].tenant,
           \A x \in Tabs : x # b => tabs'[x] = tabs[x],
           new.at # "closed" => new.listening, new.at = "closed" => new.saved,
           PageOK(b)'
    PROVE  Screens'
<1>1. /\ DOMAIN turns' = DOMAIN turns /\ turns'[t] = new
      /\ \A u \in DOMAIN turns : u # t => turns'[u] = turns[u]
      /\ Kept
      /\ \A x : x # b /\ tabs'[x] = tabs[x] => Untouched(x)
  BY OneTurn
<1>2. TurnsEnd'
  BY <1>1 DEF Screens, TurnsEnd
<1>3. ASSUME NEW x \in Tabs, x # b  PROVE PageOK(x)'
  BY <1>1, <1>3, PageStays DEF Screens
<1> QED
  BY <1>2, <1>3 DEF Screens

\* The conversation that Post finds or creates has the turns of the one asked for.
LEMMA PostScreens ==
    ASSUME ServerInv, Screens, NEW t \in DOMAIN turns, Post(t), UNCHANGED tabs
    PROVE  Screens'
<1> DEFINE q == turns[t]
<1> PICK b : b = q.tab
  OBVIOUS
<1> PICK n : n = Len(conversations) + 1
  OBVIOUS
<1> PICK c : c = IF Found(t) THEN q.asked ELSE n
  OBVIOUS
<1> PICK new :
      new = [q EXCEPT !.at = "lookup", !.conversation = c, !.wire = <<"conversation">>]
  OBVIOUS
<1>1. /\ q \in TurnRecord /\ TurnOK(q, conversations, turns, clock)
      /\ turns \in Seq(TurnRecord) /\ conversations \in Seq(Row) /\ clock \in Nat
      /\ \A u \in DOMAIN turns : TurnOK(turns[u], conversations, turns, clock)
  BY TurnFacts DEF ServerInv
<1>2. q.at = "sent"
  BY DEF Post, TurnAt
<1>3. /\ b \in Tabs /\ PageOK(b) /\ t \in Active(b) /\ q.listening /\ ~q.saved
      /\ Waiting(tabs[b], q, t, Earlier(t), Own(b, About(q)))
      /\ tabs[b].tenant = q.tenant
  BY <1>2, AnswererIsAwaited
<1>4. turns' = [turns EXCEPT ![t] = new]
  BY <1>1 DEF Post
<1>5. /\ new.at = "lookup" /\ new.asked = q.asked /\ new.conversation = c
      /\ new.wire = <<"conversation">> /\ new.tab = b /\ new.tenant = q.tenant
      /\ new.listening /\ ~new.saved /\ new.stamp = q.stamp
  BY <1>1, <1>3 DEF TurnRecord
<1>6. \A d \in DOMAIN conversations :
        d \in DOMAIN conversations' /\ conversations'[d].tenant = conversations[d].tenant
  <2>1. \/ UNCHANGED conversations
        \/ conversations' = Append(conversations,
             [tenant |-> q.tenant, updated |-> clock + 1, titled |-> FALSE])
    BY DEF Post
  <2> QED  BY <1>1, <2>1
<1>7. /\ DOMAIN turns' = DOMAIN turns /\ turns'[t] = new /\ Kept /\ NothingSaved
  BY <1>3, <1>4, <1>5, <1>6, OneTurn
<1>8. About(q) = q.asked /\ About(new) = c
  BY <1>2, <1>5 DEF About
<1>9. Earlier(t)' = Earlier(t) /\ (Own(b, c)' => Own(b, About(q)))
  <2>1. CASE Found(t)
    <3>1. About(turns[t])' = About(turns[t])
      BY <1>7, <1>8, <2>1
    <3>2. Earlier(t)' = Earlier(t)
      BY <1>7, <3>1, EarlierStays
    <3>3. Own(b, c)' <=> Own(b, c)
      BY <1>7, SavedSame
    <3> QED  BY <1>8, <2>1, <3>2, <3>3
  <2>2. CASE ~Found(t)
    <3>1. tabs[b].conversation = q.asked
      BY <1>2, <1>3 DEF Waiting, Adopted
    <3>2. q.asked = NoConversation
      BY <1>3, <2>2, <3>1 DEF PageOK, Found
    <3>3. n \notin DOMAIN conversations
      BY <1>1
    <3>4. TurnsOf(NoConversation) = {} /\ TurnsOf(n) = {}
      BY <1>1, <3>3 DEF TurnsOf, TurnOK
    <3>5. c = n /\ About(new) = n
      BY <1>8, <2>2
    <3>6. Earlier(t) = Others(NoConversation, t)
      BY <1>8, <3>2, EarlierIsOthers
    <3>7. Earlier(t)' = Others(n, t)'
      BY <1>7, <3>5 DEF Earlier, Others
    <3>8. Others(n, t)' = Others(n, t)
      BY <1>7, SavedSame
    <3>9. Others(n, t) = Others(NoConversation, t)
      BY <3>4 DEF Others
    <3>10. Own(b, About(q))
      BY <1>8, <3>2, <3>4 DEF Own
    <3> QED  BY <3>6, <3>7, <3>8, <3>9, <3>10
  <2> QED  BY <2>1, <2>2
<1>10. Waiting(tabs[b], new, t, Earlier(t), Own(b, c)')
  <2> DEFINE page == tabs[b]
             earlier == Earlier(t)
             own == Own(b, About(q))
             owned == Own(b, c)'
  <2>1. /\ Waiting(page, q, t, earlier, own) /\ q.at = "sent" /\ new.at = "lookup"
        /\ new.asked = q.asked /\ new.wire = <<"conversation">> /\ (owned => own)
    BY <1>2, <1>3, <1>5, <1>9
  <2> HIDE DEF page, earlier, own, owned, q
  <2>2. Waiting(page, new, t, earlier, own)
    BY <2>1, WaitPost
  <2>3. Waiting(page, new, t, earlier, owned)
    BY <2>1, <2>2, WaitStays
  <2> QED  BY <2>3 DEF page, earlier, owned
<1>11. PageOK(b)'
  <2>1. tabs'[b].conversation # NoConversation =>
          /\ tabs'[b].conversation \in DOMAIN conversations'
          /\ conversations'[tabs'[b].conversation].tenant = tabs'[b].tenant
    BY <1>3, <1>6 DEF PageOK
  <2>2. Own(b, About(new))' <=> Own(b, c)'
    BY <1>8
  <2>3. Waiting(tabs'[b], new, t, Earlier(t)', Own(b, About(new))')
    BY <1>8, <1>9, <1>10
  <2>4. new.at # "closed" /\ tabs'[b].tenant = tabs[b].tenant
    BY <1>5
  <2> QED  BY <1>3, <1>4, <1>5, <2>1, <2>3, <2>4, StillWaits
<1>12. \A x \in Tabs : x # b => tabs'[x] = tabs[x]
  OBVIOUS
<1>13. new.tab = b /\ ~q.saved /\ new.at # "closed" /\ new.listening
  BY <1>3, <1>5
<1> QED
  BY <1>4, <1>6, <1>11, <1>12, <1>13, ScreensMove

\* The handler goes on with the turn that the page waits for.
LEMMA AnswerGoesOn ==
    ASSUME ServerInv, Screens, NEW t \in DOMAIN turns, NEW b, b = turns[t].tab,
           turns[t].at \notin {"sent", "closed"}, NEW new, turns' = [turns EXCEPT ![t] = new],
           new.tab = b, new.tenant = turns[t].tenant, new.listening, ~new.saved,
           new.conversation = turns[t].conversation, new.at \notin {"sent", "closed"},
           new.stamp = turns[t].stamp \/ new.stamp = clock + 1,
           UNCHANGED <<conversations, tabs>>,
           Waiting(tabs[b], new, t, Earlier(t), Own(b, About(turns[t])))
    PROVE  Screens'
<1>1. /\ b \in Tabs /\ PageOK(b) /\ t \in Active(b) /\ ~turns[t].saved
  BY AnswererIsAwaited
<1>2. \A c \in DOMAIN conversations :
        c \in DOMAIN conversations' /\ conversations'[c].tenant = conversations[c].tenant
  OBVIOUS
<1>3. /\ DOMAIN turns' = DOMAIN turns /\ turns'[t] = new /\ Kept /\ NothingSaved
  BY <1>1, <1>2, OneTurn
<1>4. About(turns[t])' = About(turns[t])
  BY <1>3 DEF About
<1>5. /\ Earlier(t)' = Earlier(t)
      /\ Own(b, About(turns[t]))' <=> Own(b, About(turns[t]))
  BY <1>3, <1>4, EarlierStays
<1>6. Own(b, About(new))' <=> Own(b, About(turns[t]))
  BY <1>3, <1>5
<1>7. Waiting(tabs'[b], new, t, Earlier(t)', Own(b, About(new))')
  BY <1>5, <1>6, WaitStays
<1>8. tabs'[b].conversation # NoConversation =>
          /\ tabs'[b].conversation \in DOMAIN conversations'
          /\ conversations'[tabs'[b].conversation].tenant = tabs'[b].tenant
  BY <1>1 DEF PageOK
<1>9. PageOK(b)'
  BY <1>1, <1>7, <1>8, StillWaits
<1>10. \A x \in Tabs : x # b => tabs'[x] = tabs[x]
  OBVIOUS
<1> QED
  BY <1>1, <1>2, <1>9, <1>10, ScreensMove

LEMMA AnswerScreens ==
    ASSUME ServerInv, Screens, NEW t \in DOMAIN turns, UNCHANGED tabs,
           Hit(t) \/ LoadHistory(t) \/ Stream(t) \/ AppendMessages(t)
    PROVE  Screens'
<1> DEFINE q == turns[t]
<1> PICK b : b = q.tab
  OBVIOUS
<1> PICK c : c = About(q)
  OBVIOUS
<1> PICK page, earlier, own : page = tabs[b] /\ earlier = Earlier(t) /\ own = Own(b, c)
  OBVIOUS
<1>1. /\ q \in TurnRecord /\ TurnOK(q, conversations, turns, clock)
      /\ turns \in Seq(TurnRecord)
  BY TurnFacts
<1>2. /\ UNCHANGED <<conversations, tabs>> /\ q.at \notin {"sent", "closed"}
      /\ q.at \in Stage
  BY <1>1 DEF Hit, LoadHistory, Stream, AppendMessages, TurnAt, Stage
<1>3. /\ b \in Tabs /\ q.listening /\ ~q.saved
      /\ Waiting(page, q, t, earlier, own)
  BY <1>2, AnswererIsAwaited
<1>4. c = q.conversation
  BY <1>2 DEF About
<1>5. ASSUME NEW new, turns' = [turns EXCEPT ![t] = new], new.at \notin {"sent", "closed"},
             new.tab = q.tab, new.tenant = q.tenant, new.listening = q.listening,
             new.saved = q.saved, new.conversation = q.conversation,
             new.stamp = q.stamp \/ new.stamp = clock + 1,
             Waiting(page, new, t, earlier, own)
      PROVE  Screens'
  BY <1>2, <1>3, <1>5, AnswerGoesOn
<1>6. CASE Hit(t)
  <2>0. PICK new : new = [q EXCEPT !.at = "commit", !.stamp = clock + 1,
                                 !.wire = q.wire \o <<"token", "done">>]
    OBVIOUS
  <2>1. turns' = [turns EXCEPT ![t] = new] /\ q.at = "lookup"
    BY <2>0, <1>1, <1>6 DEF Hit, TurnAt
  <2>2. /\ new.at = "commit" /\ new.asked = q.asked /\ new.conversation = q.conversation
        /\ new.wire = q.wire \o <<"token", "done">> /\ new.tab = q.tab
        /\ new.tenant = q.tenant /\ new.listening = q.listening /\ new.saved = q.saved
        /\ new.stamp = clock + 1
    BY <1>1, <2>0 DEF TurnRecord
  <2>3. /\ q.wire = <<"conversation">> => new.wire = <<"conversation", "token", "done">>
        /\ q.wire = <<>> => new.wire = <<"token", "done">>
    BY <2>2, WireMoves
  <2> HIDE DEF q
  <2>4. Waiting(page, new, t, earlier, own)
    BY <1>3, <2>1, <2>2, <2>3, WaitHit
  <2> QED  BY <1>5, <2>1, <2>2, <2>4
<1>7. CASE LoadHistory(t)
  <2>0. PICK new : new = [q EXCEPT !.at = "stream", !.stamp = clock + 1,
                                 !.history = Ordered(q.conversation)]
    OBVIOUS
  <2>1. turns' = [turns EXCEPT ![t] = new] /\ q.at = "lookup"
    BY <2>0, <1>1, <1>7 DEF LoadHistory, TurnAt
  <2>2. /\ new.at = "stream" /\ new.asked = q.asked /\ new.conversation = q.conversation
        /\ new.wire = q.wire /\ new.tab = q.tab /\ new.history = Ordered(q.conversation)
        /\ new.tenant = q.tenant /\ new.listening = q.listening /\ new.saved = q.saved
        /\ new.stamp = clock + 1
    BY <1>1, <2>0 DEF TurnRecord
  <2>3. Ordered(q.conversation) = Earlier(t)
    <3>1. TurnsOf(c) \ {t} = TurnsOf(c)
      BY <1>3 DEF TurnsOf
    <3>2. Earlier(t) = Others(c, t)
      BY EarlierIsOthers
    <3> QED  BY <1>4, <3>1, <3>2 DEF Ordered, Others
  <2> HIDE DEF q
  <2>4. Waiting(page, new, t, earlier, own)
    BY <1>3, <2>1, <2>2, <2>3, WaitLoad
  <2> QED  BY <1>5, <2>1, <2>2, <2>4
<1>8. CASE Stream(t)
  <2>0. PICK new : new = [q EXCEPT !.at = "append", !.wire = Append(q.wire, "token")]
    OBVIOUS
  <2>1. turns' = [turns EXCEPT ![t] = new] /\ q.at = "stream"
    BY <2>0, <1>1, <1>8 DEF Stream, TurnAt
  <2>2. /\ new.at = "append" /\ new.asked = q.asked /\ new.conversation = q.conversation
        /\ new.wire = Append(q.wire, "token") /\ new.tab = q.tab /\ new.history = q.history
        /\ new.tenant = q.tenant /\ new.listening = q.listening /\ new.saved = q.saved
        /\ new.stamp = q.stamp
    BY <1>1, <2>0 DEF TurnRecord
  <2> HIDE DEF q
  <2>3. Waiting(page, new, t, earlier, own)
    BY <1>3, <2>1, <2>2, WaitStream
  <2> QED  BY <1>5, <2>1, <2>2, <2>3
<1>9. CASE AppendMessages(t)
  <2>0. PICK new : new = [q EXCEPT !.at = "commit", !.wire = Append(q.wire, "done")]
    OBVIOUS
  <2>1. turns' = [turns EXCEPT ![t] = new] /\ q.at = "append"
    BY <2>0, <1>1, <1>9 DEF AppendMessages, TurnAt
  <2>2. /\ new.at = "commit" /\ new.asked = q.asked /\ new.conversation = q.conversation
        /\ new.wire = Append(q.wire, "done") /\ new.tab = q.tab
        /\ new.tenant = q.tenant /\ new.listening = q.listening /\ new.saved = q.saved
        /\ new.stamp = q.stamp
    BY <1>1, <2>0 DEF TurnRecord
  <2> HIDE DEF q
  <2>3. Waiting(page, new, t, earlier, own)
    BY <1>3, <2>1, <2>2, WaitAppend
  <2> QED  BY <1>5, <2>1, <2>2, <2>3
<1> QED
  BY <1>6, <1>7, <1>8, <1>9

-----------------------------------------------------------------------------
(* A turn is saved                                                           *)

\* The turn with the latest time is the last one.
LEMMA LatestComesLast ==
    ASSUME NEW set, NEW t, t \notin set, NEW time, NEW before,
           time = [u \in set \union {t} |-> time[u]], before = [u \in set |-> time[u]],
           \A u \in set : time[u] \in Nat /\ time[u] < time[t], time[t] \in Nat,
           \A u, v \in set : time[u] = time[v] => u = v
    PROVE  ComesLast(t, set, time, before)
<1>1. time \in [set \union {t} -> Nat] /\ before \in [set -> Nat]
  OBVIOUS
<1>2. \A u \in set : time[u] < time[t] /\ before[u] = time[u]
  OBVIOUS
<1>3. IsInjective(time)
  <2> SUFFICES ASSUME NEW u \in set \union {t}, NEW v \in set \union {t}, time[u] = time[v]
               PROVE  u = v
    BY DEF IsInjective
  <2>1. CASE u \in set /\ v \in set
    BY <2>1
  <2>2. CASE u = t \/ v = t
    <3>1. \A x \in set : time[x] # time[t]
      BY <1>1, <1>2
    <3> QED  BY <2>2, <3>1
  <2> QED  BY <2>1, <2>2
<1> QED  BY <1>1, <1>2, <1>3 DEF ComesLast

LEMMA SavedIsLast ==
    ASSUME ServerInv, NEW t \in DOMAIN turns, turns[t].saved,
           NEW c, c = turns[t].conversation,
           \A u \in TurnsOf(c) : u # t => turns[u].stamp < turns[t].stamp
    PROVE  Ordered(c) = Append(Others(c, t), t)
<1> DEFINE set == TurnsOf(c) \ {t}
<1>1. /\ set \in SUBSET {u \in DOMAIN turns : turns[u].saved}
      /\ TurnsOf(c) = set \union {t}
  BY DEF TurnsOf
<1>2. IsFiniteSet(set)
  BY <1>1, SavedTimes
<1>3. \A u \in set : turns[u].stamp \in Nat /\ turns[u].stamp < turns[t].stamp
  BY TurnFacts DEF TurnsOf
<1>4. turns[t].stamp \in Nat
  BY TurnFacts
<1>5. \A u, v \in set : turns[u].stamp = turns[v].stamp => u = v
  <2>1. ASSUME NEW u \in set  PROVE u \in DOMAIN turns /\ turns[u].stamp # 0
    <3>1. u \in DOMAIN turns /\ turns[u].saved
      BY DEF TurnsOf
    <3> QED  BY <3>1, TurnFacts DEF TurnOK
  <2> QED  BY <2>1 DEF ServerInv, OwnTimes
<1>6. t \notin set
  OBVIOUS
<1> DEFINE time == CreatedAt(set \union {t})
           before == CreatedAt(set)
<1>7. /\ time = [u \in set \union {t} |-> time[u]] /\ before = [u \in set |-> time[u]]
      /\ \A u \in set \union {t} : time[u] = turns[u].stamp
  BY DEF CreatedAt
<1> HIDE DEF set, time, before
<1>8. ComesLast(t, set, time, before)
  <2>1. /\ \A u \in set : time[u] \in Nat /\ time[u] < time[t]
        /\ \A u, v \in set : time[u] = time[v] => u = v
    BY <1>3, <1>5, <1>7
  <2>2. time[t] \in Nat
    BY <1>4, <1>7
  <2> QED  BY <1>6, <1>7, <2>1, <2>2, LatestComesLast
<1>9. InOrder(time) = Append(InOrder(before), t)
  BY <1>2, <1>8, SortGrows
<1> QED
  BY <1>1, <1>9 DEF Ordered, Others, set, time, before

\* The turn that is saved comes after those that are.
LEMMA CommitGrows ==
    ASSUME ServerInv, NEW t \in DOMAIN turns, ~turns[t].saved,
           NEW c, c = turns[t].conversation, NEW new, turns' = [turns EXCEPT ![t] = new],
           new.saved, new.conversation = c, new.stamp = turns[t].stamp,
           \A u \in TurnsOf(c) : turns[u].stamp < turns[t].stamp
    PROVE  Ordered(c)' = Append(Ordered(c), t)
<1> DEFINE set == TurnsOf(c)
<1>1. /\ DOMAIN turns' = DOMAIN turns /\ turns'[t] = new
      /\ \A u \in DOMAIN turns : u # t => turns'[u] = turns[u]
  BY DEF ServerInv, TypeOK, ServerTypeOK
<1>2. t \notin set /\ set \in SUBSET {u \in DOMAIN turns : turns[u].saved}
  BY DEF TurnsOf
<1>3. TurnsOf(c)' = set \union {t}
  BY <1>1 DEF TurnsOf
<1>4. \A u \in set : turns'[u].stamp = turns[u].stamp
  BY <1>1, <1>2
<1>5. IsFiniteSet(set)
  BY <1>2, SavedTimes
<1>6. /\ \A u \in set : turns'[u].stamp \in Nat /\ turns'[u].stamp < turns'[t].stamp
      /\ turns'[t].stamp \in Nat
  BY <1>1, <1>2, <1>4, TurnFacts
<1>7. \A u, v \in set : turns'[u].stamp = turns'[v].stamp => u = v
  <2>1. ASSUME NEW u \in set  PROVE u \in DOMAIN turns /\ turns[u].stamp # 0
    <3>1. u \in DOMAIN turns /\ turns[u].saved
      BY DEF TurnsOf
    <3> QED  BY <3>1, TurnFacts DEF TurnOK
  <2> QED  BY <1>4, <2>1 DEF ServerInv, OwnTimes
<1> DEFINE time == [u \in set \union {t} |-> turns'[u].stamp]
           before == CreatedAt(set)
<1>8. /\ time = [u \in set \union {t} |-> time[u]] /\ before = [u \in set |-> time[u]]
      /\ \A u \in set \union {t} : time[u] = turns'[u].stamp
  BY <1>4 DEF CreatedAt
<1>9. Ordered(c)' = InOrder(time) /\ Ordered(c) = InOrder(before)
  BY <1>3 DEF Ordered, CreatedAt
<1> HIDE DEF set, time, before
<1>10. ComesLast(t, set, time, before)
  BY ZenonT(60), <1>2, <1>6, <1>7, <1>8, LatestComesLast
<1> QED
  BY <1>5, <1>9, <1>10, SortGrows

\* A turn that is saved adds itself to its conversation, and to no other.
LEMMA SavedTurn ==
    ASSUME ServerInv, NEW t \in DOMAIN turns, ~turns[t].saved,
           NEW c, c = turns[t].conversation, NEW new, turns' = [turns EXCEPT ![t] = new],
           new.saved, new.conversation = c, new.stamp = turns[t].stamp, new.tab = turns[t].tab
    PROVE  /\ Others(c, t) = Ordered(c) /\ Others(c, t)' = Ordered(c)
           /\ Own(turns[t].tab, c)' <=> Own(turns[t].tab, c)
           /\ \A d : d # c => Ordered(d)' = Ordered(d)
<1>1. /\ DOMAIN turns' = DOMAIN turns /\ turns'[t] = new
      /\ \A u \in DOMAIN turns : u # t => turns'[u] = turns[u]
  BY DEF ServerInv, TypeOK, ServerTypeOK
<1>2. TurnsOf(c) \ {t} = TurnsOf(c)
  BY DEF TurnsOf
<1>3. TurnsOf(c)' = TurnsOf(c) \union {t} /\ TurnsOf(c)' \ {t} = TurnsOf(c)
  BY <1>1 DEF TurnsOf
<1>4. Others(c, t) = Ordered(c)
  BY <1>2 DEF Others, Ordered
<1>5. Others(c, t)' = Ordered(c)
  <2> DEFINE set == TurnsOf(c)
  <2>1. \A u \in set : turns'[u].stamp = turns[u].stamp
    BY <1>1, <1>2 DEF TurnsOf
  <2>2. Others(c, t)' = InOrder([u \in set |-> turns'[u].stamp])
    BY <1>3 DEF Others, CreatedAt
  <2> HIDE DEF set
  <2>3. [u \in set |-> turns'[u].stamp] = [u \in set |-> turns[u].stamp]
    BY <2>1
  <2> QED  BY <2>2, <2>3 DEF Ordered, CreatedAt, set
<1>6. Own(turns[t].tab, c)' <=> Own(turns[t].tab, c)
  <2> PICK b : b = turns[t].tab
    OBVIOUS
  <2>1. \A u \in TurnsOf(c) : turns'[u] = turns[u]
    BY <1>1, <1>2 DEF TurnsOf
  <2>2. Own(b, c)' <=> Own(b, c)
    BY <1>1, <1>3, <2>1 DEF Own
  <2>3. turns'[t].tab = b
    BY <1>1
  <2> QED  BY <2>2, <2>3 DEF Own
<1>7. ASSUME NEW d, d # c  PROVE Ordered(d)' = Ordered(d)
  <2>1. TurnsOf(d)' = TurnsOf(d) /\ \A u \in TurnsOf(d) : turns'[u].stamp = turns[u].stamp
    BY <1>1, <1>7 DEF TurnsOf
  <2> QED  BY <2>1, OrderStays
<1> QED
  BY <1>4, <1>5, <1>6, <1>7

LEMMA CommitScreens ==
    ASSUME ServerInv, Screens, NEW t \in DOMAIN turns, Commit(t), UNCHANGED tabs
    PROVE  Screens'
<1> DEFINE q == turns[t]
<1> PICK b : b = q.tab
  OBVIOUS
<1> PICK c : c = q.conversation
  OBVIOUS
<1> PICK page, own : page = tabs[b] /\ own = Own(b, c)
  OBVIOUS
<1> PICK new : new = [q EXCEPT !.at = "closed", !.saved = TRUE]
  OBVIOUS
<1>1. /\ q \in TurnRecord /\ TurnOK(q, conversations, turns, clock)
      /\ turns \in Seq(TurnRecord)
  BY TurnFacts
<1>2. q.at = "commit" /\ UNCHANGED <<conversations, tabs>>
  BY DEF Commit, TurnAt
<1>3. /\ b \in Tabs /\ PageOK(b) /\ t \in Active(b) /\ q.listening /\ ~q.saved
      /\ Waiting(page, q, t, Earlier(t), own)
  BY <1>2, AnswererIsAwaited DEF About
<1>4. turns' = [turns EXCEPT ![t] = new]
  BY <1>1 DEF Commit
<1>5. /\ new.at = "closed" /\ new.asked = q.asked /\ new.conversation = c
      /\ new.wire = q.wire /\ new.tab = b /\ new.tenant = q.tenant
      /\ new.listening /\ new.saved /\ new.stamp = q.stamp
  BY <1>1, <1>3 DEF TurnRecord
<1>6. About(q) = c /\ About(new) = c
  BY <1>2, <1>5 DEF About
<1>7. /\ DOMAIN turns' = DOMAIN turns /\ turns'[t] = new
  BY <1>1, <1>4
<1>8. /\ Others(c, t) = Ordered(c) /\ Others(c, t)' = Ordered(c)
      /\ Own(b, c)' <=> own
  BY <1>3, <1>4, <1>5, SavedTurn
<1>9. Earlier(t) = Ordered(c) /\ Earlier(t)' = Ordered(c)
  <2>1. Earlier(t) = Others(c, t)
    BY <1>6, EarlierIsOthers
  <2>2. Earlier(t)' = Others(c, t)'
    BY <1>6, <1>7 DEF Earlier, Others
  <2> QED  BY <1>8, <2>1, <2>2
<1>10. own => Ordered(c)' = Append(Ordered(c), t)
  <2> SUFFICES ASSUME own
               PROVE  Ordered(c)' = Append(Ordered(c), t)
    OBVIOUS
  <2>1. q.stamp > 0
    BY <1>1, <1>2 DEF TurnOK
  <2>2. \A u \in TurnsOf(c) : u \in DOMAIN turns /\ u # t /\ turns[u].tab = b
    BY <1>3 DEF Own, TurnsOf
  <2>3. \A u \in TurnsOf(c) : turns[u].stamp < turns[t].stamp
    BY <1>3, <2>1, <2>2 DEF PageOK
  <2> QED  BY <1>3, <1>4, <1>5, <2>3, CommitGrows
<1>11. page.conversation # NoConversation =>
          /\ page.conversation \in DOMAIN conversations'
          /\ conversations'[page.conversation].tenant = page.tenant
  BY <1>2, <1>3 DEF PageOK
<1>12. PageOK(b)'
  <2>1. CASE q.wire # <<>>
    <3>1. Waiting(page, new, t, Ordered(c), own)
      <4> PICK earlier : earlier = Ordered(c)
        OBVIOUS
      <4> HIDE DEF q
      <4> QED  BY <1>2, <1>3, <1>5, <1>9, <2>1, WaitCommit
    <3>2. Waiting(tabs'[b], new, t, Earlier(t)', Own(b, About(new))')
      <4>1. Own(b, About(new))' <=> own
        BY <1>6, <1>8
      <4> QED  BY <1>2, <1>9, <3>1, <4>1, WaitStays
    <3> QED  BY <1>2, <1>3, <1>4, <1>5, <1>11, <2>1, <3>2, StillWaits
  <2>2. CASE q.wire = <<>>
    <3>1. Settled(page, Append(Ordered(c), t), own) /\ page.conversation = c
      <4> PICK earlier : earlier = Ordered(c)
        OBVIOUS
      <4>1. t \in Turn /\ earlier \in Seq(Turn)
        BY <1>1, OrderedTypes DEF Turn
      <4>2. q.at = "commit" /\ q.wire = <<>> /\ q.conversation = c
        BY <1>2, <2>2
      <4>3. Waiting(page, q, t, earlier, own)
        BY <1>3, <1>9
      <4> HIDE DEF q
      <4>4. Settled(page, Append(earlier, t), own) /\ page.conversation = q.conversation
        BY <4>1, <4>2, <4>3, WaitEnds
      <4> QED  BY <4>2, <4>4
    <3>2. Settled(tabs[b], Ordered(tabs[b].conversation), Own(b, tabs[b].conversation))'
      <4>1. tabs'[b].conversation = c /\ tabs'[b] = page
        BY <1>2, <3>1
      <4>2. Own(b, tabs[b].conversation)' <=> own
        BY <1>8, <4>1
      <4>3. Ordered(tabs[b].conversation)' = Ordered(c)'
        BY <4>1
      <4> QED  BY <1>10, <3>1, <4>1, <4>2, <4>3 DEF Settled
    <3> QED  BY ZenonT(60), <1>2, <1>3, <1>4, <1>5, <1>11, <2>2, <3>2, WaitsNoMore
  <2> QED  BY <2>1, <2>2
<1>13. \A d \in DOMAIN conversations :
        d \in DOMAIN conversations' /\ conversations'[d].tenant = conversations[d].tenant
  BY <1>2
<1>14. \A x \in Tabs : x # b => tabs'[x] = tabs[x]
  BY <1>2
<1> QED
  BY <1>3, <1>4, <1>5, <1>12, <1>13, <1>14, ScreensMove

\* What is on its way to a page are the events of an answer.
LEMMA Heads ==
    ASSUME NEW q, q.at \in Stage, q.wire \in OnTheWay(q.at), q.wire # <<>>
    PROVE  Head(q.wire) \in {"conversation", "token", "done"}
  BY Wires, WireHeads DEF Stage

\* Turn t, which is q, of tab b and conversation c, becomes new.
Delivers(q, b, c, t, new) ==
    /\ b \in Tabs /\ PageOK(b) /\ t \in Active(b) /\ q.at \in Stage /\ q.wire # <<>>
    /\ tabs[b].tenant = q.tenant
    /\ Waiting(tabs[b], q, t, Others(c, t), Own(b, c))
    /\ turns' = [turns EXCEPT ![t] = new] /\ UNCHANGED conversations
    /\ Arrives(q, new) /\ new.listening
    /\ c # NoConversation =>
         c \in DOMAIN conversations /\ conversations[c].tenant = q.tenant
    /\ q.at = "closed" => q.saved
    /\ Ordered(c)' = Ordered(c) /\ (Own(b, c)' <=> Own(b, c))
    /\ Earlier(t)' = Others(c, t) /\ About(new) = c

LEMMA EventArrives ==
    ASSUME ServerInv, Screens, NEW t \in DOMAIN turns, Deliver(t),
           NEW b, b = turns[t].tab, NEW c, c = turns[t].conversation
    PROVE  \E new : Delivers(turns[t], b, c, t, new)
<1> PICK q : q = turns[t]
  OBVIOUS
<1> PICK new : new = [q EXCEPT !.wire = Tail(q.wire)]
  OBVIOUS
<1>1. /\ q \in TurnRecord /\ TurnOK(q, conversations, turns, clock)
      /\ turns \in Seq(TurnRecord)
  BY TurnFacts
<1>2. /\ q.listening /\ q.wire # <<>> /\ UNCHANGED <<conversations, clock, budget>>
      /\ turns' = [turns EXCEPT ![t] = new]
  BY <1>1 DEF Deliver
<1>3. b \in Tabs /\ q.at \in Stage
  BY <1>1 DEF TurnRecord
<1>4. t \in TurnsFrom(b) /\ t \in Active(b)
  BY <1>2 DEF TurnsFrom, Active
<1>5. PageOK(b) /\ (q.at = "closed" => q.saved)
  BY <1>3 DEF Screens, TurnsEnd
<1>6. tabs[b].tenant = q.tenant
  BY <1>4, <1>5 DEF PageOK
<1>7. /\ new.tab = b /\ new.tenant = q.tenant /\ new.asked = q.asked /\ new.at = q.at
      /\ new.conversation = c /\ new.stamp = q.stamp /\ new.history = q.history
      /\ new.saved = q.saved /\ new.listening /\ new.wire = Tail(q.wire)
  BY <1>1, <1>2 DEF TurnRecord
<1>15. Arrives(q, new)
  BY <1>7 DEF Arrives
<1>8. q.at # "sent"
  BY <1>1, <1>2 DEF TurnOK
<1>9. About(q) = c /\ About(new) = c
  BY <1>7, <1>8 DEF About
<1>10. Waiting(tabs[b], q, t, Others(c, t), Own(b, c))
  <2>1. Waiting(tabs[b], q, t, Earlier(t), Own(b, About(q)))
    BY <1>4, <1>5 DEF PageOK
  <2> QED  BY <1>9, <2>1, EarlierIsOthers
<1>11. DOMAIN turns' = DOMAIN turns /\ turns'[t] = new /\ Kept /\ NothingSaved
  BY <1>2, <1>7, OneTurn
<1>12. /\ Ordered(c)' = Ordered(c) /\ (Own(b, c)' <=> Own(b, c))
       /\ Others(c, t)' = Others(c, t)
  BY <1>11, SavedSame
<1>13. Earlier(t)' = Others(c, t)
  <2>1. Earlier(t)' = Others(c, t)'
    BY <1>9, <1>11 DEF Earlier, Others
  <2> QED  BY <1>12, <2>1
<1>14. c # NoConversation => c \in DOMAIN conversations /\ conversations[c].tenant = q.tenant
  BY <1>1 DEF TurnOK
<1> QED
  BY <1>2, <1>3, <1>4, <1>5, <1>6, <1>7, <1>9, <1>10, <1>12, <1>13, <1>14,
     <1>15, Zenon DEF Delivers

\* What an event does to its page.
LEMMA EventShown ==
    ASSUME ServerInv, NEW t \in DOMAIN turns, Deliver(t), NEW b \in Tabs, b = turns[t].tab,
           NEW page, page = tabs[b], NEW next, next = tabs'[b], NEW first,
           first = Head(turns[t].wire)
    PROVE  /\ \A x \in Tabs : x # b => tabs'[x] = tabs[x]
           /\ first = "conversation" /\ page.conversation = turns[t].asked =>
                Adopts(page, next, turns[t].conversation)
           /\ first = "token" => GetsToken(page, next, t)
           /\ first = "done" => GetsAnswer(page, next)
<1>1. tabs \in [Tabs -> Tab] /\ page \in Tab
  BY TurnFacts
<1>2. first \in Event
  <2>1. turns[t].wire \in Seq(Event) /\ turns[t].wire # <<>>
    BY TurnFacts DEF Deliver, TurnRecord
  <2> QED  BY <2>1
<1>3. CASE first = "conversation"
  <2>1. tabs' = OnConversation(t)
    BY <1>3 DEF Deliver
  <2>2. \/ tabs' = tabs /\ turns[t].conversation = turns[t].asked
        \/ tabs' = [tabs EXCEPT ![b] = [page EXCEPT !.conversation = turns[t].conversation]]
    BY <1>1, <2>1 DEF OnConversation
  <2>3. CASE tabs' = tabs /\ turns[t].conversation = turns[t].asked
    BY <1>1, <1>3, <2>3 DEF Adopts
  <2>4. CASE tabs' = [tabs EXCEPT ![b] = [page EXCEPT !.conversation = turns[t].conversation]]
    BY <1>1, <1>3, <2>4 DEF Tab, Adopts
  <2> QED  BY <2>2, <2>3, <2>4
<1>4. CASE first = "token"
  <2> PICK text : text = Append(page.streamingText, t)
    OBVIOUS
  <2>1. tabs' = OnToken(t)
    BY <1>4 DEF Deliver
  <2>2. tabs' = [tabs EXCEPT ![b] = [page EXCEPT !.streamingText = text]]
    BY <1>1, <2>1 DEF OnToken
  <2> QED  BY <1>1, <1>4, <2>2 DEF Tab, GetsToken
<1>5. CASE first \in {"done", "error"}
  <2> PICK shown : shown = Append(page.messages, Answer(page.streamingText))
    OBVIOUS
  <2>1. tabs' = FinishStreaming(b)
    BY <1>5 DEF Deliver, OnError
  <2>2. tabs' = [tabs EXCEPT ![b] = [page EXCEPT !.messages = shown, !.isStreaming = FALSE,
                                                 !.streamingText = <<>>]]
    BY <1>1, <2>1 DEF FinishStreaming
  <2> QED  BY <1>1, <1>5, <2>2 DEF Tab, GetsAnswer
<1> QED
  BY <1>2, <1>3, <1>4, <1>5 DEF Event

LEMMA DeliverScreens ==
    ASSUME ServerInv, Screens, NEW t \in DOMAIN turns, Deliver(t)
    PROVE  Screens'
<1> PICK q : q = turns[t]
  OBVIOUS
<1> PICK b : b = q.tab
  OBVIOUS
<1> PICK c : c = q.conversation
  OBVIOUS
<1>0. PICK new : Delivers(q, b, c, t, new)
  BY EventArrives
<1> PICK page : page = tabs[b]
  OBVIOUS
<1> PICK next : next = tabs'[b]
  OBVIOUS
<1> PICK earlier : earlier = Others(c, t)
  OBVIOUS
<1> PICK own : own = Own(b, c)
  OBVIOUS
<1>11. /\ new.tab = b /\ new.tenant = q.tenant /\ new.at = q.at /\ new.conversation = c
       /\ new.stamp = q.stamp /\ new.saved = q.saved /\ new.listening
  BY <1>0 DEF Delivers, Arrives
<1>1. /\ b \in Tabs /\ PageOK(b) /\ t \in Active(b) /\ q.at \in Stage /\ q.wire # <<>>
      /\ page.tenant = q.tenant
      /\ Waiting(page, q, t, earlier, own)
      /\ turns' = [turns EXCEPT ![t] = new] /\ UNCHANGED conversations
      /\ Arrives(q, new) /\ new.listening
      /\ c # NoConversation =>
           c \in DOMAIN conversations /\ conversations[c].tenant = q.tenant
      /\ q.at = "closed" => q.saved
      /\ Ordered(c)' = Ordered(c) /\ (Own(b, c)' <=> own)
      /\ Earlier(t)' = earlier /\ About(new) = c
  BY <1>0 DEF Delivers
<1> PICK first : first = Head(q.wire)
  OBVIOUS
<1>2. /\ \A x \in Tabs : x # b => tabs'[x] = tabs[x]
      /\ first = "conversation" /\ page.conversation = q.asked => Adopts(page, next, c)
      /\ first = "token" => GetsToken(page, next, t)
      /\ first = "done" => GetsAnswer(page, next)
  BY <1>1, EventShown
<1>3. first \in {"conversation", "token", "done"}
  BY <1>1, Heads DEF Waiting
<1>4. \A d \in DOMAIN conversations :
        d \in DOMAIN conversations' /\ conversations'[d].tenant = conversations[d].tenant
  BY <1>1
<1>5. page.conversation # NoConversation =>
        /\ page.conversation \in DOMAIN conversations
        /\ conversations[page.conversation].tenant = page.tenant
  BY <1>1 DEF PageOK
<1>6. ASSUME next.tenant = page.tenant, next.conversation \in {c, page.conversation},
             new.at # "closed" \/ new.wire # <<>>,
             Waiting(next, new, t, earlier, own)
      PROVE  PageOK(b)'
  <2>1. Waiting(tabs'[b], new, t, Earlier(t)', Own(b, About(new))')
    BY <1>1, <1>6, WaitStays
  <2>2. tabs'[b].conversation # NoConversation =>
          /\ tabs'[b].conversation \in DOMAIN conversations'
          /\ conversations'[tabs'[b].conversation].tenant = tabs'[b].tenant
    BY <1>1, <1>5, <1>6
  <2> QED  BY <1>1, <1>6, <1>11, <2>1, <2>2, StillWaits
<1>7. ASSUME first = "conversation"  PROVE PageOK(b)'
  <2>1. page.conversation = q.asked
    <3>1. ~Adopted(q)
      BY <1>1, <1>7 DEF Adopted
    <3> QED  BY <1>1, <3>1 DEF Waiting
  <2>2. Waiting(next, new, t, earlier, own) /\ (new.at = "closed" => new.wire # <<>>)
    BY <1>1, <1>2, <1>7, <2>1, WaitConversation
  <2>3. next.tenant = page.tenant /\ next.conversation = c
    BY <1>2, <1>7, <2>1 DEF Adopts
  <2> QED  BY <1>6, <2>2, <2>3, Zenon
<1>8. ASSUME first = "token"  PROVE PageOK(b)'
  <2>1. Waiting(next, new, t, earlier, own) /\ (new.at = "closed" => new.wire # <<>>)
    BY <1>1, <1>2, <1>8, WaitToken
  <2>2. next.tenant = page.tenant /\ next.conversation = page.conversation
    BY <1>2, <1>8 DEF GetsToken
  <2> QED  BY <1>6, <2>1, <2>2, Zenon
<1>9. ASSUME first = "done"  PROVE PageOK(b)'
  <2>1. t \in Turn /\ earlier \in Seq(Turn)
    <3>1. TurnsOf(c) \ {t} \in SUBSET {u \in DOMAIN turns : turns[u].saved}
      BY DEF TurnsOf
    <3> QED  BY <3>1, OrderTypes, TurnFacts DEF Others, Turn
  <2>2. /\ new.wire = <<>> /\ next.conversation = c /\ q.at \in {"commit", "closed"}
        /\ q.at = "commit" => Waiting(next, new, t, earlier, own)
        /\ Settled(next, Append(earlier, t), own)
    <3>1. GetsAnswer(page, next) /\ Head(q.wire) = "done"
      BY <1>2, <1>9
    <3>2. Arrives(q, new) /\ q.conversation = c /\ q.at \in Stage /\ q.wire # <<>>
          /\ Waiting(page, q, t, earlier, own)
      BY <1>1
    <3>3. Answered(next, new, q, t, earlier, own)
      BY <2>1, <3>1, <3>2, WaitDone
    <3> QED  BY <3>2, <3>3 DEF Answered
  <2>3. CASE q.at = "commit"
    <3>1. next.tenant = page.tenant
      BY <1>2, <1>9 DEF GetsAnswer
    <3>2. new.at # "closed" /\ Waiting(next, new, t, earlier, own)
      BY <1>11, <2>2, <2>3
    <3> QED  BY <1>6, <2>2, <3>1, <3>2, Zenon
  <2>4. CASE q.at = "closed"
    <3>1. own => Ordered(c) = Append(earlier, t)
      <4> SUFFICES ASSUME own
                   PROVE  Ordered(c) = Append(earlier, t)
        OBVIOUS
      <4>1. q.saved /\ q.stamp > 0
        BY <1>1, <2>4, TurnFacts DEF TurnOK
      <4>2. \A u \in TurnsOf(c) : u \in DOMAIN turns /\ turns[u].tab = b
        BY DEF Own, TurnsOf
      <4>3. \A u \in TurnsOf(c) : u # t => turns[u].stamp < turns[t].stamp
        BY <1>1, <4>1, <4>2 DEF PageOK
      <4> QED  BY <4>1, <4>3, SavedIsLast
    <3>2. Settled(tabs[b], Ordered(tabs[b].conversation), Own(b, tabs[b].conversation))'
      <4>1. tabs'[b].conversation = c /\ tabs'[b] = next
        BY <2>2
      <4>2. Own(b, tabs[b].conversation)' <=> own
        BY <1>1, <4>1
      <4>3. Ordered(tabs[b].conversation)' = Ordered(c)
        BY <1>1, <4>1
      <4> QED  BY <2>2, <3>1, <4>1, <4>2, <4>3 DEF Settled
    <3>3. tabs'[b].conversation # NoConversation =>
            /\ tabs'[b].conversation \in DOMAIN conversations'
            /\ conversations'[tabs'[b].conversation].tenant = tabs'[b].tenant
      BY <1>1, <1>2, <1>9, <2>2 DEF GetsAnswer
    <3>4. next.tenant = page.tenant /\ new.at = "closed"
      BY <1>2, <1>9, <1>11, <2>4 DEF GetsAnswer
    <3>5. new.wire = <<>> /\ tabs'[b].tenant = tabs[b].tenant
      BY <2>2, <3>4
    <3> QED  BY <1>1, <1>11, <3>2, <3>3, <3>4, <3>5, WaitsNoMore
  <2> QED  BY <2>2, <2>3, <2>4
<1>10. PageOK(b)'
  BY <1>3, <1>7, <1>8, <1>9, Zenon
<1>12. new.at = "closed" => new.saved
  BY <1>1, <1>11
<1> QED
  BY <1>1, <1>2, <1>4, <1>10, <1>11, <1>12, ScreensMove

-----------------------------------------------------------------------------
(* What the user does                                                        *)

\* A user who waits acts when everything of the page has ended.
LEMMA UserWaits ==
    ASSUME ServerInv, Screens, NEW b \in Tabs, NEW kind \in {"turns", "opens", "switches"},
           Acts(b, kind), Calm'
    PROVE  /\ kind # "switches" /\ PageOK(b) /\ Active(b) = {}
           /\ ~tabs[b].isStreaming /\ tabs[b].opening = <<>>
           /\ Own(b, tabs[b].conversation) =>
                tabs[b].messages = Bubbles(Ordered(tabs[b].conversation))
<1>1. budget'.happened = budget.happened
                \union (IF kind = "switches" THEN {kind} ELSE {})
                \union (IF Busy(b) THEN {"haste"} ELSE {})
  BY ActsTypes DEF ServerInv, TypeOK, ServerTypeOK
<1>2. ~Busy(b) /\ kind # "switches"
  BY <1>1 DEF Calm
<1>3. ~tabs[b].isStreaming /\ tabs[b].opening = <<>> /\ Active(b) = {}
  BY <1>2 DEF Busy, Active
<1>4. PageOK(b)
  BY DEF Screens
<1>5. Settled(tabs[b], Ordered(tabs[b].conversation), Own(b, tabs[b].conversation))
  BY <1>3, <1>4 DEF PageOK
<1>6. Own(b, tabs[b].conversation) =>
        tabs[b].messages = Bubbles(Ordered(tabs[b].conversation))
  <2>1. ~(Len(<<>>) = 1)
    OBVIOUS
  <2> QED  BY <1>3, <1>5, <2>1 DEF Settled
<1> QED
  BY <1>2, <1>3, <1>4, <1>6

\* A step of one page that waits for nothing, while the turns stay.
LEMMA PageAlone ==
    ASSUME ServerInv, Screens, NEW b \in Tabs, UNCHANGED <<conversations, turns>>,
           \A x \in Tabs : x # b => tabs'[x] = tabs[x],
           NEW next, next = tabs'[b], next.tenant = tabs[b].tenant, Active(b) = {},
           NEW c, c = next.conversation,
           c # NoConversation =>
             c \in DOMAIN conversations /\ conversations[c].tenant = next.tenant,
           Settled(next, Ordered(c), Own(b, c))
    PROVE  Screens'
<1>1. Kept /\ NothingSaved
  BY DEF Kept, NothingSaved
<1>2. ASSUME NEW x \in Tabs, x # b  PROVE PageOK(x)'
  <2>1. Untouched(x)
    BY <1>2 DEF Untouched
  <2> QED  BY <1>1, <2>1, PageStays DEF Screens
<1>3. TurnsEnd'
  BY DEF Screens, TurnsEnd
<1>4. Ordered(c)' = Ordered(c) /\ (Own(b, c)' <=> Own(b, c))
  BY <1>1, SavedSame
<1>5. Settled(tabs[b], Ordered(tabs[b].conversation), Own(b, tabs[b].conversation))'
  <2>1. tabs'[b] = next /\ tabs'[b].conversation = c
    OBVIOUS
  <2>2. Own(b, tabs[b].conversation)' <=> Own(b, c)
    BY <1>4, <2>1
  <2>3. Ordered(tabs[b].conversation)' = Ordered(c)
    BY <1>4, <2>1
  <2> QED  BY <2>1, <2>2, <2>3 DEF Settled
<1>6. TurnsFrom(b)' = TurnsFrom(b) /\ Active(b)' = {}
  BY DEF TurnsFrom, Active
<1>7. \A t \in TurnsFrom(b)' : turns'[t].tenant = tabs'[b].tenant
  BY <1>6 DEF Screens, PageOK
<1>8. PageOK(b)'
  BY <1>5, <1>6, <1>7 DEF PageOK
<1> QED
  BY <1>2, <1>3, <1>8 DEF Screens

\* Nothing was ever said in no conversation.
LEMMA NothingSaid ==
    ASSUME ServerInv
    PROVE  Bubbles(Ordered(NoConversation)) = <<>>
<1>1. TurnsOf(NoConversation) = {}
  BY TurnFacts DEF TurnsOf, TurnOK
<1>2. Ordered(NoConversation) \in Seq({})
  BY <1>1, OrderedTypes
<1> PICK order : order = Ordered(NoConversation)
  OBVIOUS
<1>3. Len(order) = 0 /\ order \in Seq(Turn)
  <2>1. order \in Seq({})
    BY <1>2
  <2>2. Len(order) \in Nat /\ (Len(order) # 0 => order[1] \in {})
    BY <2>1
  <2> QED  BY <2>2, OrderedTypes
<1>4. Bubbles(order) \in Seq(Bubble) /\ Len(Bubbles(order)) = 0
  <2>1. Bubbles(order) \in Seq(Bubble) /\ Len(Bubbles(order)) = 2 * Len(order)
    BY <1>3, BubblesType
  <2> QED  BY <1>3, <2>1
<1>5. Bubbles(order) = <<>>
  BY <1>4, EmptySeq
<1> QED  BY <1>5

LEMMA SendScreens ==
    ASSUME ServerInv, Screens, NEW b \in Tabs, Send(b), Calm'
    PROVE  Screens'
<1> PICK page : page = tabs[b]
  OBVIOUS
<1> PICK c : c = page.conversation
  OBVIOUS
<1> PICK n : n = Len(turns) + 1
  OBVIOUS
<1> PICK q : q = Sent(b, page.tenant, c)
  OBVIOUS
<1>1. /\ PageOK(b) /\ Active(b) = {} /\ ~page.isStreaming /\ page.opening = <<>>
      /\ Own(b, c) => page.messages = Bubbles(Ordered(c))
  BY UserWaits DEF Send
<1>2. /\ tabs \in [Tabs -> Tab] /\ page \in Tab /\ turns \in Seq(TurnRecord)
      /\ n \notin DOMAIN turns
  BY TabTypes DEF ServerInv, TypeOK, ServerTypeOK
<1>3. turns' = Append(turns, q) /\ UNCHANGED <<conversations, clock>>
  BY DEF Send
<1>4. /\ DOMAIN turns' = DOMAIN turns \union {n} /\ turns'[n] = q
      /\ \A t \in DOMAIN turns : turns'[t] = turns[t]
  BY <1>2, <1>3
<1>5. /\ q.tab = b /\ q.tenant = page.tenant /\ q.asked = c /\ q.at = "sent" /\ q.stamp = 0
      /\ ~q.saved /\ q.listening /\ q.wire = <<>> /\ About(q) = c
  BY DEF Sent, About
<1> PICK next : next = tabs'[b]
  OBVIOUS
<1>6. /\ \A x \in Tabs : x # b => tabs'[x] = tabs[x]
      /\ next.tenant = page.tenant /\ next.conversation = c /\ next.opening = <<>>
      /\ next.messages = Append(page.messages, Question(n))
      /\ next.isStreaming /\ next.isStreaming = TRUE /\ next.streamingText = <<>>
  <2> PICK shown : shown = Append(page.messages, Question(n))
    OBVIOUS
  <2>1. tabs' = [tabs EXCEPT ![b] = [page EXCEPT !.messages = shown, !.isStreaming = TRUE,
                                                 !.streamingText = <<>>]]
    BY <1>2 DEF Send
  <2> QED  BY <1>1, <1>2, <2>1 DEF Tab
<1>7. Kept /\ NothingSaved
  BY <1>3, <1>4, <1>5 DEF Kept, NothingSaved
<1>8. ASSUME NEW x \in Tabs, x # b  PROVE PageOK(x)'
  <2>1. Untouched(x)
    BY <1>4, <1>5, <1>6, <1>8 DEF Untouched
  <2> QED  BY <1>7, <2>1, PageStays DEF Screens
<1>9. TurnsEnd'
  BY <1>4, <1>5 DEF Screens, TurnsEnd
<1>10. TurnsFrom(b)' = TurnsFrom(b) \union {n} /\ Active(b)' = {n}
  <2>1. TurnsFrom(b)' = TurnsFrom(b) \union {n}
    BY <1>4, <1>5 DEF TurnsFrom
  <2>2. \A t \in TurnsFrom(b) : t # n /\ turns'[t] = turns[t]
    BY <1>2, <1>4 DEF TurnsFrom
  <2> QED  BY <1>1, <1>4, <1>5, <2>1, <2>2 DEF Active
<1>11. Earlier(n)' = Ordered(c) /\ (Own(b, About(turns[n]))' <=> Own(b, c))
  <2>1. About(turns'[n]) = c
    BY <1>4, <1>5
  <2>2. Earlier(n)' = Others(c, n)'
    BY <2>1 DEF Earlier, Others
  <2>3. Others(c, n)' = Others(c, n) /\ (Own(b, c)' <=> Own(b, c))
    BY <1>7, SavedSame
  <2>4. TurnsOf(c) \ {n} = TurnsOf(c)
    BY <1>2 DEF TurnsOf
  <2>5. Others(c, n) = Ordered(c)
    BY <2>4 DEF Others, Ordered
  <2>6. Own(b, About(turns[n]))' <=> Own(b, c)'
    BY <2>1
  <2> QED  BY <2>2, <2>3, <2>5, <2>6
<1>12. Waiting(next, q, n, Ordered(c), Own(b, c))
  <2>1. ~Adopted(q) /\ ~HasToken(q) /\ ~Finished(q)
    <3>1. <<>> # <<"done">>
      BY WireHeads
    <3> QED  BY <1>5, <3>1 DEF Adopted, HasToken, Finished
  <2>2. q.wire \in OnTheWay(q.at)
    BY <1>5 DEF OnTheWay
  <2> QED  BY <1>1, <1>5, <1>6, <2>1, <2>2 DEF Waiting
<1>13. PageOK(b)'
  <2>1. \A t \in TurnsFrom(b)' : turns'[t].tenant = tabs'[b].tenant
    <3>1. \A t \in TurnsFrom(b) : t \in DOMAIN turns /\ turns[t].tenant = page.tenant
      BY <1>1 DEF PageOK, TurnsFrom
    <3> QED  BY <1>4, <1>5, <1>6, <1>10, <3>1
  <2>2. tabs'[b].conversation # NoConversation =>
          /\ tabs'[b].conversation \in DOMAIN conversations'
          /\ conversations'[tabs'[b].conversation].tenant = tabs'[b].tenant
    BY <1>1, <1>3, <1>6 DEF PageOK
  <2>3. \A t \in Active(b)' : ~(turns'[t].stamp > 0)
    BY <1>4, <1>5, <1>10
  <2>4. \A t, u \in Active(b)' : t = u
    BY <1>10
  <2>5. \A t \in Active(b)' :
          Waiting(tabs[b], turns[t], t, Earlier(t), Own(b, About(turns[t])))'
    <3> SUFFICES Waiting(tabs[b], turns[n], n, Earlier(n), Own(b, About(turns[n])))'
      BY <1>10
    <3>1. tabs'[b] = next /\ turns'[n] = q
      BY <1>4
    <3> QED  BY <1>11, <1>12, <3>1, WaitStays
  <2> QED  BY <1>10, <2>1, <2>2, <2>3, <2>4, <2>5 DEF PageOK
<1> QED
  BY <1>8, <1>9, <1>13 DEF Screens

LEMMA OpenScreens ==
    ASSUME ServerInv, Screens, NEW b \in Tabs, NEW c \in DOMAIN conversations, Open(b, c), Calm'
    PROVE  Screens'
<1> PICK page : page = tabs[b]
  OBVIOUS
<1> PICK next : next = tabs'[b]
  OBVIOUS
<1> PICK row : row = [conversation |-> c, answered |-> FALSE, bubbles |-> <<>>]
  OBVIOUS
<1>1. Active(b) = {} /\ ~page.isStreaming /\ page.opening = <<>>
  BY UserWaits DEF Open
<1>2. tabs \in [Tabs -> Tab] /\ page \in Tab
  BY TabTypes DEF ServerInv, TypeOK, ServerTypeOK
<1>3. tabs' = [tabs EXCEPT ![b] = [page EXCEPT !.conversation = c, !.opening = <<row>>]]
  <2>1. Append(page.opening, row) = <<row>>
    BY <1>1, AppendSecond
  <2>2. tabs' = [tabs EXCEPT ![b] = [page EXCEPT !.conversation = c,
                                       !.opening = Append(page.opening, row)]]
    BY <1>2 DEF Open
  <2> QED  BY <2>1, <2>2
<1>4. /\ \A x \in Tabs : x # b => tabs'[x] = tabs[x]
      /\ next.tenant = page.tenant /\ next.conversation = c /\ next.opening = <<row>>
      /\ ~next.isStreaming
  <2> PICK opening : opening = <<row>>
    OBVIOUS
  <2> QED  BY <1>1, <1>2, <1>3 DEF Tab
<1>5. Settled(next, Ordered(c), Own(b, c))
  <2>1. Len(<<row>>) = 1 /\ <<row>>[1] = row
    OBVIOUS
  <2>2. row.conversation = c /\ ~row.answered
    OBVIOUS
  <2> QED  BY <1>4, <2>1, <2>2 DEF Settled
<1>6. conversations[c].tenant = next.tenant /\ UNCHANGED <<conversations, turns>>
  BY <1>4 DEF Open, Listed
<1> QED
  BY <1>1, <1>4, <1>5, <1>6, PageAlone

\* The only thing that can be under way on a page that waits for no turn.
LEMMA OneOpening ==
    ASSUME ServerInv, Screens, NEW b \in Tabs, NEW i \in DOMAIN tabs[b].opening,
           NEW page, page = tabs[b], NEW c, c = page.conversation
    PROVE  /\ Active(b) = {} /\ ~page.isStreaming /\ i = 1 /\ PageOK(b)
           /\ page.opening \in Seq(Opening) /\ Len(page.opening) = 1
           /\ page.opening[1].conversation = c
           /\ page.opening[1].answered /\ Own(b, c) =>
                page.opening[1].bubbles = Bubbles(Ordered(c))
<1>1. page.opening \in Seq(Opening) /\ page.opening # <<>>
  BY TabTypes DEF ServerInv, TypeOK, ServerTypeOK
<1>2. PageOK(b)
  BY DEF Screens
<1>3. Active(b) = {}
  BY <1>1, <1>2 DEF PageOK, Waiting
<1>4. Settled(page, Ordered(c), Own(b, c))
  BY <1>2, <1>3 DEF PageOK
<1>5. /\ ~page.isStreaming /\ Len(page.opening) = 1 /\ page.opening[1].conversation = c
      /\ page.opening[1].answered /\ Own(b, c) => page.opening[1].bubbles = Bubbles(Ordered(c))
  BY <1>1, <1>4 DEF Settled
<1> QED
  BY <1>1, <1>2, <1>3, <1>5

LEMMA FetchScreens ==
    ASSUME ServerInv, Screens, NEW b \in Tabs, NEW i \in DOMAIN tabs[b].opening, Fetch(b, i)
    PROVE  Screens'
<1> PICK page : page = tabs[b]
  OBVIOUS
<1> PICK next : next = tabs'[b]
  OBVIOUS
<1> PICK c : c = page.conversation
  OBVIOUS
<1>1. /\ Active(b) = {} /\ ~page.isStreaming /\ i = 1 /\ PageOK(b)
      /\ page.opening \in Seq(Opening) /\ Len(page.opening) = 1
      /\ page.opening[1].conversation = c
  BY OneOpening
<1>2. tabs \in [Tabs -> Tab] /\ page \in Tab
  BY TabTypes DEF ServerInv, TypeOK, ServerTypeOK
<1> PICK shown : shown = Bubbles(Ordered(c))
  OBVIOUS
<1> PICK row : row = [page.opening[1] EXCEPT !.answered = TRUE, !.bubbles = shown]
  OBVIOUS
<1> PICK opening : opening = [page.opening EXCEPT ![1] = row]
  OBVIOUS
<1>3. tabs' = [tabs EXCEPT ![b] = [page EXCEPT !.opening = opening]]
  BY ZenonT(60), <1>1, <1>2 DEF Fetch
<1>4. row.conversation = c /\ row.answered /\ row.bubbles = shown
  <2>1. page.opening[1] \in Opening
    BY <1>1
  <2> QED  BY <1>1, <2>1 DEF Opening
<1>5. Len(opening) = 1 /\ opening[1] = row
  BY <1>1
<1>6. /\ \A x \in Tabs : x # b => tabs'[x] = tabs[x]
      /\ next.tenant = page.tenant /\ next.conversation = c /\ next.opening = opening
      /\ ~next.isStreaming
  BY <1>1, <1>2, <1>3 DEF Tab
<1>7. Settled(next, Ordered(c), Own(b, c))
  BY <1>4, <1>5, <1>6 DEF Settled
<1>8. /\ UNCHANGED <<conversations, turns>>
      /\ c # NoConversation =>
           c \in DOMAIN conversations /\ conversations[c].tenant = next.tenant
  BY <1>1, <1>6 DEF Fetch, serverVars, PageOK
<1> QED
  BY <1>1, <1>6, <1>7, <1>8, PageAlone

LEMMA LoadScreens ==
    ASSUME ServerInv, Screens, NEW b \in Tabs, NEW i \in DOMAIN tabs[b].opening, Load(b, i)
    PROVE  Screens'
<1> PICK page : page = tabs[b]
  OBVIOUS
<1> PICK next : next = tabs'[b]
  OBVIOUS
<1> PICK c : c = page.conversation
  OBVIOUS
<1>1. /\ Active(b) = {} /\ ~page.isStreaming /\ i = 1 /\ PageOK(b)
      /\ page.opening \in Seq(Opening) /\ Len(page.opening) = 1
      /\ page.opening[1].answered /\ Own(b, c) =>
           page.opening[1].bubbles = Bubbles(Ordered(c))
  BY OneOpening
<1>2. tabs \in [Tabs -> Tab] /\ page \in Tab
  BY TabTypes DEF ServerInv, TypeOK, ServerTypeOK
<1>3. RemoveAt(page.opening, 1) = <<>>
  <2> PICK old : old = page.opening
    OBVIOUS
  <2>1. old \in Seq(Opening) /\ Len(old) = 1
    BY <1>1
  <2>2. /\ SubSeq(old, 1, 0) \in Seq(Opening) /\ Len(SubSeq(old, 1, 0)) = 0
        /\ SubSeq(old, 2, 1) \in Seq(Opening) /\ Len(SubSeq(old, 2, 1)) = 0
    BY <2>1
  <2>3. SubSeq(old, 1, 0) = <<>> /\ SubSeq(old, 2, 1) = <<>>
    BY <2>2, EmptySeq
  <2>4. RemoveAt(old, 1) = SubSeq(old, 1, 0) \o SubSeq(old, 2, 1)
    BY <2>1 DEF RemoveAt
  <2>5. <<>> \o <<>> = <<>>
    OBVIOUS
  <2> QED  BY <2>3, <2>4, <2>5
<1> PICK shown : shown = page.opening[1].bubbles
  OBVIOUS
<1>4. tabs' = [tabs EXCEPT ![b] = [page EXCEPT !.messages = shown, !.opening = <<>>]]
  <2>1. tabs' = [tabs EXCEPT ![b] = [page EXCEPT !.messages = shown,
                                                 !.opening = RemoveAt(page.opening, 1)]]
    BY <1>1, <1>2 DEF Load
  <2> QED  BY <1>3, <2>1
<1>5. /\ \A x \in Tabs : x # b => tabs'[x] = tabs[x]
      /\ next.tenant = page.tenant /\ next.conversation = c /\ next.opening = <<>>
      /\ next.messages = shown /\ ~next.isStreaming
  BY <1>1, <1>2, <1>4 DEF Tab
<1>6. page.opening[1].answered
  BY <1>1 DEF Load
<1>7. Settled(next, Ordered(c), Own(b, c))
  BY <1>1, <1>5, <1>6 DEF Settled
<1>8. /\ UNCHANGED <<conversations, turns>>
      /\ c # NoConversation =>
           c \in DOMAIN conversations /\ conversations[c].tenant = next.tenant
  BY <1>1, <1>5 DEF Load, serverVars, PageOK
<1> QED
  BY <1>1, <1>5, <1>7, <1>8, PageAlone

LEMMA StartNewScreens ==
    ASSUME ServerInv, Screens, NEW b \in Tabs, StartNew(b), Calm'
    PROVE  Screens'
<1> PICK page : page = tabs[b]
  OBVIOUS
<1> PICK next : next = tabs'[b]
  OBVIOUS
<1>1. Active(b) = {} /\ ~page.isStreaming /\ page.opening = <<>>
  BY UserWaits DEF StartNew
<1>2. tabs \in [Tabs -> Tab] /\ page \in Tab
  BY TabTypes DEF ServerInv, TypeOK, ServerTypeOK
<1>3. tabs' = [tabs EXCEPT ![b] = [page EXCEPT !.conversation = NoConversation,
                                     !.messages = <<>>, !.streamingText = <<>>]]
  BY <1>2 DEF StartNew
<1>4. /\ \A x \in Tabs : x # b => tabs'[x] = tabs[x]
      /\ next.tenant = page.tenant /\ next.conversation = NoConversation
      /\ next.opening = <<>> /\ next.messages = <<>> /\ ~next.isStreaming
  BY <1>1, <1>2, <1>3 DEF Tab
<1>5. Settled(next, Ordered(NoConversation), Own(b, NoConversation))
  BY <1>4, NothingSaid DEF Settled
<1>6. UNCHANGED <<conversations, turns>>
  BY DEF StartNew
<1> QED
  BY <1>1, <1>4, <1>5, <1>6, PageAlone

LEMMA ReloadScreens ==
    ASSUME ServerInv, Screens, NEW b \in Tabs, Reload(b), Calm'
    PROVE  Screens'
<1> PICK page : page = tabs[b]
  OBVIOUS
<1> PICK next : next = NewPage(page.tenant)
  OBVIOUS
<1>1. Active(b) = {} /\ PageOK(b)
  BY UserWaits DEF Reload
<1>2. tabs \in [Tabs -> Tab] /\ turns \in Seq(TurnRecord)
  BY DEF ServerInv, TypeOK, ServerTypeOK
<1>3. /\ UNCHANGED <<conversations, clock>> /\ tabs' = [tabs EXCEPT ![b] = next]
      /\ turns' = [t \in DOMAIN turns |->
                     IF turns[t].tab = b THEN [turns[t] EXCEPT !.listening = FALSE]
                     ELSE turns[t]]
  BY DEF Reload
<1>4. /\ tabs'[b] = next /\ \A x \in Tabs : x # b => tabs'[x] = tabs[x]
      /\ next.tenant = page.tenant /\ next.conversation = NoConversation
      /\ next.messages = <<>> /\ ~next.isStreaming /\ next.opening = <<>>
  BY <1>2, <1>3 DEF NewPage
<1>5. DOMAIN turns' = DOMAIN turns
  BY <1>3
<1>6. ASSUME NEW t \in DOMAIN turns
      PROVE  /\ turns'[t].tab = turns[t].tab /\ turns'[t].at = turns[t].at
             /\ turns'[t].saved = turns[t].saved /\ turns'[t].stamp = turns[t].stamp
             /\ turns'[t].conversation = turns[t].conversation
             /\ turns[t].tab = b => ~turns'[t].listening
             /\ turns[t].tab # b => turns'[t] = turns[t]
  <2> PICK q : q = turns[t]
    OBVIOUS
  <2>1. q \in TurnRecord
    BY <1>2
  <2>2. turns'[t] = IF q.tab = b THEN [q EXCEPT !.listening = FALSE] ELSE q
    BY <1>3
  <2> QED  BY <2>1, <2>2 DEF TurnRecord
<1> HIDE DEF Reload
<1>7. Kept /\ NothingSaved
  BY <1>3, <1>5, <1>6 DEF Kept, NothingSaved
<1>8. ASSUME NEW x \in Tabs, x # b  PROVE PageOK(x)'
  <2>1. Untouched(x)
    BY <1>4, <1>5, <1>6, <1>8 DEF Untouched
  <2> QED  BY <1>7, <2>1, PageStays DEF Screens
<1>9. TurnsEnd'
  <2> SUFFICES ASSUME NEW t \in DOMAIN turns
               PROVE  /\ turns'[t].at # "closed" => turns'[t].listening
                      /\ turns'[t].at = "closed" => turns'[t].saved
    BY <1>5 DEF TurnsEnd
  <2>1. /\ turns[t].at # "closed" => turns[t].listening
        /\ turns[t].at = "closed" => turns[t].saved
    BY DEF Screens, TurnsEnd
  <2>2. turns[t].tab = b => turns[t].at = "closed"
    BY <1>1, <2>1 DEF Active, TurnsFrom
  <2> QED  BY <1>6, <2>1, <2>2
<1>10. TurnsFrom(b)' = {} /\ Active(b)' = {}
  <2>1. TurnsFrom(b)' = {}
    BY <1>5, <1>6 DEF TurnsFrom
  <2> QED  BY <2>1 DEF Active
<1>11. Settled(tabs[b], Ordered(tabs[b].conversation), Own(b, tabs[b].conversation))'
  <2>1. tabs'[b].conversation = NoConversation
    BY <1>4
  <2>2. Ordered(tabs[b].conversation)' = Ordered(NoConversation)'
    BY <2>1
  <2>3. Ordered(NoConversation)' = Ordered(NoConversation)
    BY <1>7, SavedSame
  <2>4. Bubbles(Ordered(tabs[b].conversation))' = <<>>
    BY <2>2, <2>3, NothingSaid
  <2> QED  BY <1>4, <2>4 DEF Settled
<1>12. PageOK(b)'
  BY <1>4, <1>10, <1>11 DEF PageOK
<1> QED
  BY <1>8, <1>9, <1>12 DEF Screens

\* Nothing that the pages know of changes.
LEMMA NothingScreens ==
    ASSUME Screens, UNCHANGED <<turns, tabs>>, DOMAIN conversations' = DOMAIN conversations,
           \A c \in DOMAIN conversations : conversations'[c].tenant = conversations[c].tenant
    PROVE  Screens'
<1>1. Kept
  BY DEF Kept
<1>2. ASSUME NEW x \in Tabs  PROVE PageOK(x)'
  <2>1. Untouched(x)
    BY DEF Untouched
  <2> QED  BY <1>1, <2>1, PageStays DEF Screens
<1> QED
  BY <1>2 DEF Screens, TurnsEnd

\* Troubles are not forgotten.
LEMMA HappenedGrows ==
    ASSUME ServerInv, [Next]_vars
    PROVE  budget.happened \subseteq budget'.happened
<1>1. budget \in Budget
  BY DEF ServerInv, TypeOK, ServerTypeOK
<1>2. CASE UNCHANGED budget
  BY <1>2
<1>3. ASSUME Spend({"errors"})  PROVE budget.happened \subseteq budget'.happened
  BY <1>1, <1>3, SpendTypes
<1>4. ASSUME Spend({"renames"})  PROVE budget.happened \subseteq budget'.happened
  BY <1>1, <1>4, SpendTypes
<1>5. ASSUME NEW b \in Tabs, NEW kind \in {"turns", "opens", "switches"}, Acts(b, kind)
      PROVE  budget.happened \subseteq budget'.happened
  BY <1>1, <1>5, ActsTypes
<1>6. ASSUME NEW t \in DOMAIN turns, Answering(t) \/ Deliver(t)
      PROVE  UNCHANGED budget
  BY <1>6 DEF Answering, Post, Hit, LoadHistory, Stream, AppendMessages, Commit, Deliver
<1>7. ASSUME NEW t \in DOMAIN turns, Fail(t)
      PROVE  budget.happened \subseteq budget'.happened
  BY <1>3, <1>7 DEF Fail
<1>8. ASSUME NEW b \in Tabs, Send(b) \/ StartNew(b) \/ Reload(b)
      PROVE  budget.happened \subseteq budget'.happened
  BY <1>5, <1>8 DEF Send, StartNew, Reload
<1>9. ASSUME NEW b \in Tabs, NEW c, Open(b, c) \/ SetApiKey(b, c)
      PROVE  budget.happened \subseteq budget'.happened
  BY <1>5, <1>9 DEF Open, SetApiKey
<1>10. ASSUME NEW b \in Tabs, NEW i, Fetch(b, i) \/ Load(b, i) \/ LoadFails(b, i)
       PROVE  budget.happened \subseteq budget'.happened
  BY <1>3, <1>10 DEF Fetch, Load, LoadFails, serverVars
<1>11. ASSUME NEW c, NEW titled, Rename(c, titled)
       PROVE  budget.happened \subseteq budget'.happened
  BY <1>4, <1>11 DEF Rename
<1>12. CASE UNCHANGED vars
  BY <1>12 DEF vars, serverVars
<1> QED
  BY <1>6, <1>7, <1>8, <1>9, <1>10, <1>11, <1>12 DEF Next

LEMMA ScreensStep ==
    ASSUME ServerInv, Screens, [Next]_vars, Calm'
    PROVE  Screens'
<1>1. CASE UNCHANGED vars
  BY <1>1, NothingScreens DEF vars, serverVars
<1>2. ASSUME NEW t \in DOMAIN turns, Answering(t), UNCHANGED tabs
      PROVE  Screens'
  BY <1>2, PostScreens, AnswerScreens, CommitScreens DEF Answering
<1>3. ASSUME NEW t \in DOMAIN turns, Fail(t)
      PROVE  FALSE
  <2>1. turns[t].listening
    BY <1>3 DEF Fail, Screens, TurnsEnd
  <2>2. Spend({"errors"}) /\ budget \in Budget
    BY <1>3, <2>1 DEF Fail, ServerInv, TypeOK, ServerTypeOK
  <2>3. "errors" \in budget'.happened
    BY <2>2, SpendTypes DEF Trouble
  <2> QED  BY <2>3 DEF Calm
<1>4. ASSUME NEW t \in DOMAIN turns, Deliver(t)
      PROVE  Screens'
  BY <1>4, DeliverScreens
<1>5. ASSUME NEW b \in Tabs, Send(b) \/ StartNew(b) \/ Reload(b)
      PROVE  Screens'
  BY <1>5, SendScreens, StartNewScreens, ReloadScreens
<1>6. ASSUME NEW b \in Tabs, NEW c \in DOMAIN conversations, Open(b, c)
      PROVE  Screens'
  BY <1>6, OpenScreens
<1>7. ASSUME NEW b \in Tabs, NEW i \in DOMAIN tabs[b].opening, Fetch(b, i) \/ Load(b, i)
      PROVE  Screens'
  BY <1>7, FetchScreens, LoadScreens
<1>8. ASSUME NEW b \in Tabs, NEW i \in DOMAIN tabs[b].opening, LoadFails(b, i)
      PROVE  FALSE
  <2>1. Spend({"errors"}) /\ budget \in Budget
    BY <1>8 DEF LoadFails, ServerInv, TypeOK, ServerTypeOK
  <2>2. "errors" \in budget'.happened
    BY <2>1, SpendTypes DEF Trouble
  <2> QED  BY <2>2 DEF Calm
<1>9. ASSUME NEW b \in Tabs, NEW tenant \in Tenants, SetApiKey(b, tenant)
      PROVE  FALSE
  <2>1. Acts(b, "switches")
    BY <1>9 DEF SetApiKey
  <2> QED  BY <2>1, UserWaits
<1>10. ASSUME NEW b \in Tabs, NEW c \in Listed(tabs[b].tenant), NEW titled \in BOOLEAN,
              Rename(c, titled), UNCHANGED tabs
       PROVE  Screens'
  <2>1. c \in DOMAIN conversations
    BY DEF Listed
  <2> QED  BY <1>10, <2>1, RenameRows, NothingScreens
<1> QED
  BY <1>1, <1>2, <1>3, <1>4, <1>5, <1>6, <1>7, <1>8, <1>9, <1>10 DEF Next

LEMMA ScreenInvInit ==
    ASSUME Init
    PROVE  ScreenInv
<1>1. /\ ServerInv /\ turns = <<>> /\ \A b \in Tabs : \E tenant : tabs[b] = NewPage(tenant)
  BY ServerInvInit DEF Init, ServerInit
<1>2. TurnsEnd
  BY <1>1 DEF TurnsEnd
<1>3. ASSUME NEW b \in Tabs  PROVE PageOK(b)
  <2>1. tabs[b].conversation = NoConversation /\ tabs[b].messages = <<>>
        /\ ~tabs[b].isStreaming /\ tabs[b].opening = <<>>
    <3>1. PICK tenant : tabs[b] = NewPage(tenant)
      BY <1>1
    <3>2. /\ NewPage(tenant).conversation = NoConversation /\ NewPage(tenant).messages = <<>>
          /\ ~NewPage(tenant).isStreaming /\ NewPage(tenant).opening = <<>>
      BY DEF NewPage
    <3> QED  BY <3>1, <3>2
  <2>2. TurnsFrom(b) = {} /\ Active(b) = {}
    BY <1>1 DEF TurnsFrom, Active
  <2>3. Settled(tabs[b], Ordered(tabs[b].conversation), Own(b, tabs[b].conversation))
    <3>1. Bubbles(Ordered(tabs[b].conversation)) = <<>>
      BY <1>1, <2>1, NothingSaid
    <3> QED  BY <2>1, <3>1 DEF Settled
  <2> QED  BY <2>1, <2>2, <2>3 DEF PageOK
<1> QED
  BY <1>2, <1>3 DEF ScreenInv

LEMMA ScreenInvStep ==
    ASSUME ServerInv, ScreenInv, [Next]_vars
    PROVE  ScreenInv'
<1> SUFFICES ASSUME Calm'
             PROVE  Screens'
  BY DEF ScreenInv, Screens
<1>1. Calm
  BY HappenedGrows DEF Calm
<1>2. Screens
  BY <1>1 DEF ScreenInv, Screens
<1> QED
  BY <1>2, ScreensStep

\* Among users who wait, each page is at one place of one conversation: it waits
\* for the answer of one turn at most and shows, with what is on its way to it,
\* what the server has.
THEOREM ScreenInvAlways == Spec => []ScreenInv
<1>1. Init => ServerInv /\ ScreenInv
  BY ServerInvInit, ScreenInvInit
<1>2. ServerInv /\ ScreenInv /\ [Next]_vars => ServerInv' /\ ScreenInv'
  BY ServerInvStep, ScreenInvStep
<1> QED
  BY <1>1, <1>2, PTL DEF Spec

\* The page of a user who waits, when everything has ended, shows its
\* conversation as the server has it (openConversation, startNewConversation,
\* onConversation).
THEOREM ScreenMatchesHolds == Spec => []ScreenMatches
<1>1. ServerInv /\ ScreenInv => ScreenMatches
  <2> SUFFICES ASSUME ServerInv, ScreenInv, NEW b \in Tabs, Calm, ~Busy(b),
                      NEW c, c = tabs[b].conversation
               PROVE  IF c = NoConversation THEN tabs[b].messages = <<>>
                      ELSE Own(b, c) => tabs[b].messages = Bubbles(Ordered(c))
    BY DEF ScreenMatches
  <2>1. PageOK(b) /\ tabs[b].opening = <<>> /\ Active(b) = {}
    BY DEF ScreenInv, Busy, Active
  <2>2. Own(b, c) => tabs[b].messages = Bubbles(Ordered(c))
    <3>1. Settled(tabs[b], Ordered(c), Own(b, c))
      BY <2>1 DEF PageOK
    <3>2. ~(Len(<<>>) = 1)
      OBVIOUS
    <3> QED  BY <2>1, <3>1, <3>2 DEF Settled
  <2>3. CASE c = NoConversation
    <3>1. TurnsOf(NoConversation) = {}
      BY TurnFacts DEF TurnsOf, TurnOK
    <3>2. Own(b, c)
      BY <2>3, <3>1 DEF Own
    <3> QED  BY <2>2, <2>3, <3>2, NothingSaid
  <2> QED  BY <2>2, <2>3
<1> QED
  BY <1>1, ServerInvAlways, ScreenInvAlways, PTL

\* What the model is told before a question is what its sender sees above it
\* (load_history).
THEOREM ContextIsScreenHolds == Spec => []ContextIsScreen
<1>1. ServerInv /\ ScreenInv => ContextIsScreen
  <2> SUFFICES ASSUME ServerInv, ScreenInv, NEW t \in DOMAIN turns, Calm,
                      turns[t].at \in {"stream", "append"}, NEW b, b = turns[t].tab,
                      Own(b, turns[t].conversation)
               PROVE  tabs[b].messages = Append(Bubbles(turns[t].history), Question(t))
    BY DEF ContextIsScreen
  <2>1. Screens
    BY DEF ScreenInv, Screens
  <2>2. Waiting(tabs[b], turns[t], t, Earlier(t), Own(b, About(turns[t])))
    BY <2>1, AnswererIsAwaited
  <2>3. About(turns[t]) = turns[t].conversation /\ ~Finished(turns[t])
    BY DEF About, Finished
  <2> QED  BY <2>2, <2>3 DEF Waiting
<1> QED
  BY <1>1, ServerInvAlways, ScreenInvAlways, PTL
===============================================================================
