-------------------------- MODULE MemoryLogProofs --------------------------
(***************************************************************************)
(* The indices of the log: for any records, any bound and any sequence of  *)
(* operations, they only grow, and a watcher of the log prints in order.   *)
(***************************************************************************)
EXTENDS MemoryLog, SequenceTheorems, WellFoundedInduction, TLAPS

\* A set of naturals has a least element.
LEMMA LeastNatural ==
  ASSUME NEW T \in SUBSET Nat, T # {}
  PROVE  \E x \in T : \A y \in T : x <= y
<1>1. PICK x \in T : \A y \in T : <<y, x>> \notin OpToRel(<, Nat)
  BY NatLessThanWellFounded, WFMin
<1>2. \A y \in T : ~ (y < x)
  BY <1>1 DEF OpToRel
<1>3. \A y \in T : y \in Nat
  OBVIOUS
<1>4. \A y \in T : x <= y
  BY <1>2, <1>3
<1> QED BY <1>4

\* One natural number can be added up after another: the function that does it
\* exists.
LEMMA SumsExist ==
  ASSUME NEW L \in Nat, NEW w \in [1..L -> Nat]
  PROVE  \E p \in [0..L -> Nat] : p = [i \in 0..L |-> IF i = 0 THEN 0 ELSE p[i - 1] + w[i]]
<1> DEFINE Partial(n) == \E p \in [0..n -> Nat] :
                           p = [i \in 0..n |-> IF i = 0 THEN 0 ELSE p[i - 1] + w[i]]
           T == {n \in 0..L : ~ Partial(n)}
<1>1. Partial(0)
  <2> DEFINE p == [i \in 0..0 |-> 0]
  <2>1. p \in [0..0 -> Nat]
    OBVIOUS
  <2>2. p = [i \in 0..0 |-> IF i = 0 THEN 0 ELSE p[i - 1] + w[i]]
    OBVIOUS
  <2> QED BY <2>1, <2>2
<1>2. ASSUME NEW n \in 1..L, Partial(n - 1) PROVE Partial(n)
  <2>1. PICK p \in [0..(n - 1) -> Nat] :
               p = [i \in 0..(n - 1) |-> IF i = 0 THEN 0 ELSE p[i - 1] + w[i]]
    BY <1>2
  <2> DEFINE q == [i \in 0..n |-> IF i = n THEN p[n - 1] + w[n] ELSE p[i]]
  <2>2. p[n - 1] \in Nat /\ w[n] \in Nat
    OBVIOUS
  <2>3. q \in [0..n -> Nat]
    BY <2>2
  <2>4. \A i \in 0..n : q[i] = IF i = 0 THEN 0 ELSE q[i - 1] + w[i]
    <3>1. ASSUME NEW i \in 0..n, i # n PROVE q[i] = IF i = 0 THEN 0 ELSE q[i - 1] + w[i]
      <4>1. i \in 0..(n - 1) /\ q[i] = p[i]
        BY <3>1
      <4>2. p[i] = IF i = 0 THEN 0 ELSE p[i - 1] + w[i]
        BY <2>1, <4>1
      <4>3. i # 0 => q[i - 1] = p[i - 1]
        BY <3>1
      <4> QED BY <4>1, <4>2, <4>3
    <3>2. q[n] = q[n - 1] + w[n] /\ n # 0
      OBVIOUS
    <3> QED BY <3>1, <3>2
  <2>5. q = [i \in 0..n |-> IF i = 0 THEN 0 ELSE q[i - 1] + w[i]]
    BY <2>3, <2>4
  <2> QED BY <2>3, <2>5
<1>3. T = {}
  <2> SUFFICES ASSUME T # {} PROVE FALSE
    OBVIOUS
  <2>1. T \in SUBSET Nat
    OBVIOUS
  <2> HIDE DEF T
  <2>2. PICK n \in T : \A k \in T : n <= k
    BY <2>1, LeastNatural
  <2>3. n \in 0..L /\ ~ Partial(n)
    BY <2>2 DEF T
  <2> HIDE DEF Partial
  <2>4. n \in 1..L
    BY <1>1, <2>3
  <2>5. n - 1 \in 0..L /\ n - 1 \notin T
    BY <2>1, <2>2, <2>4
  <2>6. Partial(n - 1)
    BY <2>5 DEF T
  <2> QED BY <1>2, <2>3, <2>4, <2>6
<1>4. L \in 0..L
  OBVIOUS
<1>5. Partial(L)
  <2> HIDE DEF Partial
  <2> QED BY <1>3, <1>4
<1> QED BY <1>5

\* What Sums of a list of records is.
LEMMA SumsAre ==
  ASSUME NEW s \in Seq(LogRecord)
  PROVE  /\ Sums(s) \in [0..Len(s) -> Nat]
         /\ Sums(s)[0] = 0
         /\ \A i \in 1..Len(s) : Sums(s)[i] = Sums(s)[i - 1] + Size[s[i].message]
<1> DEFINE w == [i \in 1..Len(s) |-> Size[s[i].message]]
           IsSums(p) == p = [i \in 0..Len(s) |->
                               IF i = 0 THEN 0 ELSE p[i - 1] + Size[s[i].message]]
<1>1. Len(s) \in Nat
  OBVIOUS
<1>2. w \in [1..Len(s) -> Nat]
  <2>1. \A i \in 1..Len(s) : s[i] \in LogRecord
    OBVIOUS
  <2>2. \A i \in 1..Len(s) : Size[s[i].message] \in Nat
    BY <2>1, LogAssumption DEF LogAssumption, LogRecord
  <2> QED BY <2>2
<1>3. PICK p \in [0..Len(s) -> Nat] :
             p = [i \in 0..Len(s) |-> IF i = 0 THEN 0 ELSE p[i - 1] + w[i]]
  <2> HIDE DEF w
  <2> QED BY <1>1, <1>2, SumsExist
<1>4. IsSums(p)
  <2>1. \A i \in 0..Len(s) :
          p[i] = IF i = 0 THEN 0 ELSE p[i - 1] + Size[s[i].message]
    <3> SUFFICES ASSUME NEW i \in 0..Len(s)
                 PROVE  p[i] = IF i = 0 THEN 0 ELSE p[i - 1] + Size[s[i].message]
      OBVIOUS
    <3>1. p[i] = IF i = 0 THEN 0 ELSE p[i - 1] + w[i]
      <4> HIDE DEF w
      <4> QED BY <1>3
    <3>2. i # 0 => w[i] = Size[s[i].message]
      BY <1>1
    <3> QED BY <3>1, <3>2
  <2> QED BY <2>1
<1>5. Sums(s) = CHOOSE q : IsSums(q)
  BY DEF Sums
<1>6. IsSums(Sums(s))
  <2> HIDE DEF IsSums
  <2> QED BY <1>4, <1>5
<1> DEFINE f == Sums(s)
<1>7. \A q : IsSums(q) => \A i \in 0..Len(s) : q[i] = p[i]
  <2> SUFFICES ASSUME NEW q, IsSums(q) PROVE \A i \in 0..Len(s) : q[i] = p[i]
    OBVIOUS
  <2> DEFINE T == {i \in 0..Len(s) : q[i] # p[i]}
  <2>1. T = {}
    <3> SUFFICES ASSUME T # {} PROVE FALSE
      OBVIOUS
    <3>1. T \in SUBSET Nat
      BY <1>1
    <3> HIDE DEF T
    <3>2. PICK n \in T : \A k \in T : n <= k
      BY <3>1, LeastNatural
    <3>3. n \in 0..Len(s) /\ q[n] # p[n]
      BY <3>2 DEF T
    <3>4. q[0] = 0 /\ p[0] = 0
      BY <1>1, <1>4
    <3>5. n # 0
      BY <3>3, <3>4
    <3>6. n - 1 \in 0..Len(s) /\ n - 1 \notin T
      BY <1>1, <3>1, <3>2, <3>3, <3>5
    <3>7. q[n - 1] = p[n - 1]
      BY <3>6 DEF T
    <3>8. q[n] = q[n - 1] + Size[s[n].message]
      BY <3>3, <3>5
    <3>9. p[n] = p[n - 1] + Size[s[n].message]
      BY <1>4, <3>3, <3>5
    <3> QED BY <3>3, <3>7, <3>8, <3>9
  <2> QED BY <2>1
<1>8. f = p
  <2>1. \A i \in 0..Len(s) : f[i] = p[i]
    BY <1>6, <1>7
  <2>2. f = [i \in 0..Len(s) |-> f[i]]
    BY <1>6
  <2> HIDE DEF f
  <2> QED BY <2>1, <2>2
<1> HIDE DEF f
<1>9. p[0] = 0 /\ \A i \in 1..Len(s) : p[i] = p[i - 1] + Size[s[i].message]
  BY <1>1, <1>4
<1> QED BY <1>8, <1>9 DEF f

\* The sums of a stretch of s are those of s, less what comes before it.
LEMMA SumsOfPart ==
  ASSUME NEW s \in Seq(LogRecord), NEW t \in Seq(LogRecord), NEW k \in Nat,
         k + Len(t) <= Len(s), \A i \in 1..Len(t) : t[i].message = s[k + i].message
  PROVE  \A i \in 0..Len(t) : Sums(t)[i] = Sums(s)[k + i] - Sums(s)[k]
<1> DEFINE T == {i \in 0..Len(t) : Sums(t)[i] # Sums(s)[k + i] - Sums(s)[k]}
<1>1. Len(t) \in Nat /\ Len(s) \in Nat
  OBVIOUS
<1>2. /\ Sums(t) \in [0..Len(t) -> Nat] /\ Sums(t)[0] = 0
      /\ \A i \in 1..Len(t) : Sums(t)[i] = Sums(t)[i - 1] + Size[t[i].message]
  BY SumsAre
<1>3. /\ Sums(s) \in [0..Len(s) -> Nat]
      /\ \A i \in 1..Len(s) : Sums(s)[i] = Sums(s)[i - 1] + Size[s[i].message]
  BY SumsAre
<1>4. \A i \in 0..Len(t) : k + i \in 0..Len(s) /\ Sums(s)[k + i] \in Nat
  <2>1. \A i \in 0..Len(t) : k + i \in 0..Len(s)
    BY <1>1
  <2> QED BY <1>3, <2>1
<1>5. T = {}
  <2> SUFFICES ASSUME T # {} PROVE FALSE
    OBVIOUS
  <2>1. T \in SUBSET Nat
    BY <1>1
  <2> HIDE DEF T
  <2>2. PICK n \in T : \A j \in T : n <= j
    BY <2>1, LeastNatural
  <2>3. n \in 0..Len(t) /\ Sums(t)[n] # Sums(s)[k + n] - Sums(s)[k]
    BY <2>2 DEF T
  <2>4. n # 0
    <3>1. k + 0 = k /\ Sums(s)[k] \in Nat
      BY <1>1, <1>4
    <3> QED BY <1>2, <2>3, <3>1
  <2>5. n - 1 \in 0..Len(t) /\ n - 1 \notin T
    BY <1>1, <2>1, <2>2, <2>3, <2>4
  <2>6. Sums(t)[n - 1] = Sums(s)[k + (n - 1)] - Sums(s)[k]
    BY <2>5 DEF T
  <2>7. Sums(t)[n] = Sums(t)[n - 1] + Size[t[n].message]
    BY <1>2, <2>3, <2>4
  <2>8. Sums(s)[k + n] = Sums(s)[k + (n - 1)] + Size[s[k + n].message]
    <3>1. k + n \in 1..Len(s) /\ (k + n) - 1 = k + (n - 1)
      BY <1>1, <2>3, <2>4
    <3> QED BY <1>3, <3>1
  <2>9. t[n].message = s[k + n].message
    BY <2>3, <2>4
  <2>10. PICK a \in Nat : a = Sums(s)[k + (n - 1)]
    BY <1>4, <2>5
  <2>11. PICK c \in Nat : c = Sums(s)[k]
    <3>1. k + 0 = k
      OBVIOUS
    <3> QED BY <1>1, <1>4, <3>1
  <2>12. PICK z \in Nat : z = Size[s[k + n].message]
    <3>1. k + n \in 1..Len(s)
      BY <1>1, <2>3, <2>4
    <3>2. s[k + n] \in LogRecord
      BY <3>1
    <3> QED BY <3>2, LogAssumption DEF LogAssumption, LogRecord
  <2>13. (a - c) + z = (a + z) - c
    OBVIOUS
  <2> QED BY <2>3, <2>6, <2>7, <2>8, <2>9, <2>10, <2>11, <2>12, <2>13
<1> QED BY <1>5

\* How many records are evicted is well defined, and never all of them: what
\* is left fits, or is the newest alone.
LEMMA EvictionsRange ==
  ASSUME NEW s \in Seq(LogRecord), s # <<>>, NEW b
  PROVE  /\ Evictions(s, b) \in 0..(Len(s) - 1)
         /\ \/ b - Total(SubSeq(s, 1, Evictions(s, b))) <= Bound
            \/ Evictions(s, b) = Len(s) - 1
<1> DEFINE T == {k \in 0..(Len(s) - 1) :
                   b - Total(SubSeq(s, 1, k)) <= Bound \/ k = Len(s) - 1}
<1>1. Len(s) \in Nat \ {0}
  OBVIOUS
<1>2. Len(s) - 1 \in T
  BY <1>1
<1>3. T \in SUBSET Nat
  BY <1>1
<1> HIDE DEF T
<1>4. PICK k \in T : \A j \in T : k <= j
  BY <1>2, <1>3, LeastNatural
<1>5. \A j \in 0..(k - 1) : j \notin T
  BY <1>3, <1>4
<1>6. k \in 0..(Len(s) - 1) /\ (b - Total(SubSeq(s, 1, k)) <= Bound \/ k = Len(s) - 1)
  BY <1>4 DEF T
<1>7. \A j \in 0..(k - 1) : ~ (b - Total(SubSeq(s, 1, j)) <= Bound \/ j = Len(s) - 1)
  BY <1>1, <1>5, <1>6 DEF T
<1> DEFINE Right(j) ==
             /\ b - Total(SubSeq(s, 1, j)) <= Bound \/ j = Len(s) - 1
             /\ \A i \in 0..(j - 1) : ~ (b - Total(SubSeq(s, 1, i)) <= Bound \/ i = Len(s) - 1)
<1>8. k \in 0..(Len(s) - 1) /\ Right(k)
  BY <1>6, <1>7
<1>9. Evictions(s, b) = CHOOSE j \in 0..(Len(s) - 1) : Right(j)
  BY DEF Evictions
<1>10. Evictions(s, b) \in 0..(Len(s) - 1) /\ Right(Evictions(s, b))
  <2> HIDE DEF Right
  <2> QED BY <1>8, <1>9
<1> QED BY <1>10

\* A record pushed leaves no more records than were ever inserted, and none
\* older than before (Records::push).
LEMMA Pushed ==
  ASSUME WatchInv, NEW m \in Message, Push(m)
  PROVE  /\ entries' \in Seq(LogRecord)
         /\ inserted' \in Nat
         /\ inserted <= inserted'
         /\ Len(entries') <= inserted'
         /\ FirstIndex <= FirstIndex'
         /\ inserted' = inserted \/ FirstIndex' <= inserted
<1>1. entries \in Seq(LogRecord) /\ inserted \in Nat /\ Len(entries) <= inserted
  BY DEF WatchInv
<1>2. CASE Repeats(m)
  <2>1. /\ entries # <<>>
        /\ entries[Len(entries)].count < MaxCount
        /\ entries' = [entries EXCEPT ![Len(entries)].count = @ + 1]
        /\ inserted' = inserted
    BY <1>2 DEF Push, Repeats
  <2>2. Len(entries) \in DOMAIN entries /\ entries[Len(entries)] \in LogRecord
    BY <1>1, <2>1
  <2>3. [entries[Len(entries)] EXCEPT !.count = @ + 1] \in LogRecord
    BY <2>1, <2>2, LogAssumption DEF LogRecord, LogAssumption
  <2>4. entries' = [entries EXCEPT ![Len(entries)] =
                      [entries[Len(entries)] EXCEPT !.count = @ + 1]]
    BY <2>1, <2>2
  <2>5. entries' \in Seq(LogRecord) /\ Len(entries') = Len(entries)
    BY <1>1, <2>2, <2>3, <2>4
  <2> QED BY <1>1, <2>1, <2>5 DEF FirstIndex
<1>3. CASE ~ Repeats(m)
  <2> DEFINE s == Append(entries, [message |-> m, count |-> 1])
             k == Evictions(s, bytes + Size[m])
  <2>1. entries' = SubSeq(s, k + 1, Len(s)) /\ inserted' = inserted + 1
    BY <1>3 DEF Push
  <2>2. [message |-> m, count |-> 1] \in LogRecord
    BY LogAssumption DEF LogRecord, LogAssumption
  <2>3. s \in Seq(LogRecord) /\ Len(s) = Len(entries) + 1 /\ s # <<>>
    BY <1>1, <2>2
  <2>4. k \in 0..(Len(s) - 1)
    BY <2>3, EvictionsRange
  <2> HIDE DEF s, k
  <2>5. entries' \in Seq(LogRecord) /\ Len(entries') = Len(s) - k
    BY <2>1, <2>3, <2>4
  <2>6. Len(entries) \in Nat /\ Len(s) \in Nat
    BY <1>1, <2>3
  <2> QED BY <1>1, <2>1, <2>3, <2>4, <2>5, <2>6 DEF FirstIndex
<1> QED BY <1>2, <1>3

\* The room the records take is that of the oldest and that of the rest.
LEMMA TotalSplit ==
  ASSUME NEW s \in Seq(LogRecord), NEW k \in 0..Len(s)
  PROVE  /\ Total(s) \in Nat
         /\ Total(SubSeq(s, 1, k)) \in Nat
         /\ Total(SubSeq(s, k + 1, Len(s))) \in Nat
         /\ Total(s) = Total(SubSeq(s, 1, k)) + Total(SubSeq(s, k + 1, Len(s)))
<1> DEFINE old == SubSeq(s, 1, k)
           rest == SubSeq(s, k + 1, Len(s))
<1>1. Len(s) \in Nat /\ k \in Nat
  OBVIOUS
<1>2. /\ old \in Seq(LogRecord) /\ Len(old) = k
      /\ \A i \in 1..k : old[i].message = s[0 + i].message
  OBVIOUS
<1>3. /\ rest \in Seq(LogRecord) /\ Len(rest) = Len(s) - k
      /\ \A i \in 1..(Len(s) - k) : rest[i].message = s[k + i].message
  <2>1. rest \in Seq(LogRecord) /\ Len(rest) = Len(s) - k
    BY <1>1
  <2>2. ASSUME NEW i \in 1..(Len(s) - k) PROVE rest[i] = s[k + i]
    BY <1>1
  <2> QED BY <2>1, <2>2
<1> HIDE DEF old, rest
<1>4. Sums(s) \in [0..Len(s) -> Nat] /\ Sums(s)[0] = 0
  BY SumsAre
<1>5. Total(old) = Sums(s)[0 + k] - Sums(s)[0]
  BY <1>1, <1>2, SumsOfPart DEF Total
<1>6. Total(rest) = Sums(s)[k + (Len(s) - k)] - Sums(s)[k]
  <2>1. k + Len(rest) <= Len(s) /\ Len(rest) \in 0..Len(rest)
    BY <1>1, <1>3
  <2>2. \A i \in 1..Len(rest) : rest[i].message = s[k + i].message
    BY <1>3
  <2>3. \A i \in 0..Len(rest) : Sums(rest)[i] = Sums(s)[k + i] - Sums(s)[k]
    BY <1>1, <1>3, <2>1, <2>2, SumsOfPart
  <2> QED BY <1>3, <2>1, <2>3 DEF Total
<1>7. Total(old) \in Nat /\ Total(rest) \in Nat
  <2>1. ASSUME NEW t \in Seq(LogRecord) PROVE Total(t) \in Nat
    <3>1. Len(t) \in 0..Len(t) /\ Sums(t) \in [0..Len(t) -> Nat]
      BY SumsAre
    <3> QED BY <3>1 DEF Total
  <2> QED BY <1>2, <1>3, <2>1
<1>8. 0 + k = k /\ k + (Len(s) - k) = Len(s)
  BY <1>1
<1>9. PICK a \in Nat : a = Sums(s)[k]
  BY <1>1, <1>4
<1>10. PICK c \in Nat : c = Sums(s)[Len(s)]
  BY <1>1, <1>4
<1>11. Total(old) = a /\ Total(rest) = c - a /\ Total(s) = c
  BY <1>4, <1>5, <1>6, <1>8, <1>9, <1>10 DEF Total
<1>12. a + (c - a) = c
  OBVIOUS
<1> QED BY <1>7, <1>9, <1>10, <1>11, <1>12 DEF old, rest

\* A repeat of a record takes no more room.
LEMMA TotalRepeated ==
  ASSUME NEW s \in Seq(LogRecord), NEW t \in Seq(LogRecord), Len(t) = Len(s),
         \A i \in 1..Len(s) : t[i].message = s[i].message
  PROVE  Total(t) = Total(s)
<1>1. Len(s) \in Nat /\ Sums(s) \in [0..Len(s) -> Nat] /\ Sums(s)[0] = 0
  BY SumsAre
<1>2. Sums(t)[Len(t)] = Sums(s)[0 + Len(t)] - Sums(s)[0]
  <2>1. \A i \in 1..Len(t) : t[i].message = s[0 + i].message
    BY <1>1
  <2> QED BY <1>1, <2>1, SumsOfPart
<1>3. PICK c \in Nat : c = Sums(s)[Len(s)]
  BY <1>1
<1> QED BY <1>1, <1>2, <1>3 DEF Total

\* A record appended takes the room of its size.
LEMMA TotalAppended ==
  ASSUME NEW s \in Seq(LogRecord), NEW e \in LogRecord
  PROVE  Total(Append(s, e)) = Total(s) + Size[e.message]
<1> DEFINE t == Append(s, e)
<1>1. /\ t \in Seq(LogRecord) /\ Len(s) \in Nat /\ Len(t) = Len(s) + 1
      /\ t[Len(t)] = e /\ \A i \in 1..Len(s) : t[i] = s[i]
  OBVIOUS
<1> HIDE DEF t
<1>2. /\ Sums(t) \in [0..Len(t) -> Nat] /\ Sums(t)[0] = 0
      /\ Sums(t)[Len(t)] = Sums(t)[Len(t) - 1] + Size[e.message]
  BY <1>1, SumsAre
<1>3. Sums(s)[Len(s)] = Sums(t)[0 + Len(s)] - Sums(t)[0]
  <2>1. \A i \in 1..Len(s) : s[i].message = t[0 + i].message
    BY <1>1
  <2>2. 0 + Len(s) <= Len(t) /\ Len(s) \in 0..Len(s)
    BY <1>1
  <2>3. \A i \in 0..Len(s) : Sums(s)[i] = Sums(t)[0 + i] - Sums(t)[0]
    BY <1>1, <2>1, <2>2, SumsOfPart
  <2> QED BY <2>2, <2>3
<1>4. PICK c \in Nat : c = Sums(t)[Len(s)]
  BY <1>1, <1>2
<1> QED BY <1>1, <1>2, <1>3, <1>4 DEF Total, t

\* A record pushed keeps the buffer's bytes those of its records, and within
\* the bound.
LEMMA PushedRoom ==
  ASSUME WatchInv, BoundKept, bytes \in Nat, NEW m \in Message, Push(m)
  PROVE  BoundKept' /\ bytes' \in Nat
<1>1. entries \in Seq(LogRecord) /\ Len(entries) \in Nat
  BY DEF WatchInv
<1>2. CASE Repeats(m)
  <2>1. /\ entries # <<>>
        /\ entries[Len(entries)].count < MaxCount
        /\ entries' = [entries EXCEPT ![Len(entries)].count = @ + 1]
        /\ bytes' = bytes
    BY <1>2 DEF Push, Repeats
  <2>2. entries' \in Seq(LogRecord)
    BY Pushed
  <2>3. /\ Len(entries') = Len(entries)
        /\ \A i \in 1..Len(entries) : entries'[i].message = entries[i].message
    <3>1. Len(entries) \in DOMAIN entries /\ entries[Len(entries)] \in LogRecord
      BY <1>1, <2>1
    <3>2. entries' = [entries EXCEPT ![Len(entries)] =
                        [entries[Len(entries)] EXCEPT !.count = @ + 1]]
      BY <2>1, <3>1
    <3>3. [entries[Len(entries)] EXCEPT !.count = @ + 1].message = entries[Len(entries)].message
      BY <3>1 DEF LogRecord
    <3> QED BY <1>1, <3>1, <3>2, <3>3
  <2>4. Total(entries') = Total(entries)
    BY <1>1, <2>2, <2>3, TotalRepeated
  <2> QED BY <2>1, <2>3, <2>4 DEF BoundKept
<1>3. CASE ~ Repeats(m)
  <2> DEFINE s == Append(entries, [message |-> m, count |-> 1])
             b == bytes + Size[m]
             k == Evictions(s, b)
  <2>1. entries' = SubSeq(s, k + 1, Len(s)) /\ bytes' = b - Total(SubSeq(s, 1, k))
    BY <1>3 DEF Push
  <2>2. [message |-> m, count |-> 1] \in LogRecord
    BY LogAssumption DEF LogRecord, LogAssumption
  <2>3. s \in Seq(LogRecord) /\ Len(s) = Len(entries) + 1 /\ s # <<>>
    <3>1. \A e \in LogRecord : /\ Append(entries, e) \in Seq(LogRecord)
                               /\ Len(Append(entries, e)) = Len(entries) + 1
      BY <1>1
    <3>2. s \in Seq(LogRecord) /\ Len(s) = Len(entries) + 1
      BY <2>2, <3>1
    <3> HIDE DEF s
    <3> QED BY <1>1, <3>2
  <2>4. Total(s) = b
    <3>1. Total(s) = Total(entries) + Size[m]
      BY <1>1, <2>2, TotalAppended
    <3> QED BY <3>1 DEF BoundKept
  <2>5. k \in 0..(Len(s) - 1) /\ (b - Total(SubSeq(s, 1, k)) <= Bound \/ k = Len(s) - 1)
    <3> HIDE DEF s, b
    <3> QED BY <2>3, EvictionsRange
  <2> HIDE DEF s, b, k
  <2>6. Len(s) \in Nat
    BY <2>3
  <2>7. /\ Total(SubSeq(s, 1, k)) \in Nat
        /\ Total(entries') \in Nat
        /\ b = Total(SubSeq(s, 1, k)) + Total(entries')
    BY <2>1, <2>3, <2>4, <2>5, <2>6, TotalSplit
  <2>8. bytes' = Total(entries') /\ bytes' \in Nat
    BY <2>1, <2>7
  <2>9. k = Len(s) - 1 => Len(entries') = 1
    BY <2>1, <2>3, <2>5, <2>6
  <2> QED BY <2>1, <2>5, <2>8, <2>9 DEF BoundKept
<1> QED BY <1>2, <1>3

\* What is still held, and was printed, stays printed while older records go
\* and the index of the next one grows.
LEMMA RecordStep ==
  ASSUME WatchInv, entries' \in Seq(LogRecord), inserted' \in Nat,
         inserted <= inserted', Len(entries') <= inserted',
         FirstIndex <= FirstIndex', UNCHANGED <<answer, next, printed>>
  PROVE  WatchInv'
<1> USE DEF WatchInv
<1>1. Len(entries) \in Nat /\ Len(entries') \in Nat
  OBVIOUS
<1>2. answer.first \in Nat /\ answer.len \in Nat
  BY DEF Answer
<1>3. FirstIndex \in Nat /\ FirstIndex' \in Nat
  BY <1>1 DEF FirstIndex
<1>4. answer'.first + answer'.len <= inserted' /\ answer'.first <= FirstIndex'
  BY <1>2, <1>3
<1>5. NoneSkipped'
  <2>1. SUFFICES ASSUME NEW i \in FirstIndex'..(inserted' - 1), i < next
                 PROVE  \E j \in DOMAIN printed : printed[j] = i
    BY DEF NoneSkipped
  <2>2. i \in FirstIndex..(inserted - 1)
    BY <1>2, <1>3, <2>1
  <2> QED BY <2>1, <2>2 DEF NoneSkipped
<1> QED BY <1>4, <1>5 DEF PrintedInOrder

\* The watcher prints what is past the entries it has printed, up to the end
\* of the answer (client_main).
LEMMA PrintStep == ASSUME WatchInv, PrintNew PROVE WatchInv'
<1> USE DEF WatchInv
<1> DEFINE n   == FirstNew
           end == answer.first + answer.len
           new == NewEntries
<1>1. /\ printed' = printed \o new
      /\ next' = end
      /\ answer' = [answer EXCEPT !.pending = FALSE]
      /\ UNCHANGED <<entries, inserted>>
  <2>1. printed' = printed \o new
    BY DEF PrintNew
  <2> HIDE DEF new
  <2> QED BY <2>1 DEF PrintNew, recordVars
<1>2. answer.first \in Nat /\ answer.len \in Nat /\ next \in Nat
  BY DEF Answer
<1>3. n \in Nat /\ end \in Nat /\ n <= end /\ next <= n /\ answer.first <= n
  BY <1>2 DEF FirstNew
<1>3a. n = next \/ n = answer.first
  BY <1>2 DEF FirstNew
<1>4. new \in Seq(Nat) /\ Len(new) = end - n /\ \A i \in 1..(end - n) : new[i] = n + i - 1
  <2>1. end - n \in Nat /\ \A i \in 1..(end - n) : n + i - 1 \in Nat
    BY <1>3
  <2> HIDE DEF n, end
  <2>2. new = [i \in 1..(end - n) |-> n + i - 1]
    BY DEF NewEntries, n, end
  <2> HIDE DEF new
  <2>2a. new \in [1..(end - n) -> Nat]
    BY <2>1, <2>2
  <2>3. new \in Seq(Nat)
    <3>1. PICK len \in Nat : len = end - n
      BY <2>1
    <3> QED BY <2>2a, <3>1, SeqDef
  <2>4. Len(new) = end - n
    BY <2>1, <2>2a, <2>3, LenProperties
  <2> QED BY <2>2, <2>3, <2>4
<1> HIDE DEF n, end, new
<1>5. /\ printed' \in Seq(Nat)
      /\ Len(printed) \in Nat
      /\ Len(printed') = Len(printed) + Len(new)
      /\ \A i \in 1..Len(printed) : printed'[i] = printed[i]
      /\ \A i \in 1..Len(new) : printed'[Len(printed) + i] = new[i]
  <2>1. printed \in Seq(Nat) /\ Len(printed) \in Nat /\ Len(new) \in Nat
    BY <1>4, LenProperties
  <2>2. /\ printed' \in Seq(Nat)
        /\ Len(printed') = Len(printed) + Len(new)
        /\ \A i \in 1..(Len(printed) + Len(new)) :
             printed'[i] = IF i <= Len(printed) THEN printed[i] ELSE new[i - Len(printed)]
    BY <1>1, <1>4, <2>1, ConcatProperties
  <2>3. ASSUME NEW i \in 1..Len(printed) PROVE printed'[i] = printed[i]
    BY <2>1, <2>2
  <2>4. ASSUME NEW i \in 1..Len(new) PROVE printed'[Len(printed) + i] = new[i]
    <3>1. /\ Len(printed) + i \in 1..(Len(printed) + Len(new))
          /\ ~ (Len(printed) + i <= Len(printed))
          /\ (Len(printed) + i) - Len(printed) = i
      BY <2>1
    <3> QED BY <2>2, <3>1
  <2> QED BY <2>1, <2>2, <2>3, <2>4
<1>6. DOMAIN printed = 1..Len(printed) /\ DOMAIN printed' = 1..(Len(printed) + (end - n))
  BY <1>4, <1>5
<1>7. \A i \in DOMAIN printed' :
        \/ i \in DOMAIN printed /\ printed'[i] = printed[i]
        \/ /\ i - Len(printed) \in 1..(end - n)
           /\ printed'[i] = n + (i - Len(printed)) - 1
  <2>1. SUFFICES ASSUME NEW i \in DOMAIN printed', i \notin DOMAIN printed
                 PROVE  /\ i - Len(printed) \in 1..(end - n)
                        /\ printed'[i] = n + (i - Len(printed)) - 1
    BY <1>5, <1>6
  <2>2. i - Len(printed) \in 1..(end - n) /\ Len(printed) + (i - Len(printed)) = i
    BY <1>3, <1>5, <1>6, <2>1
  <2> QED BY <1>4, <1>5, <2>2
<1>8. \A i \in DOMAIN printed' : printed'[i] < next'
  <2>1. SUFFICES ASSUME NEW i \in DOMAIN printed' PROVE printed'[i] < end
    BY <1>1
  <2>2. CASE i \in DOMAIN printed /\ printed'[i] = printed[i]
    <3>1. printed[i] < next /\ printed[i] \in Nat
      BY <1>6, <2>2, LenProperties
    <3> QED BY <1>2, <1>3, <2>2, <3>1
  <2>3. CASE /\ i - Len(printed) \in 1..(end - n)
             /\ printed'[i] = n + (i - Len(printed)) - 1
    BY <1>3, <2>3
  <2> QED BY <1>7, <2>1, <2>2, <2>3
<1>9. PrintedInOrder'
  <2>1. SUFFICES ASSUME NEW i \in DOMAIN printed', NEW j \in DOMAIN printed', i < j
                 PROVE  printed'[i] < printed'[j]
    BY DEF PrintedInOrder
  <2>2. CASE j \in DOMAIN printed
    <3>1. i \in DOMAIN printed
      BY <1>3, <1>5, <1>6, <2>1, <2>2
    <3>2. printed[i] < printed[j]
      BY <2>1, <2>2, <3>1 DEF PrintedInOrder
    <3> QED BY <1>5, <1>6, <2>2, <3>1, <3>2
  <2>3. CASE j \notin DOMAIN printed
    <3>1. printed'[j] = n + (j - Len(printed)) - 1 /\ j - Len(printed) \in 1..(end - n)
      BY <1>7, <2>3
    <3>2. CASE i \in DOMAIN printed
      <4>1. printed'[i] = printed[i] /\ printed[i] < next /\ printed[i] \in Nat
        BY <1>5, <1>6, <3>2, LenProperties
      <4>2. j - Len(printed) \in Nat /\ j - Len(printed) >= 1
        BY <3>1
      <4> HIDE DEF WatchInv
      <4> QED BY <1>2, <1>3, <3>1, <4>1, <4>2
    <3>3. CASE i \notin DOMAIN printed
      <4>1. /\ i - Len(printed) \in 1..(end - n)
            /\ printed'[i] = n + (i - Len(printed)) - 1
        BY <1>7, <3>3
      <4>2. i \in Nat /\ j \in Nat /\ Len(printed) \in Nat
        BY <1>3, <1>5, <1>6
      <4> HIDE DEF WatchInv
      <4> QED BY <1>3, <2>1, <3>1, <4>1, <4>2
    <3> QED BY <3>2, <3>3
  <2> QED BY <2>2, <2>3
<1>10. NoneSkipped'
  <2>1. SUFFICES ASSUME NEW i \in FirstIndex..(inserted - 1), i < end
                 PROVE  \E j \in DOMAIN printed' : printed'[j] = i
    BY <1>1 DEF NoneSkipped, FirstIndex
  <2>2. CASE i < next
    <3>1. PICK j \in DOMAIN printed : printed[j] = i
      BY <2>2 DEF NoneSkipped
    <3> QED BY <1>3, <1>5, <1>6, <3>1
  <2>3. CASE ~ (i < next)
    <3>1. i \in Int /\ answer.first <= i
      BY <1>2 DEF FirstIndex
    <3>2. n <= i
      BY <1>2, <1>3a, <2>3, <3>1
    <3>3. i - n + 1 \in 1..(end - n) /\ new[i - n + 1] = i
      BY <1>3, <1>4, <2>1, <3>1, <3>2
    <3>4. Len(printed) + (i - n + 1) \in DOMAIN printed'
      BY <1>3, <1>5, <1>6, <3>3
    <3> QED BY <1>4, <1>5, <3>3, <3>4
  <2> QED BY <2>2, <2>3
<1>11. answer' \in Answer /\ answer'.first = answer.first /\ answer'.len = answer.len
  BY <1>1 DEF Answer
<1>12. next' \in Nat /\ next' = answer'.first + answer'.len
  BY <1>1, <1>3, <1>11 DEF end
<1> QED BY <1>1, <1>2, <1>5, <1>8, <1>9, <1>10, <1>11, <1>12 DEF FirstIndex

\* Every step keeps the indices in order.
LEMMA WatchStep == WatchInv /\ [Next]_vars => WatchInv' /\ FirstIndex' >= FirstIndex
<1> SUFFICES ASSUME WatchInv, [Next]_vars PROVE WatchInv' /\ FirstIndex' >= FirstIndex
  OBVIOUS
<1>0. /\ entries \in Seq(LogRecord) /\ inserted \in Nat /\ Len(entries) \in Nat
      /\ Len(entries) <= inserted /\ FirstIndex \in Nat
  BY DEF WatchInv, FirstIndex
<1>1. ASSUME NEW m \in Message, Log(m) \/ RecordOutOfScope(m)
      PROVE  WatchInv' /\ FirstIndex' >= FirstIndex
  <2>1. Push(m) /\ UNCHANGED <<answer, next, printed>>
    BY <1>1 DEF Log, RecordOutOfScope
  <2>2. /\ entries' \in Seq(LogRecord) /\ inserted' \in Nat /\ inserted <= inserted'
        /\ Len(entries') <= inserted' /\ FirstIndex <= FirstIndex'
    BY <2>1, Pushed
  <2>3. FirstIndex' \in Int
    BY <2>2 DEF FirstIndex
  <2> QED BY <1>0, <2>1, <2>2, <2>3, RecordStep
<1>2. CASE StartLogging
  <2>1. /\ entries' = <<>> /\ inserted' = inserted /\ UNCHANGED <<answer, next, printed>>
    BY <1>2 DEF StartLogging
  <2>2. /\ entries' \in Seq(LogRecord) /\ Len(entries') = 0
    BY <2>1
  <2>3. FirstIndex' = inserted /\ FirstIndex <= FirstIndex'
    BY <1>0, <2>1, <2>2 DEF FirstIndex
  <2> QED BY <1>0, <2>1, <2>2, <2>3, RecordStep
<1>3. CASE StopLogging \/ UNCHANGED vars
  <2>1. UNCHANGED <<entries, inserted, answer, next, printed>>
    BY <1>3 DEF StopLogging, vars, recordVars
  <2>2. FirstIndex' = FirstIndex
    BY <2>1 DEF FirstIndex
  <2> QED BY <1>0, <2>1, <2>2, RecordStep
<1>4. CASE Respond
  <2>1. /\ answer' = [first |-> FirstIndex, len |-> Len(entries), pending |-> TRUE]
        /\ UNCHANGED <<entries, inserted, next, printed>>
    BY <1>4 DEF Respond, recordVars
  <2>2. FirstIndex' = FirstIndex /\ FirstIndex + Len(entries) = inserted
    BY <1>0, <2>1 DEF FirstIndex
  <2>3. answer' \in Answer /\ answer'.first = FirstIndex /\ answer'.len = Len(entries)
    BY <1>0, <2>1 DEF Answer
  <2>4. next <= inserted
    BY <1>0 DEF WatchInv, Answer
  <2>5. NoneSkipped' /\ PrintedInOrder'
    BY <2>1, <2>2 DEF WatchInv, NoneSkipped, PrintedInOrder
  <2> QED BY <1>0, <2>1, <2>2, <2>3, <2>4, <2>5 DEF WatchInv
<1>5. CASE PrintNew
  <2>1. FirstIndex' = FirstIndex
    BY <1>5 DEF PrintNew, recordVars, FirstIndex
  <2> QED BY <1>0, <1>5, <2>1, PrintStep
<1> QED BY <1>1, <1>2, <1>3, <1>4, <1>5 DEF Next

\* The invariant of the watcher's index, the answers and what it printed.
THEOREM WatchCorrect == Spec => []WatchInv
<1>1. Init => WatchInv
  BY DEF Init, WatchInv, Answer, FirstIndex, PrintedInOrder, NoneSkipped
<1> QED BY <1>1, WatchStep, PTL DEF Spec

\* Neither Records::push nor MemDrain::start_logging takes the index of the
\* oldest record back.
THEOREM IndexGrows == Spec => IndexMonotonic
<1>1. WatchInv /\ [Next]_vars => [FirstIndex' >= FirstIndex]_vars
  BY WatchStep
<1> QED BY <1>1, WatchCorrect, PTL DEF Spec, IndexMonotonic

\* What `client log --watch` prints is in order, and no entry is printed twice.
THEOREM WatchPrintsInOrder == Spec => []PrintedInOrder
<1>1. WatchInv => PrintedInOrder
  BY DEF WatchInv
<1> QED BY <1>1, WatchCorrect, PTL

\* The watcher moves past no entry that is still held without printing it.
THEOREM WatchSkipsNone == Spec => []NoneSkipped
<1>1. WatchInv => NoneSkipped
  BY DEF WatchInv
<1> QED BY <1>1, WatchCorrect, PTL

\* The bytes are those of the records held, and fit.
RoomInv == WatchInv /\ logging \in BOOLEAN /\ bytes \in Nat /\ BoundKept

\* The account of the bytes is right in every state (mem_drain.rs:32).
THEOREM RoomCorrect == Spec => []RoomInv
<1>1. Total(<<>>) = 0
  <2>1. <<>> \in Seq(LogRecord) /\ Len(<<>>) = 0
    OBVIOUS
  <2> QED BY <2>1, SumsAre DEF Total
<1>2. Init /\ WatchInv => RoomInv
  <2> SUFFICES ASSUME Init, WatchInv PROVE RoomInv
    OBVIOUS
  <2>1. entries = <<>> /\ bytes = 0 /\ logging = FALSE
    BY DEF Init
  <2>2. BoundKept
    BY <1>1, <2>1, LogAssumption DEF BoundKept, LogAssumption
  <2> QED BY <2>1, <2>2 DEF RoomInv
<1>3. RoomInv /\ WatchInv' /\ [Next]_vars => RoomInv'
  <2> SUFFICES ASSUME RoomInv, WatchInv', [Next]_vars PROVE RoomInv'
    OBVIOUS
  <2>1. ASSUME NEW m \in Message, Log(m) \/ RecordOutOfScope(m) PROVE RoomInv'
    <3>1. Push(m) /\ logging' = logging
      BY <2>1 DEF Log, RecordOutOfScope
    <3> QED BY <3>1, PushedRoom DEF RoomInv
  <2>2. CASE StartLogging
    <3>1. entries' = <<>> /\ bytes' = 0 /\ logging' = TRUE
      BY <2>2 DEF StartLogging
    <3> QED BY <1>1, <3>1, LogAssumption DEF RoomInv, BoundKept, LogAssumption
  <2>3. CASE StopLogging \/ Respond \/ PrintNew \/ UNCHANGED vars
    <3>1. entries' = entries /\ bytes' = bytes /\ logging' \in BOOLEAN
      BY <2>3 DEF StopLogging, Respond, PrintNew, vars, recordVars, RoomInv
    <3> QED BY <3>1 DEF RoomInv, BoundKept
  <2> QED BY <2>1, <2>2, <2>3 DEF Next
<1> QED BY <1>2, <1>3, WatchCorrect, PTL DEF Spec

\* The buffer and the watcher have their types.
THEOREM TypeCorrect == Spec => []TypeOK
<1>1. RoomInv => TypeOK
  BY DEF RoomInv, WatchInv, TypeOK
<1> QED BY <1>1, RoomCorrect, PTL

\* Records::push keeps Records::bytes the room its records take, and that
\* within MAX_RECORDED_BYTES unless one record alone exceeds it.
THEOREM RoomKept == Spec => []BoundKept
<1>1. RoomInv => BoundKept
  BY DEF RoomInv
<1> QED BY <1>1, RoomCorrect, PTL
=============================================================================
