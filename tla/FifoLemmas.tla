----------------------------- MODULE FifoLemmas -----------------------------
(***************************************************************************)
(* Facts about waiting lines: first-in first-out sequences in which nobody *)
(* stands twice.  All lock and limiter classes of packages/concurrency     *)
(* keep one, written with push() and shift().                              *)
(***************************************************************************)
EXTENDS Integers, Sequences, Functions, SequenceTheorems,
        FiniteSetTheorems, WellFoundedInduction, TLAPS

\* The smallest of some numbers.
LEMMA Smallest ==
  ASSUME NEW S \in SUBSET Nat, S # {}
  PROVE  \E i \in S : \A j \in S : i <= j
<1>1. PICK n \in S : \A m \in S : <<m, n>> \notin OpToRel(<, Nat)
  BY WFMin, NatLessThanWellFounded
<1>2. ASSUME NEW m \in S PROVE n <= m
  <2>1. <<m, n>> \in Nat \X Nat /\ <<m, n>>[1] = m /\ <<m, n>>[2] = n
    OBVIOUS
  <2>2. ~(m < n)
    BY <1>1, <2>1 DEF OpToRel
  <2> QED
    BY <2>2
<1> QED
  BY <1>2

\* Pushing adds exactly one element to those that wait.
LEMMA RangeAppend ==
  ASSUME NEW S, NEW q \in Seq(S), NEW e \in S
  PROVE  Range(Append(q, e)) = Range(q) \cup {e}
<1>1. DOMAIN q = 1..Len(q) /\ DOMAIN Append(q, e) = 1..(Len(q) + 1) /\ Len(q) \in Nat
  BY AppendProperties, LenProperties
<1>2. \A i \in 1..Len(q) : Append(q, e)[i] = q[i]
  BY AppendProperties
<1>3. Append(q, e)[Len(q) + 1] = e
  BY AppendProperties
<1>4. 1..(Len(q) + 1) = (1..Len(q)) \cup {Len(q) + 1}
  BY <1>1
<1> QED
  BY <1>1, <1>2, <1>3, <1>4 DEF Range

\* Somebody who does not wait yet can be pushed without standing twice.
LEMMA InjectiveAppend ==
  ASSUME NEW S, NEW q \in Seq(S), IsInjective(q), NEW e \in S, e \notin Range(q)
  PROVE  IsInjective(Append(q, e))
<1>1. DOMAIN q = 1..Len(q) /\ DOMAIN Append(q, e) = 1..(Len(q) + 1) /\ Len(q) \in Nat
  BY AppendProperties, LenProperties
<1>2. \A i \in 1..Len(q) : Append(q, e)[i] = q[i] /\ q[i] # e
  BY <1>1, AppendProperties DEF Range
<1>3. Append(q, e)[Len(q) + 1] = e
  BY AppendProperties
<1> SUFFICES ASSUME NEW a \in 1..(Len(q) + 1), NEW b \in 1..(Len(q) + 1),
                    Append(q, e)[a] = Append(q, e)[b]
             PROVE  a = b
  BY <1>1 DEF IsInjective
<1>4. CASE a \in 1..Len(q) /\ b \in 1..Len(q)
  BY <1>1, <1>2, <1>4 DEF IsInjective
<1>5. CASE a = Len(q) + 1 \/ b = Len(q) + 1
  BY <1>1, <1>2, <1>3, <1>5
<1> QED
  BY <1>1, <1>4, <1>5

\* Shifting takes away the head, which no longer waits.
LEMMA ShiftLine ==
  ASSUME NEW S, NEW q \in Seq(S), q # <<>>, IsInjective(q)
  PROVE  /\ Head(q) \in Range(q)
         /\ Head(q) \in S
         /\ Tail(q) \in Seq(S)
         /\ Range(Tail(q)) = Range(q) \ {Head(q)}
         /\ IsInjective(Tail(q))
<1>1. DOMAIN q = 1..Len(q) /\ Len(q) \in Nat \ {0} /\ q[1] = Head(q)
  BY LenProperties, EmptySeq
<1>2. /\ Head(q) \in S /\ Tail(q) \in Seq(S)
      /\ DOMAIN Tail(q) = 1..(Len(q) - 1)
      /\ \A i \in 1..(Len(q) - 1) : Tail(q)[i] = q[i + 1]
  BY HeadTailProperties, LenProperties
<1>3. IsInjective(Tail(q))
  <2> SUFFICES ASSUME NEW a \in 1..(Len(q) - 1), NEW b \in 1..(Len(q) - 1),
                      Tail(q)[a] = Tail(q)[b]
               PROVE  a = b
    BY <1>2 DEF IsInjective
  <2>1. q[a + 1] = q[b + 1] /\ a + 1 \in 1..Len(q) /\ b + 1 \in 1..Len(q)
    BY <1>1, <1>2
  <2>2. a + 1 = b + 1
    BY <1>1, <2>1 DEF IsInjective
  <2> QED
    BY <2>2
<1>4. Range(Tail(q)) = Range(q) \ {Head(q)}
  <2>1. ASSUME NEW x \in Range(Tail(q))
        PROVE  x \in Range(q) /\ x # Head(q)
    <3>1. PICK i \in 1..(Len(q) - 1) : x = q[i + 1]
      BY <2>1, <1>2 DEF Range
    <3>2. i + 1 \in 1..Len(q) /\ i + 1 # 1 /\ 1 \in 1..Len(q)
      BY <1>1
    <3> QED
      BY <3>1, <3>2, <1>1 DEF Range, IsInjective
  <2>2. ASSUME NEW x \in Range(q), x # Head(q)
        PROVE  x \in Range(Tail(q))
    <3>1. PICK i \in 1..Len(q) : x = q[i]
      BY <1>1 DEF Range
    <3>2. i # 1
      BY <3>1, <1>1, <2>2
    <3>3. i - 1 \in 1..(Len(q) - 1) /\ (i - 1) + 1 = i
      BY <1>1, <3>2
    <3> QED
      BY <3>1, <3>3, <1>2 DEF Range
  <2> QED
    BY <2>1, <2>2
<1>5. Head(q) \in Range(q)
  <2>1. 1 \in DOMAIN q
    BY <1>1
  <2> QED
    BY <1>1, <2>1 DEF Range
<1> QED
  BY <1>2, <1>3, <1>4, <1>5

\* One line that joins the end of another is one line with it.
LEMMA JoinLines ==
  ASSUME NEW S, NEW q \in Seq(S), NEW r \in Seq(S),
         IsInjective(q), IsInjective(r), Range(q) \cap Range(r) = {}
  PROVE  q \o r \in Seq(S) /\ IsInjective(q \o r) /\ Range(q \o r) = Range(q) \cup Range(r)
<1>1. /\ DOMAIN q = 1 .. Len(q) /\ DOMAIN r = 1 .. Len(r)
      /\ Len(q) \in Nat /\ Len(r) \in Nat
  BY LenProperties
<1>2. /\ q \o r \in Seq(S) /\ Len(q \o r) = Len(q) + Len(r)
      /\ \A i \in 1 .. Len(q) + Len(r) : (q \o r)[i] = IF i <= Len(q) THEN q[i] ELSE r[i - Len(q)]
  BY ConcatProperties
<1> DEFINE both == q \o r
<1>3. DOMAIN both = 1 .. Len(q) + Len(r)
  BY <1>2, LenProperties
<1>4. \A i \in 1 .. Len(q) : i \in 1 .. Len(q) + Len(r) /\ both[i] = q[i] /\ q[i] \in Range(q)
  BY <1>1, <1>2 DEF Range
<1>5. \A i \in 1 .. Len(q) + Len(r) :
        i > Len(q) => i - Len(q) \in 1 .. Len(r) /\ both[i] = r[i - Len(q)] /\ both[i] \in Range(r)
  BY <1>1, <1>2 DEF Range
<1> HIDE DEF both
<1>6. ASSUME NEW a \in 1 .. Len(q) + Len(r), NEW b \in 1 .. Len(q) + Len(r), both[a] = both[b]
      PROVE  a = b
  <2>1. CASE a <= Len(q) /\ b <= Len(q)
    <3>1. a \in 1 .. Len(q) /\ b \in 1 .. Len(q)
      BY <1>1, <2>1
    <3> QED
      BY <1>1, <1>4, <1>6, <3>1 DEF IsInjective
  <2>2. CASE a > Len(q) /\ b > Len(q)
    <3>1. a - Len(q) \in 1 .. Len(r) /\ b - Len(q) \in 1 .. Len(r) /\ r[a - Len(q)] = r[b - Len(q)]
      BY <1>5, <1>6, <2>2
    <3>2. a - Len(q) = b - Len(q)
      BY <1>1, <3>1 DEF IsInjective
    <3> QED
      BY <1>1, <3>2
  <2>3. ASSUME NEW i \in 1 .. Len(q) + Len(r), NEW j \in 1 .. Len(q) + Len(r), i <= Len(q), j > Len(q)
        PROVE  both[i] # both[j]
    <3>1. i \in 1 .. Len(q)
      BY <1>1, <2>3
    <3> QED
      BY <1>4, <1>5, <2>3, <3>1
  <2> QED
    BY <1>1, <1>6, <2>1, <2>2, <2>3
<1>7. ASSUME NEW x \in Range(r) PROVE \E i \in 1 .. Len(q) + Len(r) : both[i] = x
  <2>1. PICK j \in 1 .. Len(r) : r[j] = x
    BY <1>1 DEF Range
  <2>2. j + Len(q) \in 1 .. Len(q) + Len(r) /\ j + Len(q) > Len(q) /\ (j + Len(q)) - Len(q) = j
    BY <1>1
  <2> QED
    BY <1>5, <2>1, <2>2
<1>8. ASSUME NEW i \in 1 .. Len(q) + Len(r) PROVE both[i] \in Range(q) \cup Range(r)
  <2>1. CASE i <= Len(q)
    <3>1. i \in 1 .. Len(q)
      BY <1>1, <2>1
    <3> QED
      BY <1>4, <3>1
  <2> QED
    BY <1>1, <1>5, <2>1
<1>9. ASSUME NEW x \in Range(q) PROVE \E i \in 1 .. Len(q) + Len(r) : both[i] = x
  BY <1>1, <1>4 DEF Range
<1>10. IsInjective(both)
  BY <1>3, <1>6 DEF IsInjective
<1>11. Range(both) = Range(q) \cup Range(r)
  <2>1. \A x : x \in Range(both) <=> \E i \in 1 .. Len(q) + Len(r) : both[i] = x
    BY <1>3 DEF Range
  <2> QED
    BY <1>7, <1>8, <1>9, <2>1
<1> QED
  BY <1>2, <1>10, <1>11 DEF both

\* Taking somebody out of the middle, as splice() does, leaves the others in line.
LEMMA RemoveFromLine ==
  ASSUME NEW S, NEW q \in Seq(S), IsInjective(q), NEW i \in 1 .. Len(q), NEW r,
         r = SubSeq(q, 1, i - 1) \o SubSeq(q, i + 1, Len(q))
  PROVE  r \in Seq(S) /\ Len(r) = Len(q) - 1 /\ IsInjective(r) /\ Range(r) = Range(q) \ {q[i]}
<1> DEFINE front == SubSeq(q, 1, i - 1)
           back == SubSeq(q, i + 1, Len(q))
<1>1. Len(q) \in Nat /\ DOMAIN q = 1 .. Len(q) /\ \A a \in 1 .. Len(q) : q[a] \in S
  BY LenProperties, ElementOfSeq
<1>2. i \in Int /\ 1 <= i /\ i <= Len(q) /\ i - 1 \in Int /\ i + 1 \in Int
  BY <1>1
<1>0. Len(q) \in Nat
  BY <1>1
<1>3. front \in Seq(S) /\ Len(front) = i - 1 /\ \A a \in 1 .. i - 1 : front[a] = q[a]
  <2>1. \A a \in 1 .. i - 1 : q[a] \in S
    BY <1>1, <1>2
  <2>2. /\ front \in Seq(S) /\ Len(front) = IF 1 <= i - 1 THEN (i - 1) - 1 + 1 ELSE 0
        /\ \A a \in 1 .. (i - 1) - 1 + 1 : front[a] = q[1 + a - 1]
    BY <1>2, <2>1, SubSeqProperties
  <2>3. Len(front) = i - 1
    BY <1>2, <2>2
  <2>4. \A a \in 1 .. i - 1 : a \in 1 .. (i - 1) - 1 + 1 /\ 1 + a - 1 = a
    BY <1>2
  <2> QED
    BY <2>2, <2>3, <2>4
<1>4. back \in Seq(S) /\ Len(back) = Len(q) - i /\ \A a \in 1 .. Len(q) - i : back[a] = q[i + a]
  <2>1. \A a \in i + 1 .. Len(q) : q[a] \in S
    BY <1>1, <1>2
  <2>2. /\ back \in Seq(S) /\ Len(back) = IF i + 1 <= Len(q) THEN Len(q) - (i + 1) + 1 ELSE 0
        /\ \A a \in 1 .. Len(q) - (i + 1) + 1 : back[a] = q[(i + 1) + a - 1]
    BY <1>1, <1>2, <2>1, SubSeqProperties
  <2>3. Len(back) = Len(q) - i
    <3>1. Len(back) = IF i + 1 <= Len(q) THEN Len(q) - (i + 1) + 1 ELSE 0
      BY <2>2
    <3> QED
      BY <1>0, <1>2, <3>1
  <2>4. \A a \in 1 .. Len(q) - i : a \in 1 .. Len(q) - (i + 1) + 1 /\ (i + 1) + a - 1 = i + a
    BY <1>0, <1>2
  <2> QED
    BY <2>2, <2>3, <2>4
<1> HIDE DEF front, back
<1>5. r = front \o back
  BY DEF front, back
<1>6. /\ r \in Seq(S) /\ Len(r) = Len(front) + Len(back)
      /\ \A a \in 1 .. Len(front) + Len(back) :
           r[a] = IF a <= Len(front) THEN front[a] ELSE back[a - Len(front)]
  <2>1. front \in Seq(S) /\ back \in Seq(S)
    BY <1>3, <1>4
  <2> QED
    BY <1>5, <2>1, ConcatProperties, ZenonT(60)
<1>7. Len(r) = Len(q) - 1 /\ Len(front) + Len(back) = Len(q) - 1
  <2>1. Len(r) = Len(front) + Len(back) /\ Len(front) = i - 1 /\ Len(back) = Len(q) - i
    BY <1>3, <1>4, <1>6
  <2>2. (i - 1) + (Len(q) - i) = Len(q) - 1
    BY <1>0, <1>2
  <2> QED
    BY <2>1, <2>2
<1>8. DOMAIN r = 1 .. Len(q) - 1
  BY <1>6, <1>7, LenProperties
<1>9. \A a \in 1 .. Len(q) - 1 : r[a] = IF a < i THEN q[a] ELSE q[a + 1]
  <2> SUFFICES ASSUME NEW a \in 1 .. Len(q) - 1 PROVE r[a] = IF a < i THEN q[a] ELSE q[a + 1]
    OBVIOUS
  <2>1. a \in 1 .. Len(front) + Len(back)
    BY <1>7
  <2>2. CASE a < i
    <3>1. a \in 1 .. i - 1 /\ a <= Len(front)
      BY <1>2, <1>3, <2>2
    <3> QED
      BY <1>3, <1>6, <2>1, <2>2, <3>1
  <2>3. CASE ~(a < i)
    <3>1. Len(front) = i - 1
      BY <1>3
    <3>2. a - (i - 1) \in 1 .. Len(q) - i /\ i + (a - (i - 1)) = a + 1 /\ ~(a <= i - 1)
      BY <1>0, <1>2, <2>3
    <3>3. r[a] = back[a - (i - 1)]
      BY <1>6, <2>1, <3>1, <3>2
    <3>4. back[a - (i - 1)] = q[a + 1]
      BY <1>4, <3>2
    <3> QED
      BY <2>3, <3>3, <3>4
  <2> QED
    BY <2>2, <2>3
<1> DEFINE At(a) == IF a < i THEN a ELSE a + 1
<1>10. \A a \in 1 .. Len(q) - 1 : At(a) \in 1 .. Len(q) /\ At(a) # i /\ r[a] = q[At(a)]
  <2> SUFFICES ASSUME NEW a \in 1 .. Len(q) - 1 PROVE At(a) \in 1 .. Len(q) /\ At(a) # i /\ r[a] = q[At(a)]
    OBVIOUS
  <2>1. At(a) \in 1 .. Len(q) /\ At(a) # i
    BY <1>0, <1>2
  <2>2. r[a] = q[At(a)]
    BY <1>9
  <2> QED
    BY <2>1, <2>2
<1>11. \A a, b \in 1 .. Len(q) - 1 : At(a) = At(b) => a = b
  BY <1>0, <1>2
<1>12. \A a \in 1 .. Len(q) : a # i => \E b \in 1 .. Len(q) - 1 : At(b) = a
  <2> SUFFICES ASSUME NEW a \in 1 .. Len(q), a # i PROVE \E b \in 1 .. Len(q) - 1 : At(b) = a
    OBVIOUS
  <2>1. CASE a < i
    BY <1>1, <1>2, <2>1
  <2>2. CASE a > i
    <3>1. a - 1 \in 1 .. Len(q) - 1 /\ At(a - 1) = a
      BY <1>1, <1>2, <2>2
    <3> QED
      BY <3>1
  <2> QED
    BY <1>1, <1>2, <2>1, <2>2
<1> HIDE DEF At
<1>13. IsInjective(r)
  <2> SUFFICES ASSUME NEW a \in 1 .. Len(q) - 1, NEW b \in 1 .. Len(q) - 1, r[a] = r[b]
               PROVE  a = b
    BY <1>8 DEF IsInjective
  <2>1. At(a) = At(b)
    BY <1>1, <1>10, ZenonT(60) DEF IsInjective
  <2> QED
    BY <1>11, <2>1
<1>14. ASSUME NEW x \in Range(r) PROVE x \in Range(q) \ {q[i]}
  <2>1. PICK a \in 1 .. Len(q) - 1 : x = r[a]
    BY <1>8, <1>14 DEF Range
  <2> QED
    BY <1>1, <1>10, <2>1 DEF Range, IsInjective
<1>15. ASSUME NEW x \in Range(q) \ {q[i]} PROVE x \in Range(r)
  <2>1. PICK a \in 1 .. Len(q) : x = q[a] /\ a # i
    BY <1>1, <1>15 DEF Range
  <2>2. PICK b \in 1 .. Len(q) - 1 : At(b) = a
    BY <1>12, <2>1
  <2> QED
    BY <1>8, <1>10, <2>1, <2>2 DEF Range
<1> QED
  BY <1>6, <1>7, <1>13, <1>14, <1>15

\* Those in line that belong to a set, as filter() leaves them.
Kept(q, S) ==
  LET kept[n \in 0 .. Len(q)] ==
        IF n = 0 THEN <<>> ELSE IF q[n] \in S THEN Append(kept[n - 1], q[n]) ELSE kept[n - 1]
  IN  kept[Len(q)]

\* Filtering a line in which nobody stands twice leaves exactly those of the set.
LEMMA KeepLine ==
  ASSUME NEW A, NEW q \in Seq(A), IsInjective(q), NEW S
  PROVE  Kept(q, S) \in Seq(A) /\ IsInjective(Kept(q, S)) /\ Range(Kept(q, S)) = Range(q) \cap S
<1> DEFINE Step(f, n) ==
             IF n = 0 THEN <<>> ELSE IF q[n] \in S THEN Append(f[n - 1], q[n]) ELSE f[n - 1]
           Fits(f, m) == f = [n \in 0 .. m |-> Step(f, n)]
           kept == CHOOSE f : Fits(f, Len(q))
<1>0. Len(q) \in Nat /\ DOMAIN q = 1 .. Len(q) /\ \A n \in 1 .. Len(q) : q[n] \in A
  BY LenProperties, ElementOfSeq
<1>1. Kept(q, S) = kept[Len(q)]
  BY DEF Kept
<1>2. \A m \in Nat : \E f : Fits(f, m)
  <2> DEFINE Bad == {m \in Nat : ~ \E f : Fits(f, m)}
  <2> SUFFICES ASSUME Bad # {} PROVE FALSE
    OBVIOUS
  <2>1. PICK m \in Bad : \A k \in Bad : m <= k
    BY Smallest
  <2>2. CASE m = 0
    <3>1. 0 .. 0 = {0}
      OBVIOUS
    <3>2. Fits([n \in 0 .. 0 |-> <<>>], 0)
      BY <3>1
    <3> QED
      BY <2>2, <3>2
  <2>3. CASE m # 0
    <3>0. m \in Nat
      OBVIOUS
    <3>1. m - 1 \in Nat /\ m - 1 \notin Bad
      <4> HIDE DEF Bad
      <4> QED
        BY <2>1, <2>3, <3>0
    <3>2. PICK g : Fits(g, m - 1)
      BY <3>1
    <3> DEFINE f == [n \in 0 .. m |-> IF n = m THEN Step(g, m) ELSE g[n]]
    <3>3. ASSUME NEW n \in 0 .. m PROVE f[n] = Step(f, n)
      <4>1. CASE n = m
        <5>1. m - 1 \in 0 .. m /\ m - 1 # m
          BY <3>1
        <5>2. f[m - 1] = g[m - 1]
          BY <5>1
        <5> QED
          BY <4>1, <5>2
      <4>2. CASE n # m /\ n = 0
        <5>1. f[n] = g[n] /\ n \in 0 .. m - 1
          BY <3>1, <4>2
        <5> QED
          BY <3>2, <4>2, <5>1
      <4>3. CASE n # m /\ n # 0
        <5>1. n \in 0 .. m - 1 /\ n - 1 \in 0 .. m /\ n - 1 # m
          BY <3>1, <4>3
        <5>2. f[n] = g[n] /\ f[n - 1] = g[n - 1]
          BY <4>3, <5>1
        <5>3. g[n] = Step(g, n)
          BY <3>2, <5>1
        <5> QED
          BY <4>3, <5>2, <5>3
      <4> QED
        BY <4>1, <4>2, <4>3
    <3>4. Fits(f, m)
      BY <3>3
    <3> QED
      BY <3>4
  <2> QED
    BY <2>2, <2>3
<1>3. Fits(kept, Len(q))
  BY <1>0, <1>2
<1> HIDE DEF kept
<1>4. /\ kept[0] = <<>>
      /\ \A n \in 1 .. Len(q) :
           kept[n] = IF q[n] \in S THEN Append(kept[n - 1], q[n]) ELSE kept[n - 1]
  <2>1. kept[0] = Step(kept, 0)
    <3>1. 0 \in 0 .. Len(q)
      BY <1>0
    <3> QED
      BY <1>3, <3>1
  <2>2. ASSUME NEW n \in 1 .. Len(q) PROVE kept[n] = Step(kept, n) /\ n # 0
    <3>1. n \in 0 .. Len(q) /\ n # 0
      BY <1>0
    <3> QED
      BY <1>3, <3>1
  <2> QED
    BY <2>1, <2>2
<1> DEFINE Good(n) == /\ kept[n] \in Seq(A) /\ IsInjective(kept[n])
                      /\ Range(kept[n]) = {q[k] : k \in 1 .. n} \cap S
           Bad == {n \in 0 .. Len(q) : ~ Good(n)}
<1>5. Good(0)
  <2>1. kept[0] = << >> /\ 1 .. 0 = {}
    BY <1>4
  <2>2. <<>> \in Seq(A) /\ DOMAIN <<>> = {}
    OBVIOUS
  <2>3. IsInjective(<<>>) /\ Range(<<>>) = {}
    BY <2>2 DEF IsInjective, Range
  <2> QED
    BY <2>1, <2>2, <2>3
<1>6. ASSUME NEW n \in 1 .. Len(q), Good(n - 1) PROVE Good(n)
  <2>1. 1 .. n = (1 .. n - 1) \cup {n} /\ n - 1 \in 0 .. Len(q)
    BY <1>0
  <2>2. {q[k] : k \in 1 .. n} = {q[k] : k \in 1 .. n - 1} \cup {q[n]}
    BY <2>1
  <2>3. CASE q[n] \notin S
    BY <1>4, <1>6, <2>2, <2>3
  <2>4. CASE q[n] \in S
    <3>1. kept[n] = Append(kept[n - 1], q[n]) /\ q[n] \in A
      BY <1>0, <1>4, <2>4
    <3>2. q[n] \notin Range(kept[n - 1])
      BY <1>0, <1>6 DEF IsInjective
    <3>3. /\ kept[n] \in Seq(A) /\ IsInjective(kept[n])
          /\ Range(kept[n]) = Range(kept[n - 1]) \cup {q[n]}
      BY <1>6, <3>1, <3>2, RangeAppend, InjectiveAppend, AppendProperties
    <3> QED
      BY <1>6, <2>2, <2>4, <3>3
  <2> QED
    BY <2>3, <2>4
<1> HIDE DEF Good
<1>7. Bad = {}
  <2> SUFFICES ASSUME Bad # {} PROVE FALSE
    OBVIOUS
  <2>1. Bad \in SUBSET Nat
    OBVIOUS
  <2>2. PICK n \in Bad : \A k \in Bad : n <= k
    BY <2>1, Smallest
  <2>3. n # 0 /\ n \in 1 .. Len(q) /\ n - 1 \in 0 .. Len(q)
    BY <1>0, <1>5
  <2>4. n - 1 \notin Bad
    BY <2>2, <2>3
  <2> QED
    BY <1>6, <2>3, <2>4
<1>8. Good(Len(q))
  BY <1>0, <1>7
<1>9. {q[k] : k \in 1 .. Len(q)} = Range(q)
  BY <1>0 DEF Range
<1> QED
  BY <1>1, <1>8, <1>9 DEF Good

\* In a line in which nobody stands twice there are as many as it is long.
LEMMA LineCardinality ==
  ASSUME NEW S, NEW q \in Seq(S), IsInjective(q)
  PROVE  /\ IsFiniteSet(Range(q))
         /\ Cardinality(Range(q)) = Len(q)
         /\ Range(q) \subseteq S
<1>1. Len(q) \in Nat /\ q \in [1..Len(q) -> S] /\ DOMAIN q = 1..Len(q)
  BY LenProperties
<1>2. q \in [1..Len(q) -> Range(q)]
  BY <1>1 DEF Range
<1>3. \A t \in Range(q) : \E i \in 1..Len(q) : q[i] = t
  BY <1>1 DEF Range
<1>4. q \in Bijection(1..Len(q), Range(q))
  BY <1>2, <1>3 DEF Bijection, Injection, Surjection
<1>5. ExistsBijection(1..Len(q), Range(q))
  BY <1>4 DEF ExistsBijection
<1>6. IsFiniteSet(Range(q)) /\ Cardinality(Range(q)) = Len(q)
  BY <1>1, <1>5, FS_NatBijection, FS_CountingElements
<1> QED
  BY <1>1, <1>6 DEF Range
=============================================================================
