------------------------- MODULE RateLimiterProofs -------------------------
(* Proofs about the limiter, for every limit and window. MaxHits and       *)
(* Horizon, which bound a run of TLC, may be any numbers.                  *)
EXTENDS RateLimiter, TLAPS

\* The inductive invariant: the bucket is the end of the history, and what was
\* popped is a window old.
Dropped == Len(accepted) - Len(bucket)
Suffix ==
  /\ Dropped \in Nat
  /\ \A i \in 1..Len(bucket) : bucket[i] = accepted[Dropped + i]
  /\ \A i \in 1..Dropped : accepted[i] <= now - Window
Sorted ==
  /\ \A i \in 1..Len(accepted) : accepted[i] <= now
  /\ \A i, j \in 1..Len(accepted) : i <= j => accepted[i] <= accepted[j]
IInv ==
  /\ TypeOK /\ Suffix /\ Sorted
  /\ NeverTooMany /\ RefusedOnlyWhenFull

\* What is left after k entries were popped.
LEMMA Rest ==
  ASSUME NEW S, NEW s \in Seq(S), NEW k \in 0..Len(s)
  PROVE  LET rest == SubSeq(s, k + 1, Len(s)) IN
           /\ rest \in Seq(S) /\ Len(rest) = Len(s) - k
           /\ \A i \in 1..Len(rest) : rest[i] = s[k + i]
  OBVIOUS

LEMMA InitIInv == Init => IInv
  BY LimiterAssumption DEF Init, IInv, TypeOK, Suffix, Dropped, Sorted, NeverTooMany,
     RefusedOnlyWhenFull, Nobody

\* Popping keeps the bucket the end of the history.
LEMMA PopsKeepSuffix ==
  ASSUME IInv, NEW k \in 0..Len(bucket), Pops(k),
         NEW rest, rest = SubSeq(bucket, k + 1, Len(bucket))
  PROVE  /\ rest \in Seq(0..Horizon) /\ Len(rest) = Len(bucket) - k
         /\ \A i \in 1..Len(rest) : rest[i] = accepted[Dropped + k + i]
         /\ \A i \in 1..(Dropped + k) : accepted[i] <= now - Window
<1> USE LimiterAssumption
<1>1. /\ rest \in Seq(0..Horizon) /\ Len(rest) = Len(bucket) - k
      /\ \A i \in 1..Len(rest) : rest[i] = bucket[k + i]
  <2>1. bucket \in Seq(0..Horizon)
    BY DEF IInv, TypeOK
  <2> QED
    BY <2>1, Rest
<1>2. Dropped \in Nat /\ Len(bucket) \in Nat
  BY DEF IInv, Suffix, TypeOK
<1>3. \A i \in 1..Len(rest) : rest[i] = accepted[Dropped + k + i]
  BY <1>1, <1>2 DEF IInv, Suffix
<1>4. ASSUME NEW i \in 1..(Dropped + k) PROVE accepted[i] <= now - Window
  <2>1. CASE i <= Dropped
    BY <2>1, <1>2 DEF IInv, Suffix
  <2>2. CASE i > Dropped
    <3>1. i - Dropped \in 1..k /\ i - Dropped \in 1..Len(bucket)
      BY <2>2, <1>2
    <3>2. bucket[i - Dropped] <= now - Window
      BY <3>1 DEF Pops, Stale
    <3>3. bucket[i - Dropped] = accepted[i]
      BY <3>1, <1>2 DEF IInv, Suffix
    <3> QED
      BY <3>2, <3>3
  <2> QED
    BY <2>1, <2>2, <1>2
<1> QED
  BY <1>1, <1>3, <1>4

LEMMA Types ==
  IInv => /\ now \in Nat /\ Len(bucket) \in Nat /\ Len(accepted) \in Nat
          /\ Len(bucket) <= Limit /\ Dropped \in Nat
          /\ Len(accepted) = Dropped + Len(bucket)
          /\ \A i \in 1..Len(accepted) : accepted[i] \in Nat
          /\ \A i \in 1..Len(bucket) : bucket[i] \in Nat
<1> SUFFICES ASSUME IInv
             PROVE  /\ now \in Nat /\ Len(bucket) \in Nat /\ Len(accepted) \in Nat
                    /\ Len(bucket) <= Limit /\ Dropped \in Nat
                    /\ Len(accepted) = Dropped + Len(bucket)
                    /\ \A i \in 1..Len(accepted) : accepted[i] \in Nat
                    /\ \A i \in 1..Len(bucket) : bucket[i] \in Nat
  OBVIOUS
<1>1. now \in 0..Horizon /\ bucket \in Seq(0..Horizon) /\ Len(bucket) <= Limit
      /\ accepted \in Seq(0..Horizon)
  BY DEF IInv, TypeOK
<1>2. Dropped \in Nat
  BY DEF IInv, Suffix
<1>3. Len(bucket) \in Nat /\ Len(accepted) \in Nat
  BY <1>1
<1>4. Len(accepted) = Dropped + Len(bucket)
  BY <1>2, <1>3 DEF Dropped
<1>5. /\ \A i \in 1..Len(accepted) : accepted[i] \in Nat
      /\ \A i \in 1..Len(bucket) : bucket[i] \in Nat
  BY <1>1, LimiterAssumption
<1> QED
  BY <1>1, <1>2, <1>3, <1>4, <1>5

LEMMA RefuseIInv ==
  ASSUME IInv, NEW k \in 0..Len(bucket), Pops(k), Refuse(SubSeq(bucket, k + 1, Len(bucket)))
  PROVE  IInv'
<1> DEFINE rest == SubSeq(bucket, k + 1, Len(bucket))
<1>1. Len(rest) = Len(bucket) - k
  BY PopsKeepSuffix
<1>2. /\ Len(rest) >= Limit /\ bucket' = rest /\ now' = now /\ accepted' = accepted
      /\ answer' = [told |-> "429", at |-> now]
  BY DEF Refuse
<1> HIDE DEF rest
<1>3. k = 0 /\ Len(bucket) = Limit
  BY ONLY <1>1, <1>2, Types, LimiterAssumption, IInv, k \in 0..Len(bucket)
<1>4. rest = bucket
  <2>1. bucket \in Seq(0..Horizon)
    BY DEF IInv, TypeOK
  <2> QED
    BY ONLY <2>1, <1>3 DEF rest
<1>5. TypeOK' /\ Suffix' /\ Sorted' /\ NeverTooMany'
  BY <1>2, <1>4 DEF IInv, TypeOK, Suffix, Dropped, Sorted, NeverTooMany
<1>6. bucket[1] > now - Window
  BY ONLY <1>3, Pops(k), LimiterAssumption, Types, IInv DEF Pops, Stale
<1>7. bucket[1] = accepted[Dropped + 1]
  BY ONLY <1>3, IInv, Types, LimiterAssumption DEF IInv, Suffix
<1>8. Dropped + 1 = Len(accepted) - Limit + 1 /\ Len(accepted) >= Limit
  BY ONLY <1>3, IInv, Types, LimiterAssumption
<1>9. RefusedOnlyWhenFull'
  BY ONLY <1>2, <1>6, <1>7, <1>8 DEF RefusedOnlyWhenFull
<1> QED
  BY <1>5, <1>9 DEF IInv

LEMMA AllowIInv ==
  ASSUME IInv, NEW k \in 0..Len(bucket), Pops(k), Allow(SubSeq(bucket, k + 1, Len(bucket)))
  PROVE  IInv'
<1> DEFINE rest == SubSeq(bucket, k + 1, Len(bucket))
           N == Len(accepted)
           M == Len(rest)
           D == Dropped
<1>1. /\ rest \in Seq(0..Horizon) /\ M = Len(bucket) - k
      /\ \A i \in 1..M : rest[i] = accepted[D + k + i]
      /\ \A i \in 1..(D + k) : accepted[i] <= now - Window
  BY PopsKeepSuffix
<1>2. /\ M < Limit /\ bucket' = Append(rest, now) /\ now' = now
      /\ accepted' = Append(accepted, now) /\ answer' = [told |-> "ok", at |-> now]
  BY DEF Allow
<1>3. accepted \in Seq(0..Horizon) /\ now \in 0..Horizon
  BY DEF IInv, TypeOK
<1> HIDE DEF rest
<1>4. /\ accepted' \in Seq(0..Horizon) /\ Len(accepted') = N + 1
      /\ \A i \in 1..N : accepted'[i] = accepted[i]
      /\ accepted'[N + 1] = now
  BY ONLY <1>2, <1>3
<1>5. /\ bucket' \in Seq(0..Horizon) /\ Len(bucket') = M + 1
      /\ \A i \in 1..M : bucket'[i] = rest[i]
      /\ bucket'[M + 1] = now
  BY ONLY <1>1, <1>2, <1>3
<1>6. /\ N \in Nat /\ M \in Nat /\ D \in Nat /\ k \in Nat
      /\ N = D + k + M /\ \A i \in 1..N : accepted[i] \in Nat
  <2>1. k \in Nat /\ k <= Len(bucket)
    BY ONLY k \in 0..Len(bucket), Types, IInv
  <2> QED
    BY ONLY <1>1, <2>1, Types, IInv
<1>7. Dropped' = D + k
  <2>1. Dropped' = Len(accepted') - Len(bucket')
    BY DEF Dropped
  <2> HIDE DEF N, M, D
  <2> QED
    BY ONLY <2>1, <1>4, <1>5, <1>6
<1> HIDE DEF N, M, D
<1>8. TypeOK'
  <2>1. Len(bucket') <= Limit
    BY ONLY <1>2, <1>5, <1>6, LimiterAssumption
  <2>2. answer' \in [told : {"none", "ok", "429"}, at : 0..Horizon]
    BY ONLY <1>2, <1>3
  <2>3. now' \in 0..Horizon
    BY ONLY <1>2, <1>3
  <2> QED
    BY ONLY <1>4, <1>5, <2>1, <2>2, <2>3 DEF TypeOK
<1>9. Suffix'
  <2>1. ASSUME NEW i \in 1..Len(bucket') PROVE bucket'[i] = accepted'[Dropped' + i]
    <3>1. CASE i \in 1..M
      <4>1. D + k + i \in 1..N
        BY ONLY <1>6, <3>1
      <4> QED
        BY ONLY <4>1, <3>1, <1>1, <1>4, <1>5, <1>7
    <3>2. CASE i = M + 1
      <4>1. D + k + i = N + 1
        BY ONLY <1>6, <3>2
      <4> QED
        BY ONLY <4>1, <3>2, <1>4, <1>5, <1>7
    <3> QED
      BY ONLY <3>1, <3>2, <1>5, <1>6, i \in 1..Len(bucket')
  <2>2. ASSUME NEW i \in 1..Dropped' PROVE accepted'[i] <= now' - Window
    <3>1. i \in 1..(D + k) /\ i \in 1..N
      BY ONLY <1>6, <1>7, i \in 1..Dropped'
    <3> QED
      BY ONLY <3>1, <1>1, <1>2, <1>4
  <2> QED
    BY ONLY <2>1, <2>2, <1>6, <1>7 DEF Suffix
<1>10. Sorted'
  <2>1. /\ \A i \in 1..N : accepted[i] <= now
        /\ \A i, j \in 1..N : i <= j => accepted[i] <= accepted[j]
    BY DEF IInv, Sorted, N
  <2>2. now \in Nat
    BY <1>3
  <2>3. ASSUME NEW i \in 1..(N + 1) PROVE accepted'[i] <= now
    BY ONLY <1>4, <1>6, <2>1, <2>2, i \in 1..(N + 1)
  <2>4. ASSUME NEW i \in 1..(N + 1), NEW j \in 1..(N + 1), i <= j
        PROVE  accepted'[i] <= accepted'[j]
    <3>1. CASE j = N + 1
      BY ONLY <3>1, <2>3, <1>4
    <3>2. CASE j \in 1..N
      <4>1. i \in 1..N
        BY ONLY <3>2, <2>4, <1>6, i \in 1..(N + 1)
      <4> QED
        BY ONLY <4>1, <3>2, <2>4, <2>1, <1>4
    <3> QED
      BY ONLY <3>1, <3>2, <1>6, j \in 1..(N + 1)
  <2> QED
    BY ONLY <2>3, <2>4, <1>2, <1>4 DEF Sorted
<1>11. NeverTooMany'
  <2> SUFFICES ASSUME NEW i \in 1..(N + 1), i + Limit <= N + 1
               PROVE  accepted'[i + Limit] - accepted'[i] >= Window
    BY <1>4 DEF NeverTooMany
  <2>0. Limit \in Nat /\ Limit > 0 /\ Window \in Nat /\ now \in Nat
    BY LimiterAssumption, <1>3
  <2>1. i \in 1..N
    BY ONLY <2>0, <1>6, i \in 1..(N + 1), i + Limit <= N + 1
  <2>2. CASE i + Limit \in 1..N
    <3>1. accepted[i + Limit] - accepted[i] >= Window
      BY <2>1, <2>2, <2>0, <1>6 DEF IInv, NeverTooMany, N
    <3> QED
      BY ONLY <3>1, <2>1, <2>2, <1>4
  <2>3. CASE i + Limit = N + 1
    <3>1. i \in 1..(D + k)
      BY ONLY <2>0, <2>1, <2>3, <1>2, <1>6
    <3>2. accepted[i] <= now - Window /\ accepted[i] \in Nat
      BY ONLY <3>1, <2>1, <1>1, <1>6
    <3>3. accepted'[i + Limit] = now /\ accepted'[i] = accepted[i]
      BY ONLY <2>1, <2>3, <1>4
    <3> QED
      BY ONLY <3>2, <3>3, <2>0
  <2> QED
    BY ONLY <2>0, <2>1, <2>2, <2>3, <1>6, i + Limit <= N + 1
<1>12. RefusedOnlyWhenFull'
  BY ONLY <1>2 DEF RefusedOnlyWhenFull
<1> QED
  BY <1>8, <1>9, <1>10, <1>11, <1>12 DEF IInv

LEMMA HitIInv == IInv /\ Hit => IInv'
  BY RefuseIInv, AllowIInv DEF Hit

LEMMA StepIInv == IInv /\ [Next]_vars => IInv'
<1> USE LimiterAssumption
<1> SUFFICES ASSUME IInv, [Next]_vars PROVE IInv'
  OBVIOUS
<1>1. CASE Hit
  BY <1>1, HitIInv
<1>2. CASE Tick
  <2>1. /\ now' = now + 1 /\ now < Horizon
        /\ bucket' = bucket /\ accepted' = accepted /\ answer' = answer
    BY <1>2 DEF Tick
  <2>2. TypeOK' /\ Dropped' = Dropped
    BY <2>1 DEF IInv, TypeOK, Dropped
  <2>3. /\ now \in Nat /\ Dropped \in Nat /\ Dropped <= Len(accepted)
        /\ \A i \in 1..Len(accepted) : accepted[i] \in Nat
    BY Types
  <2>4. ASSUME NEW i \in 1..Dropped PROVE accepted'[i] <= now' - Window
    <3>1. accepted[i] <= now - Window
      BY DEF IInv, Suffix
    <3>2. accepted[i] \in Nat
      BY ONLY <2>3, i \in 1..Dropped, Types, IInv
    <3> QED
      BY ONLY <3>1, <3>2, <2>1, <2>3, LimiterAssumption
  <2>6. \A i \in 1..Len(bucket') : bucket'[i] = accepted'[Dropped' + i]
    BY <2>1, <2>2 DEF IInv, Suffix
  <2>7. Suffix'
    BY ONLY <2>2, <2>3, <2>4, <2>6 DEF Suffix
  <2>8. Sorted'
    <3>1. ASSUME NEW i \in 1..Len(accepted) PROVE accepted[i] <= now + 1
      <4>1. accepted[i] <= now
        BY DEF IInv, Sorted
      <4> QED
        BY ONLY <4>1, <2>3, i \in 1..Len(accepted)
    <3> QED
      BY <2>1, <3>1 DEF IInv, Sorted
  <2>5. NeverTooMany' /\ RefusedOnlyWhenFull'
    BY <2>1 DEF IInv, NeverTooMany, RefusedOnlyWhenFull
  <2> QED
    BY <2>2, <2>5, <2>7, <2>8 DEF IInv
<1>3. CASE Restart
  BY <1>3 DEF Restart, IInv, TypeOK, Suffix, Dropped, Sorted, NeverTooMany,
     RefusedOnlyWhenFull, Nobody
<1>4. CASE UNCHANGED vars
  BY <1>4 DEF vars, IInv, TypeOK, Suffix, Dropped, Sorted, NeverTooMany,
     RefusedOnlyWhenFull
<1> QED
  BY <1>1, <1>2, <1>3, <1>4 DEF Next

\* hit() lets no more than Limit hits through in any window, also in one that
\* lies across several states of the bucket.
THEOREM WindowIsRespected == Spec => []NeverTooMany
<1>1. IInv => NeverTooMany
  BY DEF IInv
<1> QED
  BY <1>1, InitIInv, StepIInv, PTL DEF Spec

\* enforce() answers 429 only in a window in which Limit hits were let through.
THEOREM RefusalHasCause == Spec => []RefusedOnlyWhenFull
<1>1. IInv => RefusedOnlyWhenFull
  BY DEF IInv
<1> QED
  BY <1>1, InitIInv, StepIInv, PTL DEF Spec

\* The bucket never holds more than Limit entries.
THEOREM LimiterTypes == Spec => []TypeOK
<1>1. IInv => TypeOK
  BY DEF IInv
<1> QED
  BY <1>1, InitIInv, StepIInv, PTL DEF Spec
=============================================================================
