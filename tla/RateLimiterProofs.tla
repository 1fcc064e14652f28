-------------------------- MODULE RateLimiterProofs ---------------------------
(***************************************************************************)
(* What RateLimiter's buckets promise holds for every choice of the limits *)
(* and windows, any resolution of the clock and any age that cleanup is    *)
(* given.  The argument is one of accounts: what was admitted, and what    *)
(* the bucket still holds, is covered by a full bucket, another for each   *)
(* early removal, and the refill of the time that has passed.              *)
(***************************************************************************)
EXTENDS RateLimiter, TLAPS

Spent(k) == admitted[k] * Cost(k)

\* What was refilled between the observer's start and the bucket's last check.
Earned(k) == (bucket[k].last - since[k]) * Max[k]

\* What the removals within the window gave away.
Given(k) == early[k] * Capacity(k)

\* The bucket was checked after the observer began.
Observed(k) == bucket[k].last >= since[k]

\* The account of bucket k: the tokens left are covered too, unless negative.
Account(k) ==
  /\ since[k] <= now
  /\ bucket[k].last <= now
  /\ bucket[k].tokens <= Capacity(k)
  /\ bucket[k].there /\ Observed(k) =>
       /\ Spent(k) <= Given(k) + Capacity(k) + Earned(k)
       /\ Spent(k) + bucket[k].tokens <= Given(k) + Capacity(k) + Earned(k)
  /\ bucket[k].there /\ ~Observed(k) => admitted[k] = 0
  /\ ~bucket[k].there => Spent(k) <= Given(k) + (now - since[k]) * Max[k]

\* What the last answer of bucket k said follows from the bucket.
Honest(k) ==
  bucket[k].there =>
    /\ told[k].remaining > 0 => bucket[k].tokens >= Cost(k)
    /\ told[k].denied =>
         /\ bucket[k].tokens < 0
         /\ told[k].again = bucket[k].last + RetryAfter(k, bucket[k].tokens) * Second

IInv == TypeOK /\ \A k \in Key : Account(k) /\ Honest(k)

------------------------------------------------------------------------------
(* Arithmetic *)

\* A longer time refills no less.
LEMMA MoreTime ==
  ASSUME NEW a \in Int, NEW b \in Int, NEW m \in Nat, a <= b
  PROVE  a * m <= b * m
<1>1. (b - a) * m >= 0
  OBVIOUS
<1>2. QED
  BY <1>1

\* Division with remainder.
LEMMA Divide ==
  ASSUME NEW n \in Nat, NEW m \in Nat \ {0}
  PROVE  /\ n \div m \in Nat
         /\ (n \div m) * m <= n
         /\ n < (n \div m) * m + m
OBVIOUS

\* The limits are positive, and a bucket holds at least one request.
LEMMA Limits ==
  ASSUME NEW k \in Key
  PROVE  /\ Max[k] \in Nat \ {0} /\ Window[k] \in Nat \ {0} /\ Second \in Nat \ {0}
         /\ Cost(k) \in Nat \ {0}
         /\ Capacity(k) \in Nat /\ Capacity(k) >= Cost(k)
<1>1. Max[k] \in Nat \ {0} /\ Window[k] \in Nat \ {0} /\ Second \in Nat \ {0}
  BY LimitAssumption, ClockAssumption
<1>2. Cost(k) \in Nat \ {0}
  <2>1. 1 * Second <= Window[k] * Second
    BY <1>1, MoreTime
  <2> QED
    BY <1>1, <2>1 DEF Cost
<1>3. 1 * Cost(k) <= Max[k] * Cost(k)
  BY <1>1, <1>2, MoreTime
<1> QED
  BY <1>1, <1>2, <1>3 DEF Capacity

LEMMA GivenTyped ==
  ASSUME TypeOK, NEW k \in Key
  PROVE  Given(k) \in Nat
BY Limits DEF Given, TypeOK

------------------------------------------------------------------------------
(* One check *)

\* What is left is an integer, and no more than a full bucket less a request.
LEMMA LeftTyped ==
  ASSUME TypeOK, NEW k \in Key
  PROVE  Left(k) \in Int /\ Left(k) <= Capacity(k) - Cost(k)
<1>1. bucket[k] \in Bucket /\ now \in Nat
  BY DEF TypeOK
<1>2. Elapsed(k) * Max[k] \in Int
  BY <1>1, Limits DEF Elapsed, Bucket
<1>3. QED
  BY <1>1, <1>2, Limits DEF Left, Refilled, Bucket

\* A bucket that has been checked before is left with at most what it had and
\* what was refilled, less the request.
LEMMA LeftBounded ==
  ASSUME TypeOK, NEW k \in Key, bucket[k].there
  PROVE  Left(k) <= bucket[k].tokens + (now - bucket[k].last) * Max[k] - Cost(k)
<1>1. bucket[k] \in Bucket /\ now \in Nat
  BY DEF TypeOK
<1>2. Elapsed(k) * Max[k] \in Int
  BY <1>1, Limits DEF Elapsed, Bucket
<1>3. QED
  BY <1>1, <1>2, Limits DEF Left, Refilled, Elapsed, Bucket

\* A bucket that held n requests after its last check admits the next one.
LEMMA HeldAdmits ==
  ASSUME TypeOK, NEW k \in Key, bucket[k].last <= now,
         bucket[k].there => bucket[k].tokens >= Cost(k)
  PROVE  Left(k) >= 0
<1>1. bucket[k] \in Bucket /\ now \in Nat
  BY DEF TypeOK
<1>2. Elapsed(k) * Max[k] \in Nat
  <2>1. Elapsed(k) \in Nat
    BY <1>1 DEF Elapsed, Bucket
  <2>2. QED
    BY <2>1, Limits
<1>3. QED
  BY <1>1, <1>2, Limits DEF Left, Refilled, Bucket

\* Either a second is waited for in addition, or the whole bucket that
\* Retry-After waits for holds a request and what a second refills.
LEMMA CutMadeUp ==
  ASSUME NEW k \in Key
  PROVE  CutOff(k) * Max[k] >= Second * Max[k] \/ Capacity(k) - Second * Max[k] >= Cost(k)
<1>1. Max[k] \in Nat /\ Window[k] \in Nat /\ Second \in Nat
  BY Limits
<1>2. CASE Window[k] * (Max[k] - 1) >= Max[k]
  <2>1. Max[k] * Second <= (Window[k] * (Max[k] - 1)) * Second
    BY <1>1, <1>2, MoreTime
  <2>2. (Window[k] * (Max[k] - 1)) * Second = Max[k] * (Window[k] * Second) - Window[k] * Second
    BY <1>1
  <2> QED
    BY <1>1, <2>1, <2>2 DEF Capacity, Cost
<1>3. CASE ~(Window[k] * (Max[k] - 1) >= Max[k])
  BY <1>1, <1>3 DEF CutOff
<1> QED
  BY <1>2, <1>3

\* What Retry-After says, and what int() may have cut off it, is long enough for
\* the debt and the next request.
LEMMA WaitedAdmits ==
  ASSUME TypeOK, NEW k \in Key, bucket[k].there, bucket[k].tokens < 0,
         now >= bucket[k].last + RetryAfter(k, bucket[k].tokens) * Second + CutOff(k)
  PROVE  Left(k) >= 0
<1> DEFINE n == -bucket[k].tokens
           m == Second * Max[k]
           q == n \div m
           e == Elapsed(k)
<1>1. bucket[k] \in Bucket /\ now \in Nat /\ n \in Nat /\ e \in Int
  BY DEF TypeOK, Bucket, Elapsed
<1>2. m \in Nat \ {0}
  <2>1. Second * Max[k] \in Nat
    BY Limits
  <2>2. 1 * Max[k] <= Second * Max[k]
    BY Limits, MoreTime
  <2> QED
    BY <2>1, <2>2, Limits
<1>3. q \in Nat /\ n < q * m + m
  BY <1>1, <1>2, Divide
<1>4. CutOff(k) \in Nat /\ (CutOff(k) = Second \/ CutOff(k) = 0)
  BY Limits DEF CutOff
<1>5. (Window[k] + q) * Second + CutOff(k) <= e
  BY <1>1, <1>2, <1>3, <1>4, Limits DEF RetryAfter, Elapsed, Bucket
<1> HIDE DEF n, q, e
<1>6. (Window[k] * Second + q * Second + CutOff(k)) * Max[k] <= e * Max[k]
  <2>1. (Window[k] + q) * Second + CutOff(k) = Window[k] * Second + q * Second + CutOff(k)
    BY <1>3, <1>4, Limits
  <2>2. Window[k] * Second + q * Second + CutOff(k) \in Int
    BY <1>3, <1>4, Limits
  <2> QED
    BY <1>1, <1>5, <2>1, <2>2, Limits, MoreTime
<1>7. (Window[k] * Second + q * Second + CutOff(k)) * Max[k]
        = Capacity(k) + q * m + CutOff(k) * Max[k]
  BY <1>3, <1>4, Limits DEF Capacity, Cost
<1>8. CutOff(k) * Max[k] >= m \/ Capacity(k) - m >= Cost(k)
  BY CutMadeUp
<1>9. e * Max[k] - n >= Cost(k)
  <2>1. q * m \in Int /\ e * Max[k] \in Int /\ CutOff(k) * Max[k] \in Nat
    BY <1>1, <1>2, <1>3, <1>4, Limits
  <2> HIDE DEF m
  <2> QED
    BY <1>1, <1>2, <1>3, <1>6, <1>7, <1>8, <2>1, Limits
<1> QED
  BY <1>1, <1>9, Limits DEF Left, Refilled, n, e, Bucket

------------------------------------------------------------------------------
(* The accounts are kept *)

\* A step that leaves bucket, count, observer and answer of k as they are.
Untouched(k) ==
  /\ bucket'[k] = bucket[k] /\ admitted'[k] = admitted[k]
  /\ since'[k] = since[k] /\ told'[k] = told[k] /\ early'[k] = early[k]

\* Time passes: nothing that is not observed yet is lost.
LEMMA UntouchedKeeps ==
  ASSUME TypeOK, TypeOK', NEW k \in Key, Account(k), Honest(k), Untouched(k),
         now <= now'
  PROVE  Account(k)' /\ Honest(k)'
<1>1. now \in Nat /\ now' \in Nat /\ since[k] \in Nat /\ bucket[k] \in Bucket
      /\ admitted[k] \in Nat
  BY DEF TypeOK
<1>2. (now - since[k]) * Max[k] <= (now' - since[k]) * Max[k]
  BY <1>1, Limits, MoreTime
<1>3. Spent(k)' = Spent(k) /\ Earned(k)' = Earned(k) /\ Given(k)' = Given(k)
  BY DEF Untouched, Spent, Earned, Given, Capacity, Cost
<1>4. Spent(k) \in Int /\ Given(k) \in Nat /\ (now - since[k]) * Max[k] \in Int
      /\ (now' - since[k]) * Max[k] \in Int
  BY <1>1, GivenTyped, Limits DEF Spent
<1>5. Account(k)'
  <2>1. /\ since'[k] <= now' /\ bucket'[k].last <= now'
        /\ bucket'[k].tokens <= Capacity(k)
    BY <1>1 DEF Account, Untouched, Bucket
  <2>2. ~bucket[k].there => Spent(k) <= Given(k) + (now' - since[k]) * Max[k]
    BY <1>2, <1>4 DEF Account
  <2>3. Observed(k)' = Observed(k)
    BY DEF Observed, Untouched
  <2>4. Capacity(k)' = Capacity(k)
    BY DEF Capacity, Cost
  <2>5. QED
    BY <2>1, <2>2, <2>3, <2>4, <1>3 DEF Account, Untouched
<1>6. Honest(k)'
  BY DEF Honest, Untouched, RetryAfter
<1>7. QED
  BY <1>5, <1>6

\* The account of a bucket that has just been checked, whether the request was
\* admitted (d = 1) or denied (d = 0).
LEMMA CheckPays ==
  ASSUME TypeOK, NEW k \in Key, Account(k), NEW d \in {0, 1},
         d = 0 <=> Left(k) < 0
  PROVE  LET spent == (admitted[k] + d) * Cost(k)
             bound == Given(k) + Capacity(k) + (now - since[k]) * Max[k]
         IN  spent <= bound /\ spent + Left(k) <= bound
<1> DEFINE earned == (now - since[k]) * Max[k]
           before == (bucket[k].last - since[k]) * Max[k]
           after  == (now - bucket[k].last) * Max[k]
           refund == d * Cost(k)
<1>1. now \in Nat /\ since[k] \in Nat /\ bucket[k] \in Bucket
      /\ admitted[k] \in Nat
  BY DEF TypeOK
<1>2. earned \in Nat /\ before \in Int /\ after \in Nat
  <2>1. now - since[k] \in Nat /\ now - bucket[k].last \in Nat
    BY <1>1 DEF Account, Bucket
  <2>2. QED
    BY <2>1, <1>1, Limits DEF Bucket
<1>3. earned = before + after
  BY <1>1, Limits DEF Bucket
<1>4. (admitted[k] + d) * Cost(k) = Spent(k) + refund
  BY <1>1, Limits DEF Spent
<1>5. refund \in {0, Cost(k)} /\ (Left(k) < 0 => refund = 0)
  BY Limits
<1>6. Spent(k) \in Nat
  BY <1>1, Limits DEF Spent
<1>7. Left(k) \in Int /\ Left(k) <= Capacity(k) - Cost(k)
  BY LeftTyped
<1>g. Given(k) \in Nat
  BY GivenTyped
<1> HIDE DEF earned, before, after, refund
<1>8. Spent(k) + refund + Left(k) <= Given(k) + Capacity(k) + earned
  <2>1. CASE bucket[k].there /\ Observed(k)
    <3>1. Spent(k) + bucket[k].tokens <= Given(k) + Capacity(k) + before
      BY <2>1 DEF Account, Earned, before
    <3>2. Left(k) <= bucket[k].tokens + after - Cost(k)
      BY <2>1, LeftBounded DEF after
    <3>3. QED
      BY <3>1, <3>2, <1>1, <1>2, <1>3, <1>5, <1>6, <1>7, <1>g, Limits DEF Bucket
  <2>2. CASE bucket[k].there /\ ~Observed(k)
    <3>1. Spent(k) = 0
      BY <2>2, Limits DEF Account, Spent
    <3>2. QED
      BY <3>1, <1>2, <1>5, <1>7, <1>g, Limits
  <2>3. CASE ~bucket[k].there
    <3>1. Spent(k) <= Given(k) + earned
      BY <2>3 DEF Account, earned
    <3>2. QED
      BY <3>1, <1>2, <1>5, <1>6, <1>7, <1>g, Limits
  <2>4. QED
    BY <2>1, <2>2, <2>3
<1>9. Spent(k) + refund <= Given(k) + Capacity(k) + earned
  <2>1. CASE Left(k) >= 0
    BY <2>1, <1>2, <1>5, <1>6, <1>7, <1>8, <1>g, Limits
  <2>2. CASE Left(k) < 0
    <3>1. refund = 0
      BY <2>2, <1>5
    <3>2. CASE bucket[k].there /\ Observed(k)
      <4>1. Spent(k) <= Given(k) + Capacity(k) + before
        BY <3>2 DEF Account, Earned, before
      <4>2. QED
        BY <4>1, <3>1, <1>2, <1>3, <1>6, <1>g, Limits
    <3>3. CASE bucket[k].there /\ ~Observed(k)
      <4>1. Spent(k) = 0
        BY <3>3, Limits DEF Account, Spent
      <4>2. QED
        BY <4>1, <3>1, <1>2, <1>g, Limits
    <3>4. CASE ~bucket[k].there
      <4>1. Spent(k) <= Given(k) + earned
        BY <3>4 DEF Account, earned
      <4>2. QED
        BY <4>1, <3>1, <1>2, <1>6, <1>g, Limits
    <3>5. QED
      BY <3>2, <3>3, <3>4
  <2>3. QED
    BY <2>1, <2>2, <1>7
<1>10. QED
  BY <1>4, <1>8, <1>9 DEF earned

------------------------------------------------------------------------------
(* Every step keeps the types *)

\* What check tells the client are natural numbers.
LEMMA ToldTyped ==
  ASSUME TypeOK, NEW k \in Key
  PROVE  /\ Left(k) >= 0 => Remaining(k, Left(k)) \in Nat
         /\ Left(k) < 0 => now + RetryAfter(k, Left(k)) * Second \in Nat
<1>1. Left(k) \in Int
  BY LeftTyped
<1>2. ASSUME Left(k) >= 0
      PROVE  Remaining(k, Left(k)) \in Nat
  BY <1>1, <1>2, Limits, Divide DEF Remaining
<1>3. ASSUME Left(k) < 0
      PROVE  now + RetryAfter(k, Left(k)) * Second \in Nat
  <2>1. Second * Max[k] \in Nat \ {0}
    <3>1. 1 * Max[k] <= Second * Max[k] /\ Second * Max[k] \in Nat
      BY Limits, MoreTime
    <3> QED
      BY <3>1, Limits
  <2>2. (-Left(k)) \div (Second * Max[k]) \in Nat
    BY <1>1, <1>3, <2>1, Divide
  <2>3. RetryAfter(k, Left(k)) \in Nat
    BY <2>2, Limits DEF RetryAfter
  <2>4. RetryAfter(k, Left(k)) * Second \in Nat
    BY <2>3, Limits
  <2>5. QED
    BY <2>4 DEF TypeOK
<1>4. QED
  BY <1>2, <1>3

LEMMA TypeKept ==
  ASSUME TypeOK, [Next]_vars
  PROVE  TypeOK'
<1>1. CASE Tick
  BY <1>1 DEF Tick, TypeOK
<1>2. CASE Cleanup
  <2>1. NoBucket \in Bucket
    BY DEF NoBucket, Bucket
  <2>2. QED
    BY <1>2, <2>1 DEF Cleanup, TypeOK
<1>3. ASSUME NEW k \in Key, Check(k)
      PROVE  TypeOK'
  <2> DEFINE left == Left(k)
  <2>1. left \in Int
    BY LeftTyped
  <2>2. bucket' \in [Key -> Bucket]
    <3>1. [there |-> TRUE, tokens |-> left, last |-> now] \in Bucket
      BY <2>1 DEF TypeOK, Bucket
    <3>2. QED
      BY <1>3, <3>1 DEF Check, TypeOK
  <2>3. told' \in [Key -> Answer] /\ admitted' \in [Key -> Nat]
    <3>1. CASE left >= 0
      <4>1. [denied |-> FALSE, again |-> 0, remaining |-> Remaining(k, left)]
              \in Answer
        BY <3>1, ToldTyped DEF Answer
      <4>2. Admit(k, left)
        BY <1>3, <3>1 DEF Check
      <4> HIDE DEF left
      <4>3. QED
        BY <4>1, <4>2 DEF Admit, TypeOK
    <3>2. CASE left < 0
      <4>1. [denied |-> TRUE, remaining |-> 0,
             again |-> now + RetryAfter(k, left) * Second] \in Answer
        BY <3>2, ToldTyped DEF Answer
      <4>2. Deny(k, left)
        BY <1>3, <2>1, <3>2 DEF Check
      <4> HIDE DEF left
      <4>3. QED
        BY <4>1, <4>2 DEF Deny, TypeOK
    <3>3. QED
      BY <2>1, <3>1, <3>2
  <2>4. QED
    BY <1>3, <2>2, <2>3 DEF Check, TypeOK
<1>4. ASSUME NEW k \in Key, Observe(k)
      PROVE  TypeOK'
  BY <1>4 DEF Observe, TypeOK
<1>5. CASE UNCHANGED vars
  BY <1>5 DEF vars, TypeOK
<1>6. QED
  BY <1>1, <1>2, <1>3, <1>4, <1>5 DEF Next

------------------------------------------------------------------------------
(* Every step keeps the accounts *)

LEMMA StartsBalanced == Init => IInv
<1> SUFFICES ASSUME Init PROVE IInv
  OBVIOUS
<1>1. TypeOK
  BY DEF Init, TypeOK, Bucket, NoBucket, Answer
<1>2. ASSUME NEW k \in Key
      PROVE  Account(k) /\ Honest(k)
  <2>1. Spent(k) = 0 /\ Given(k) = 0 /\ (now - since[k]) * Max[k] = 0
    BY Limits DEF Init, Spent, Given
  <2>2. QED
    BY <2>1, Limits DEF Init, NoBucket, Account, Honest
<1>3. QED
  BY <1>1, <1>2 DEF IInv

LEMMA CheckKeeps ==
  ASSUME IInv, TypeOK', NEW k \in Key, Check(k)
  PROVE  Account(k)' /\ Honest(k)'
<1> DEFINE left == Left(k)
           d == IF left >= 0 THEN 1 ELSE 0
<1>1. /\ TypeOK /\ Account(k)
      /\ now \in Nat /\ since[k] \in Nat /\ admitted[k] \in Nat
  BY DEF IInv, TypeOK
<1>2. left \in Int /\ left <= Capacity(k) - Cost(k)
  BY <1>1, LeftTyped
<1>3. /\ bucket'[k] = [there |-> TRUE, tokens |-> left, last |-> now]
      /\ now' = now /\ since'[k] = since[k] /\ early' = early
  BY <1>1 DEF Check, TypeOK
<1>4. admitted'[k] = admitted[k] + d
  BY <1>1 DEF Check, Admit, Deny, TypeOK
<1>5. Account(k)'
  <2>1. Spent(k)' = (admitted[k] + d) * Cost(k)
    BY <1>4 DEF Spent
  <2>2. Earned(k)' = (now - since[k]) * Max[k]
    BY <1>3 DEF Earned
  <2>3. d \in {0, 1} /\ (d = 0 <=> Left(k) < 0)
    BY <1>2
  <2>4. /\ Spent(k)' <= Given(k) + Capacity(k) + Earned(k)'
        /\ Spent(k)' + left <= Given(k) + Capacity(k) + Earned(k)'
    BY <1>1, <2>1, <2>2, <2>3, CheckPays
  <2>5. Observed(k)' /\ Capacity(k)' = Capacity(k) /\ Given(k)' = Given(k)
    BY <1>1, <1>3 DEF Observed, Capacity, Cost, Given, Account
  <2>6. left <= Capacity(k) /\ since[k] <= now /\ now <= now
    BY <1>1, <1>2, Limits DEF Account
  <2> HIDE DEF left, d
  <2>7. QED
    BY <1>3, <2>4, <2>5, <2>6 DEF Account
<1>6. Honest(k)'
  <2>1. CASE left >= 0
    <3>1. told'[k] = [denied |-> FALSE, again |-> 0,
                      remaining |-> left \div Cost(k)]
      BY <1>1, <2>1 DEF Check, Admit, Remaining, TypeOK
    <3>2. left \div Cost(k) > 0 => left >= Cost(k)
      <4>1. ASSUME left \div Cost(k) > 0
            PROVE  left >= Cost(k)
        <5> DEFINE q == left \div Cost(k)
        <5>1. q \in Nat /\ q * Cost(k) <= left
          BY <1>2, <2>1, Limits, Divide
        <5>2. 1 * Cost(k) <= q * Cost(k)
          BY <4>1, <5>1, Limits, MoreTime
        <5> HIDE DEF q, left
        <5>3. q * Cost(k) \in Int
          BY <5>1, Limits
        <5>4. QED
          BY <5>1, <5>2, <5>3, <1>2, Limits
      <4>2. QED
        BY <4>1
    <3> HIDE DEF left
    <3>3. QED
      BY <1>3, <3>1, <3>2 DEF Honest
  <2>2. CASE left < 0
    <3>1. told'[k] = [denied |-> TRUE, remaining |-> 0,
                      again |-> now + RetryAfter(k, left) * Second]
      BY <1>1, <1>2, <2>2 DEF Check, Deny, TypeOK
    <3> HIDE DEF left
    <3>2. QED
      BY <1>3, <2>2, <3>1 DEF Honest, RetryAfter
  <2>3. QED
    BY <1>2, <2>1, <2>2
<1>7. QED
  BY <1>5, <1>6

\* Removing a bucket loses its debt: the refill has made it up, or the removal
\* is one within the window.
LEMMA CleanupKeeps ==
  ASSUME IInv, TypeOK', NEW k \in Key, Cleanup
  PROVE  Account(k)' /\ Honest(k)'
<1>1. /\ TypeOK /\ Account(k) /\ Honest(k) /\ bucket[k] \in Bucket
      /\ now \in Nat /\ since[k] \in Nat /\ admitted[k] \in Nat /\ early[k] \in Nat
  BY DEF IInv, TypeOK
<1> PICK t \in 0..now, age \in Ages :
      /\ bucket' = [j \in Key |-> IF Stale(j, t, age) THEN NoBucket ELSE bucket[j]]
      /\ early' = [j \in Key |-> IF Stale(j, t, age) /\ Elapsed(j) < Cost(j)
                                 THEN early[j] + 1 ELSE early[j]]
      /\ UNCHANGED <<now, told, since, admitted>>
  BY DEF Cleanup
<1>2. CASE ~Stale(k, t, age)
  <2>1. Untouched(k)
    BY <1>2 DEF Untouched
  <2>2. QED
    BY <1>1, <2>1, UntouchedKeeps
<1>3. CASE Stale(k, t, age)
  <2> DEFINE earned == (now - since[k]) * Max[k]
             before == (bucket[k].last - since[k]) * Max[k]
             after  == (now - bucket[k].last) * Max[k]
             given  == early'[k] * Capacity(k)
  <2>1. /\ bucket'[k] = NoBucket /\ now' = now
        /\ since'[k] = since[k] /\ admitted'[k] = admitted[k]
        /\ early'[k] = IF Elapsed(k) < Cost(k) THEN early[k] + 1 ELSE early[k]
    BY <1>3
  <2>2. earned \in Nat /\ after \in Nat /\ Spent(k) \in Nat
    <3>1. now - since[k] \in Nat /\ now - bucket[k].last \in Nat
      BY <1>1 DEF Account, Bucket
    <3> QED
      BY <3>1, <1>1, Limits DEF Spent
  <2>3. given \in Nat /\ Given(k) \in Nat
    <3>1. early'[k] \in Nat
      BY <1>1, <2>1
    <3> QED
      BY <1>1, <3>1, Limits, GivenTyped
  <2>4. Given(k) + Capacity(k) <= given + after
    <3>1. CASE Elapsed(k) < Cost(k)
      <4>1. given = Given(k) + Capacity(k)
        BY <1>1, <2>1, <3>1, Limits DEF Given
      <4> QED
        BY <2>2, <2>3, <4>1, Limits
    <3>2. CASE ~(Elapsed(k) < Cost(k))
      <4>1. given = Given(k)
        BY <2>1, <3>2 DEF Given
      <4>2. Cost(k) <= now - bucket[k].last
        BY <1>1, <3>2, Limits DEF Elapsed, Bucket
      <4>3. Cost(k) * Max[k] <= after
        BY <4>2, <1>1, Limits, MoreTime DEF Bucket
      <4>4. Cost(k) * Max[k] = Capacity(k)
        BY Limits DEF Capacity
      <4> QED
        BY <2>2, <2>3, <4>1, <4>3, <4>4, Limits
    <3> QED
      BY <3>1, <3>2
  <2>5. Spent(k) <= given + earned
    <3>1. CASE Observed(k)
      <4>1. Spent(k) <= Given(k) + Capacity(k) + before
        BY <1>3, <1>1, <3>1 DEF Stale, Account, Earned
      <4>2. earned = before + after /\ before \in Int
        BY <1>1, Limits DEF Bucket
      <4> HIDE DEF earned, before, after, given
      <4> QED
        BY <2>2, <2>3, <2>4, <4>1, <4>2, Limits
    <3>2. CASE ~Observed(k)
      <4>1. Spent(k) = 0
        BY <1>3, <1>1, <3>2, Limits DEF Stale, Account, Spent
      <4> HIDE DEF earned, given
      <4> QED
        BY <2>2, <2>3, <4>1
    <3> QED
      BY <3>1, <3>2
  <2>6. Spent(k)' = Spent(k) /\ Capacity(k)' = Capacity(k) /\ Given(k)' = given
    BY <2>1 DEF Spent, Capacity, Cost, Given
  <2> HIDE DEF given
  <2>7. Account(k)'
    BY <1>1, <2>1, <2>5, <2>6, Limits DEF Account, NoBucket
  <2>8. Honest(k)'
    BY <2>1 DEF Honest, NoBucket
  <2> QED
    BY <2>7, <2>8
<1>4. QED
  BY <1>2, <1>3

\* A new observer has counted nothing.
LEMMA ObserveKeeps ==
  ASSUME IInv, TypeOK', NEW k \in Key, Observe(k)
  PROVE  Account(k)' /\ Honest(k)'
<1>1. /\ TypeOK /\ Account(k) /\ Honest(k) /\ bucket[k] \in Bucket
      /\ now \in Nat
  BY DEF IInv, TypeOK
<1>2. /\ bucket' = bucket /\ now' = now /\ told' = told
      /\ since'[k] = now /\ admitted'[k] = 0 /\ early'[k] = 0
  BY <1>1 DEF Observe, TypeOK
<1>3. Spent(k)' = 0 /\ (now' - since'[k]) * Max[k] = 0
      /\ Capacity(k)' = Capacity(k) /\ Given(k)' = 0
  BY <1>1, <1>2, Limits DEF Spent, Capacity, Cost, Given
<1>4. Account(k)'
  <2>1. Observed(k)' => Earned(k)' = 0
    <3>1. Observed(k)' => bucket'[k].last - since'[k] = 0
      BY <1>1, <1>2 DEF Observed, Account, Bucket
    <3>2. QED
      BY <3>1, Limits DEF Earned
  <2>2. bucket[k].tokens \in Int /\ bucket[k].tokens <= Capacity(k)
    BY <1>1 DEF Account, Bucket
  <2>3. QED
    BY <1>1, <1>2, <1>3, <2>1, <2>2, Limits DEF Account
<1>5. Honest(k)'
  BY <1>1, <1>2 DEF Honest, RetryAfter
<1>6. QED
  BY <1>4, <1>5

LEMMA BalanceKept ==
  ASSUME IInv, [Next]_vars
  PROVE  IInv'
<1>1. TypeOK /\ TypeOK'
  BY TypeKept DEF IInv
<1>2. ASSUME NEW k \in Key
      PROVE  Account(k)' /\ Honest(k)'
  <2>1. Account(k) /\ Honest(k)
    BY DEF IInv
  <2>2. CASE Tick
    <3>1. Untouched(k) /\ now <= now'
      BY <1>1, <2>2 DEF Tick, Untouched, TypeOK
    <3>2. QED
      BY <1>1, <2>1, <3>1, UntouchedKeeps
  <2>3. CASE Cleanup
    BY <1>1, <2>3, CleanupKeeps
  <2>4. ASSUME NEW j \in Key, Check(j) \/ Observe(j)
        PROVE  Account(k)' /\ Honest(k)'
    <3>1. CASE j = k
      BY <1>1, <2>4, <3>1, CheckKeeps, ObserveKeeps
    <3>2. CASE j # k
      <4>1. Untouched(k) /\ now <= now'
        BY <1>1, <2>4, <3>2
        DEF Check, Observe, Admit, Deny, Untouched, TypeOK
      <4>2. QED
        BY <1>1, <2>1, <4>1, UntouchedKeeps
    <3>3. QED
      BY <3>1, <3>2
  <2>5. CASE UNCHANGED vars
    <3>1. Untouched(k) /\ now <= now'
      BY <1>1, <2>5 DEF vars, Untouched, TypeOK
    <3>2. QED
      BY <1>1, <2>1, <3>1, UntouchedKeeps
  <2>6. QED
    BY <2>2, <2>3, <2>4, <2>5 DEF Next
<1>3. QED
  BY <1>1, <1>2 DEF IInv

LEMMA Balanced == Spec => []IInv
<1>1. Init => IInv
  BY StartsBalanced
<1>2. IInv /\ [Next]_vars => IInv'
  BY BalanceKept
<1>3. QED
  BY <1>1, <1>2, PTL DEF Spec

------------------------------------------------------------------------------
(* What the buckets promise *)

\* Buckets, counters and headers keep their types whatever the limits are.
THEOREM TypeCorrect == Spec => []TypeOK
<1>1. IInv => TypeOK
  BY DEF IInv
<1>2. QED
  BY <1>1, Balanced, PTL

\* RateLimiter.check never admits more than a full bucket and the refill of the
\* time an observer has watched, whatever is denied or cleaned up meanwhile; only
\* a removal within the window adds a full bucket.
THEOREM AdmissionsBounded == Spec => []AdmittedBounded
<1>1. IInv => AdmittedBounded
  <2> SUFFICES ASSUME IInv, NEW k \in Key
               PROVE  admitted[k] * Cost(k)
                        <= (1 + early[k]) * Capacity(k) + (now - since[k]) * Max[k]
    BY DEF AdmittedBounded
  <2> DEFINE earned == (now - since[k]) * Max[k]
  <2>1. /\ Account(k) /\ bucket[k] \in Bucket
        /\ now \in Nat /\ since[k] \in Nat /\ admitted[k] \in Nat
    BY DEF IInv, TypeOK
  <2>2. now - since[k] \in Nat
    BY <2>1 DEF Account
  <2>3. earned \in Nat
    BY <2>2, Limits
  <2>4. Earned(k) <= earned /\ Earned(k) \in Int
    <3>1. bucket[k].last - since[k] <= now - since[k]
      BY <2>1 DEF Account, Bucket
    <3>2. bucket[k].last - since[k] \in Int /\ now - since[k] \in Int
      BY <2>1 DEF Bucket
    <3>3. Earned(k) \in Int
      BY <3>2, Limits DEF Earned
    <3>4. Earned(k) <= earned
      BY <3>1, <3>2, Limits, MoreTime DEF Earned
    <3> QED
      BY <3>3, <3>4
  <2>5. Spent(k) \in Nat
    BY <2>1, Limits DEF Spent
  <2> HIDE DEF earned
  <2>g. Given(k) \in Nat /\ (1 + early[k]) * Capacity(k) = Given(k) + Capacity(k)
    <3>1. early[k] \in Nat
      BY DEF IInv, TypeOK
    <3> QED
      BY <3>1, Limits DEF Given
  <2>6. Spent(k) <= Given(k) + Capacity(k) + earned
    <3>1. CASE bucket[k].there /\ Observed(k)
      BY <3>1, <2>1, <2>3, <2>4, <2>5, <2>g, Limits DEF Account
    <3>2. CASE bucket[k].there /\ ~Observed(k)
      <4>1. Spent(k) = 0
        BY <3>2, <2>1, Limits DEF Account, Spent
      <4>2. QED
        BY <4>1, <2>3, <2>g, Limits
    <3>3. CASE ~bucket[k].there
      <4>1. Spent(k) <= Given(k) + earned
        BY <3>3, <2>1 DEF Account, earned
      <4>2. QED
        BY <4>1, <2>3, <2>5, <2>g, Limits
    <3>4. QED
      BY <3>1, <3>2, <3>3
  <2>7. QED
    BY <2>6, <2>g DEF Spent, earned
<1>2. QED
  BY <1>1, Balanced, PTL

\* After X-RateLimit-Remaining promised more requests the next one is admitted.
THEOREM RemainingHonest == Spec => RemainingIsHonest
<1>1. ASSUME IInv, NEW k \in Key, Check(k), told[k].remaining > 0
      PROVE  ~told'[k].denied
  <2>1. TypeOK /\ Account(k) /\ Honest(k)
    BY <1>1 DEF IInv
  <2>2. Left(k) >= 0
    BY <1>1, <2>1, HeldAdmits DEF Account, Honest
  <2>3. QED
    BY <1>1, <2>1, <2>2 DEF Check, Admit, TypeOK
<1>2. IInv => (\A k \in Key :
                 Check(k) /\ told[k].remaining > 0 => ~told'[k].denied)
  BY <1>1
<1>3. QED
  BY <1>2, Balanced, PTL DEF RemainingIsHonest

\* A client that honours Retry-After is admitted, under a tiny limit after the
\* part of a second that was cut off it.
THEOREM RetryAfterHonest == Spec => RetryAfterIsHonest
<1>1. ASSUME IInv, NEW k \in Key, Check(k), told[k].denied,
             now >= told[k].again + CutOff(k)
      PROVE  ~told'[k].denied
  <2>1. TypeOK /\ Account(k) /\ Honest(k)
    BY <1>1 DEF IInv
  <2>2. Left(k) >= 0
    <3>1. CASE bucket[k].there
      BY <1>1, <2>1, <3>1, WaitedAdmits DEF Honest
    <3>2. CASE ~bucket[k].there
      BY <2>1, <3>2, HeldAdmits DEF Account
    <3>3. QED
      BY <3>1, <3>2
  <2>3. QED
    BY <1>1, <2>1, <2>2 DEF Check, Admit, TypeOK
<1>2. IInv => (\A k \in Key :
                 Check(k) /\ told[k].denied /\ now >= told[k].again + CutOff(k)
                   => ~told'[k].denied)
  BY <1>1
<1>3. QED
  BY <1>2, Balanced, PTL DEF RetryAfterIsHonest
==============================================================================
