----------------------------- MODULE RateLimiter ------------------------------
(***************************************************************************)
(* backend/rate_limiter.py: the token buckets of RateLimiter and the       *)
(* middleware that asks them before every request.  The middleware has two *)
(* limiters, for the authentication endpoints and for the others, and a    *)
(* bucket in each for every client: a key of this module is one such       *)
(* bucket, with the limits of its limiter.                                 *)
(*                                                                         *)
(* check reads the clock and does all of its work under the lock: one      *)
(* action.  The clock is a float: time is counted in ticks, any number of  *)
(* which make a second.  Tokens are counted in parts of a request, so many *)
(* that a tick refills Max of them; Retry-After is cut to whole seconds,   *)
(* and the rounding of the floats themselves is left out.                  *)
(*                                                                         *)
(* An operator XMutant is X with a plausible bug; no action uses it.       *)
(***************************************************************************)
EXTENDS Integers

CONSTANTS
  Key,     \* the buckets there may be
  Max,     \* max_requests of each bucket's limiter
  Window,  \* window_seconds of each bucket's limiter
  Second,  \* how many ticks a second has
  Ages     \* the max_age, in ticks, that cleanup may be called with

ASSUME LimitAssumption ==
  Max \in [Key -> Nat \ {0}] /\ Window \in [Key -> Nat \ {0}]

ASSUME ClockAssumption == Second \in Nat \ {0} /\ Ages \subseteq Nat

VARIABLES
  now,       \* time.monotonic()
  bucket,    \* _buckets
  told,      \* history: what the headers of each bucket's last answer said
  since,     \* history: when an observer began to count ...
  admitted,  \* ... how many requests he saw admitted since ...
  early      \* ... and how often the bucket was removed within its window

vars == <<now, bucket, told, since, admitted, early>>

------------------------------------------------------------------------------
(* Data *)

Bucket == [there: BOOLEAN, tokens: Int, last: Nat]

NoBucket == [there |-> FALSE, tokens |-> 0, last |-> 0]

\* X-RateLimit-Remaining, and the time that Retry-After of a denial leads to.
Answer == [denied: BOOLEAN, remaining: Nat, again: Nat]

TypeOK ==
  /\ now \in Nat
  /\ bucket \in [Key -> Bucket]
  /\ told \in [Key -> Answer]
  /\ since \in [Key -> Nat]
  /\ admitted \in [Key -> Nat]
  /\ early \in [Key -> Nat]

\* The window in ticks, which is also the parts that a request costs.
Cost(k) == Window[k] * Second

Capacity(k) == Max[k] * Cost(k)

Elapsed(k) == now - bucket[k].last

\* Without the min: tokens pile up while nobody asks.
RefilledMutant(k) == bucket[k].tokens + Elapsed(k) * Max[k]

\* min(max, tokens + elapsed * rate)
Refilled(k) ==
  LET t == bucket[k].tokens + Elapsed(k) * Max[k]
  IN  IF t > Capacity(k) THEN Capacity(k) ELSE t

\* _refill: the tokens after this request, which is charged in any case.
Left(k) == (IF bucket[k].there THEN Refilled(k) ELSE Capacity(k)) - Cost(k)

RemainingMutant(k, left) == left \div Cost(k) + 1

Remaining(k, left) == left \div Cost(k)

RetryAfterMutant(k, left) == (-left) \div (Second * Max[k])

\* int(window * (1 - tokens / max)), in whole seconds
RetryAfter(k, left) == Window[k] + (-left) \div (Second * Max[k])

------------------------------------------------------------------------------
(* Actions *)

Admit(k, left) ==
  /\ admitted' = [admitted EXCEPT ![k] = @ + 1]
  /\ told' = [told EXCEPT ![k] = [denied |-> FALSE, again |-> 0,
                                  remaining |-> Remaining(k, left)]]

\* 429
Deny(k, left) ==
  /\ told' = [told EXCEPT ![k] = [denied |-> TRUE, remaining |-> 0,
                                  again |-> now + RetryAfter(k, left) * Second]]
  /\ UNCHANGED admitted

\* dispatch of the middleware calls check.
Check(k) ==
  LET left == Left(k)
  IN  /\ bucket' = [bucket EXCEPT ![k] =
                      [there |-> TRUE, tokens |-> left, last |-> now]]
      /\ IF left >= 0 THEN Admit(k, left) ELSE Deny(k, left)
      /\ UNCHANGED <<now, since, early>>

Stale(k, t, age) == bucket[k].there /\ t - bucket[k].last > age

\* cleanup reads the clock before it takes the lock, so t may be in the past.
Cleanup ==
  \E t \in 0..now, age \in Ages :
    /\ bucket' = [k \in Key |-> IF Stale(k, t, age) THEN NoBucket ELSE bucket[k]]
    /\ early' = [k \in Key |-> IF Stale(k, t, age) /\ Elapsed(k) < Cost(k)
                               THEN early[k] + 1 ELSE early[k]]
    /\ UNCHANGED <<now, told, since, admitted>>

Tick ==
  /\ now' = now + 1
  /\ UNCHANGED <<bucket, told, since, admitted, early>>

\* An observer begins to count the requests admitted from now on.
Observe(k) ==
  /\ since' = [since EXCEPT ![k] = now]
  /\ admitted' = [admitted EXCEPT ![k] = 0]
  /\ early' = [early EXCEPT ![k] = 0]
  /\ UNCHANGED <<now, bucket, told>>

Init ==
  /\ now = 0
  /\ bucket = [k \in Key |-> NoBucket]
  /\ told = [k \in Key |-> [denied |-> FALSE, remaining |-> 0, again |-> 0]]
  /\ since = [k \in Key |-> 0]
  /\ admitted = [k \in Key |-> 0]
  /\ early = [k \in Key |-> 0]

Next == Tick \/ Cleanup \/ \E k \in Key : Check(k) \/ Observe(k)

Spec == Init /\ [][Next]_vars

------------------------------------------------------------------------------
(* Properties *)

\* What the buckets promise the server: in every interval, wherever it begins,
\* at most a full bucket and what was refilled meanwhile is admitted, and one
\* full bucket more for each time that cleanup removed the bucket within its
\* window; neither the charge for denied requests nor the removal of older
\* buckets, debts included, gives more.
AdmittedBounded ==
  \A k \in Key :
    admitted[k] * Cost(k) <= (1 + early[k]) * Capacity(k) + (now - since[k]) * Max[k]

\* A client that was told that n requests remain has n more admitted, however
\* late it comes and whatever cleanup removed meanwhile.
RemainingIsHonest ==
  [][\A k \in Key :
       Check(k) /\ told[k].remaining > 0 => ~told'[k].denied]_vars

\* int() cuts less than a second off Retry-After.  A whole bucket of requests is
\* waited for, where one would do, which makes up for it unless the limit is tiny.
CutOff(k) == IF Window[k] * (Max[k] - 1) >= Max[k] THEN 0 ELSE Second

\* A client that waits as long as Retry-After says, and under a tiny limit for
\* what was cut off it, is admitted.
RetryAfterIsHonest ==
  [][\A k \in Key :
       Check(k) /\ told[k].denied /\ now >= told[k].again + CutOff(k)
         => ~told'[k].denied]_vars

------------------------------------------------------------------------------
(* Promises that the code does not keep *)

\* What README.md says of RATE_LIMIT_REQUESTS: requests per window.
LimitPerWindow ==
  \A k \in Key : now - since[k] <= Cost(k) /\ early[k] = 0 => admitted[k] <= Max[k]

\* What the header Retry-After says, under any limit: a client that comes back
\* after so many seconds is admitted.
RetryAfterIsEnough ==
  [][\A k \in Key :
       Check(k) /\ told[k].denied /\ now >= told[k].again
         => ~told'[k].denied]_vars
==============================================================================
