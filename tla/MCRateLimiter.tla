---------------------------- MODULE MCRateLimiter -----------------------------
(* RateLimiter for TLC: one client's two buckets, of which a behaviour uses  *)
(* one, as they share nothing; a bounded clock, and a bound on how far below *)
(* zero denied requests bring a bucket.                                      *)
EXTENDS RateLimiter

CONSTANTS
  MaxTime,  \* bound on the clock, in ticks
  MaxDebt   \* bound on the requests a bucket is in debt with

VARIABLE used  \* the bucket that the behaviour uses

MCMax == [k \in Key |-> IF k = "auth" THEN 1 ELSE 3]

MCWindow == [k \in Key |-> 2]

MCInit == Init /\ used \in Key

MCNext ==
  /\ \/ now < MaxTime /\ Tick
     \/ Cleanup
     \/ bucket[used].tokens > -(MaxDebt * Cost(used)) /\ Check(used)
     \/ Observe(used)
  /\ UNCHANGED used

MCSpec == MCInit /\ [][MCNext]_<<vars, used>>
==============================================================================
