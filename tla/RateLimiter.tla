---------------------------- MODULE RateLimiter ----------------------------
(***************************************************************************)
(* The sliding-window limiter (src/app/security/ratelimit.py), for one     *)
(* key: keys share nothing. hit() runs without an await, so it is one      *)
(* step, and the monotonic clock only moves between hits.                  *)
(***************************************************************************)
EXTENDS Integers, Sequences

CONSTANTS
  Limit,    \* hits that are let through ...
  Window,   \* ... in any stretch of so many seconds
  MaxHits,  \* bound: hits let through since the process started
  Horizon   \* bound: the clock

ASSUME LimiterAssumption ==
  /\ Limit \in Nat \ {0} /\ Window \in Nat \ {0}
  /\ MaxHits \in Nat /\ Horizon \in Nat

VARIABLES
  now,       \* _clock()
  bucket,    \* _buckets[key], oldest hit first
  accepted,  \* history: every hit let through since the process started
  answer     \* history: what the last hit was told, and when

vars == <<now, bucket, accepted, answer>>

Nobody == [told |-> "none", at |-> 0]

Init ==
  /\ now = 0
  /\ bucket = <<>>
  /\ accepted = <<>>
  /\ answer = Nobody

\* Mutant: a hit that is exactly one window old still counts.
OlderThan(t) == t < now - Window

\* Mutant: hits are forgotten a second early.
ForgotEarly(t) == t <= now - Window + 1

Stale(t) == t <= now - Window

\* The loop pops k entries: they are stale, and the next one is not.
Pops(k) ==
  /\ \A i \in 1..k : Stale(bucket[i])
  /\ k < Len(bucket) => ~Stale(bucket[k + 1])

\* Mutant: a hit that is refused counts as well.
RefuseCounts(rest) ==
  /\ Len(rest) >= Limit
  /\ bucket' = Append(rest, now)
  /\ answer' = [told |-> "429", at |-> now]
  /\ UNCHANGED <<now, accepted>>

\* enforce() answers 429; the hit itself leaves no trace.
Refuse(rest) ==
  /\ Len(rest) >= Limit
  /\ bucket' = rest
  /\ answer' = [told |-> "429", at |-> now]
  /\ UNCHANGED <<now, accepted>>

Allow(rest) ==
  /\ Len(rest) < Limit
  /\ bucket' = Append(rest, now)
  /\ accepted' = Append(accepted, now)
  /\ answer' = [told |-> "ok", at |-> now]
  /\ UNCHANGED now

Hit ==
  /\ Len(accepted) < MaxHits
  /\ \E k \in 0..Len(bucket) :
       /\ Pops(k)
       /\ LET rest == SubSeq(bucket, k + 1, Len(bucket))
          IN Refuse(rest) \/ Allow(rest)

Tick ==
  /\ now < Horizon
  /\ now' = now + 1
  /\ UNCHANGED <<bucket, accepted, answer>>

\* The buckets are in memory; a new process counts from nothing.
Restart ==
  /\ bucket' = <<>>
  /\ accepted' = <<>>
  /\ answer' = Nobody
  /\ UNCHANGED now

Next == Hit \/ Tick \/ Restart

Spec == Init /\ [][Next]_vars

-----------------------------------------------------------------------------
(* Properties.                                                             *)

\* Type invariant.
TypeOK ==
  /\ now \in 0..Horizon
  /\ bucket \in Seq(0..Horizon) /\ Len(bucket) <= Limit
  /\ accepted \in Seq(0..Horizon)
  /\ answer \in [told : {"none", "ok", "429"}, at : 0..Horizon]

\* Any Limit + 1 hits that one process lets through take a whole window, not
\* only those that are in the bucket at the same time.
NeverTooMany ==
  \A i \in 1..Len(accepted) :
    i + Limit <= Len(accepted) => accepted[i + Limit] - accepted[i] >= Window

\* Nobody is refused without cause: Limit hits were let through in the window
\* that ended with the refusal.
RefusedOnlyWhenFull ==
  answer.told = "429" =>
    /\ Len(accepted) >= Limit
    /\ accepted[Len(accepted) - Limit + 1] > answer.at - Window
=============================================================================
