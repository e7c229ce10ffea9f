----------------------------- MODULE RateLimiter -----------------------------
(***************************************************************************)
(* The middleware basic_rate_limit for one key (method, address, path): a  *)
(* deque of the times of the requests it let pass, in the memory of one    *)
(* process, and a client that waits as Retry-After tells it before it asks *)
(* again, alone on its key.  Times are in ticks, several to a second:      *)
(* Retry-After is whole seconds.                                           *)
(***************************************************************************)
EXTENDS Naturals, Sequences

CONSTANTS Window,       \* rate_limit_window_seconds
          MaxRequests,  \* rate_limit_max_requests
          Second,       \* ticks in a second
          MaxTime       \* bound on the clock

ASSUME LimiterAssumption ==
    /\ Window \in Nat \ {0} /\ MaxRequests \in Nat \ {0} /\ Second \in Nat \ {0}
    /\ MaxTime \in Nat

VARIABLES
    now,        \* monotonic()
    bucket,     \* the deque
    notBefore,  \* when the client may ask again
    refusals    \* how often it has been refused in a row

limiterVars == <<now, bucket, notBefore, refusals>>
-----------------------------------------------------------------------------
LimiterInit == now = 0 /\ bucket = <<>> /\ notBefore = 0 /\ refusals = 0

\* The window's old end belongs to it.
Stale(t) == t + Window * Second < now

\* The oldest entry is popped as long as it is stale.
Popped(times) == CHOOSE n \in 0..Len(times) :
                     /\ \A i \in 1..n : Stale(times[i])
                     /\ n < Len(times) => ~Stale(times[n + 1])

Pruned(times) == SubSeq(times, Popped(times) + 1, Len(times))

\* Mutant: without the lower bound of a second.
RetryAfterTruncated(first) == (first + Window * Second - now) \div Second

RetryAfter(first) ==
    LET seconds == (first + Window * Second - now) \div Second
    IN  IF seconds < 1 THEN 1 ELSE seconds

\* Mutant: a refused request counts too.
CountAll(times) == Append(times, now)

Count(times) == IF Len(times) >= MaxRequests THEN times ELSE Append(times, now)

Request ==
    /\ now >= notBefore
    /\ bucket' = Count(Pruned(bucket))
    /\ IF Len(Pruned(bucket)) >= MaxRequests
       THEN /\ notBefore' = now + RetryAfter(Head(Pruned(bucket))) * Second
            /\ refusals' = refusals + 1
       ELSE /\ notBefore' = now
            /\ refusals' = 0
    /\ UNCHANGED now

Tick ==
    /\ now < MaxTime
    /\ now' = now + 1
    /\ UNCHANGED <<bucket, notBefore, refusals>>

\* The deque is gone with its process.
Forget == bucket' = <<>> /\ UNCHANGED <<now, notBefore, refusals>>
-----------------------------------------------------------------------------
(* Properties *)

LimiterTypeOK ==
    /\ now \in 0..MaxTime
    /\ bucket \in Seq(0..now) /\ Len(bucket) <= MaxRequests
    /\ notBefore \in Nat /\ refusals \in Nat

\* Retry-After is truncated and the window is closed at its old end, so a
\* client that waits as told may be refused again; but only once: the second
\* wait always suffices.  That is for a client alone on its key: another
\* sender behind the same address can take the place it waits for.
RefusedTwiceAtMost == refusals <= 2
=============================================================================
