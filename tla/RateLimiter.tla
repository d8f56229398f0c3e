---------------------------- MODULE RateLimiter ----------------------------
(***************************************************************************)
(* The sliding-window rate limiter of Token Relay (InMemoryRateLimiter and *)
(* check_rate_limit), which every proxied request passes before its body   *)
(* is read.  check_rate_limit awaits nothing, so a check is one step.      *)
(*                                                                         *)
(* A bucket is the list of the times at which its tokens were taken.  Only *)
(* differences of times matter, so the model keeps the age of a token, in  *)
(* ticks: Tick makes every token one tick older, up to Horizon, beyond     *)
(* which no comparison tells ages apart.  Second ticks are a second.       *)
(*                                                                         *)
(* passed, admitted and promise are history: what the users of the process *)
(* saw.                                                                    *)
(***************************************************************************)
EXTENDS Integers, SequencesExt

CONSTANTS
    Users,      \* users who send requests
    PerUser,    \* settings.RATE_LIMIT_PER_USER_PER_MINUTE; 0: no limit
    Global,     \* settings.RATE_LIMIT_GLOBAL_PER_MINUTE; 0: no limit
    Second,     \* ticks in a second
    Window,     \* ticks in the window of both limits, 60 seconds in the code
    Horizon,    \* age in ticks from which cleanup drops a token, 120 seconds in the code
    GlobalKey,  \* the key of the bucket that all users share
    NoPromise   \* the promise of a user who is not waiting

ASSUME RateLimiterAssumption ==
    /\ PerUser \in Nat /\ Global \in Nat
    /\ Second \in Nat \ {0} /\ Window \in Nat \ {0} /\ Horizon \in Nat
    /\ Window < Horizon
    /\ Window % Second = 0
    /\ GlobalKey \notin Users

BucketKeys == Users \cup {GlobalKey}

VARIABLES
    buckets,    \* buckets[k]: ages of the tokens of k, oldest first; absent: empty
    passed,     \* passed[u][a]: requests of u that passed its limit, at most a ticks ago
    admitted,   \* admitted[a]: requests that were admitted, at most a ticks ago
    promise     \* promise[u]: what the last refusal of u promised

vars == <<buckets, passed, admitted, promise>>

LimitOf(k) == IF k = GlobalKey THEN Global ELSE PerUser

(***************************************************************************)
(* InMemoryRateLimiter.                                                    *)
(***************************************************************************)
\* Tokens stand oldest first (TypeOK), so those that are younger than limit are the last.
Younger(bucket, limit) ==
    SubSeq(bucket, Cardinality({i \in DOMAIN bucket : bucket[i] >= limit}) + 1, Len(bucket))

\* Mutant of Live: the window is taken for the cleanup's horizon.
LiveToHorizon(bucket) == Younger(bucket, Horizon)

Live(bucket) == Younger(bucket, Window)

\* Mutant of Kept: the cleanup drops what is a second old.
KeptSecond(bucket) == Younger(bucket, Second)

Kept(bucket) == Younger(bucket, Horizon)

Allowed(bucket, limit) == Len(Live(bucket)) < limit

\* Mutants of Asked: a refused request takes a token, the newest token comes first.
AskedAlways(bucket, limit) == Append(Live(bucket), 0)
AskedInFront(bucket, limit) ==
    IF Allowed(bucket, limit) THEN <<0>> \o Live(bucket) ELSE Live(bucket)

\* The bucket after is_allowed.
Asked(bucket, limit) ==
    IF Allowed(bucket, limit) THEN Append(Live(bucket), 0) ELSE Live(bucket)

\* Mutant of ResetSeconds: rounded down.
ResetSecondsFloor(bucket) ==
    (Window - Max({Live(bucket)[i] : i \in DOMAIN Live(bucket)})) \div Second

\* Whole seconds after which the oldest token has left the window, rounded up.
ResetSeconds(bucket) == (Window - Max({Live(bucket)[i] : i \in DOMAIN Live(bucket)})) \div Second + 1

Older(age) == IF age < Horizon THEN age + 1 ELSE Horizon

-----------------------------------------------------------------------------
(***************************************************************************)
(* check_rate_limit.  A limit of 0 is not checked.                         *)
(***************************************************************************)
NoRequests == [a \in 0 .. Window - 1 |-> 0]

Init ==
    /\ buckets = [k \in BucketKeys |-> <<>>]
    /\ passed = [u \in Users |-> NoRequests]
    /\ admitted = NoRequests
    /\ promise = [u \in Users |-> NoPromise]

Passes(k) == LimitOf(k) = 0 \/ Allowed(buckets[k], LimitOf(k))
After(k) == IF LimitOf(k) = 0 THEN buckets[k] ELSE Asked(buckets[k], LimitOf(k))

\* The refusal of a request of u on account of bucket k tells u to retry later.
Promised(u, k) == [promise EXCEPT ![u] = [key |-> k, wait |-> ResetSeconds(buckets[k]) * Second]]

\* Requests by age, after one more and after a tick.
Counted(requests) == [a \in 0 .. Window - 1 |-> requests[a] + 1]
Aged(requests) == [a \in 0 .. Window - 1 |-> IF a = 0 THEN 0 ELSE requests[a - 1]]

\* The user's limit is asked first; a refusal ends the check.
RefuseUser(u) ==
    /\ ~Passes(u)
    /\ buckets' = [buckets EXCEPT ![u] = After(u)]
    /\ promise' = Promised(u, u)
    /\ UNCHANGED <<passed, admitted>>

\* The limit of all users is asked after the user's token was taken.
RefuseAll(u) ==
    /\ Passes(u)
    /\ ~Passes(GlobalKey)
    /\ buckets' = [buckets EXCEPT ![u] = After(u), ![GlobalKey] = After(GlobalKey)]
    /\ passed' = [passed EXCEPT ![u] = Counted(@)]
    /\ promise' = Promised(u, GlobalKey)
    /\ UNCHANGED admitted

\* A token was taken from bucket k: nobody is promised anything about it any more.
Withdrawn(u) ==
    [v \in Users |-> IF v = u \/ (promise[v] # NoPromise /\ promise[v].key = GlobalKey)
                     THEN NoPromise ELSE promise[v]]

\* The user's bucket after a request is admitted.  What is meant to be a query for the
\* remaining requests asks is_allowed again.
AfterAdmission(u) == IF PerUser = 0 THEN buckets[u] ELSE Asked(After(u), PerUser)

Admit(u) ==
    /\ Passes(u)
    /\ Passes(GlobalKey)
    /\ buckets' = [buckets EXCEPT ![u] = AfterAdmission(u), ![GlobalKey] = After(GlobalKey)]
    /\ passed' = [passed EXCEPT ![u] = Counted(@)]
    /\ admitted' = Counted(admitted)
    /\ promise' = Withdrawn(u)

\* The periodic task drops old tokens and the buckets it leaves empty.
Cleanup ==
    /\ buckets' = [k \in BucketKeys |-> Kept(buckets[k])]
    /\ UNCHANGED <<passed, admitted, promise>>

Tick ==
    /\ buckets' = [k \in BucketKeys |-> [i \in DOMAIN buckets[k] |-> Older(buckets[k][i])]]
    /\ passed' = [u \in Users |-> Aged(passed[u])]
    /\ admitted' = Aged(admitted)
    /\ promise' = [u \in Users |-> IF promise[u] = NoPromise THEN NoPromise
                                   ELSE [promise[u] EXCEPT !.wait = IF @ > 0 THEN @ - 1 ELSE 0]]

\* Buckets live in the process only; a restart forgets them.
Restart ==
    /\ buckets' = [k \in BucketKeys |-> <<>>]
    /\ passed' = [u \in Users |-> NoRequests]
    /\ admitted' = NoRequests
    /\ promise' = [u \in Users |-> NoPromise]

Next ==
    \/ \E u \in Users : RefuseUser(u) \/ RefuseAll(u) \/ Admit(u)
    \/ Cleanup
    \/ Tick
    \/ Restart

Spec == Init /\ [][Next]_vars

-----------------------------------------------------------------------------
(***************************************************************************)
(* Correctness.                                                            *)
(***************************************************************************)
\* Every variable has its type; a bucket is ordered by age, which is why its first
\* token is the oldest.
TypeOK ==
    /\ buckets \in [BucketKeys -> Seq(0 .. Horizon)]
    /\ \A k \in BucketKeys : \A i, j \in DOMAIN buckets[k] :
          i < j => buckets[k][i] >= buckets[k][j]
    /\ passed \in [Users -> [0 .. Window - 1 -> Nat]]
    /\ admitted \in [0 .. Window - 1 -> Nat]
    /\ promise \in [Users -> [key : BucketKeys, wait : Nat] \cup {NoPromise}]

Passed(u) == passed[u][Window - 1]
Admitted == admitted[Window - 1]

\* In no window of a minute do more requests get through than the limits allow,
\* wherever the window begins and whenever the cleanup runs.
WindowCap ==
    /\ PerUser > 0 => \A u \in Users : Passed(u) <= PerUser
    /\ Global > 0 => Admitted <= Global

\* The bucket that all users share counts the requests that were admitted: one that is
\* refused, for its user's sake or for all, takes nothing from the others.
GlobalCountsAdmitted == Global > 0 => Len(Live(buckets[GlobalKey])) = Admitted

\* "Retry after {reset_seconds}s" can be relied on: once that time has passed, the
\* bucket that refused lets a request through, unless another one took the place.
HonestReset ==
    \A u \in Users : promise[u] # NoPromise /\ promise[u].wait = 0 => Passes(promise[u].key)

\* A user is refused for its own sake only after at least half of the requests that its
\* limit names got past it within the last minute.
HalfQuota == [][\A u \in Users : RefuseUser(u) => 2 * Passed(u) >= PerUser]_vars

(***************************************************************************)
(* What the source says of check_rate_limit and the code does not do.      *)
(***************************************************************************)
\* rate_limiter.py: "Don't consume a second token - just query."  If so, a user would be
\* refused only after as many requests as the limit names.
FullQuota == [][\A u \in Users : RefuseUser(u) => Passed(u) >= PerUser]_vars
=============================================================================
