----------------------------- MODULE RateLimiter -----------------------------
(***************************************************************************)
(* The limiter of sign-in requests, internal/auth/adapters/http/           *)
(* rate_limit.go: a fixed window per key, where a key is a route, a client *)
(* address and a subject.                                                  *)
(*                                                                         *)
(* A request takes the time before it takes the mutex, so requests may be  *)
(* served in another order than that of their times.  Time is counted in   *)
(* units of which Window is a small number; MaxStall bounds how long a     *)
(* request may wait for the mutex.  The buckets live in memory: a restart  *)
(* of the process is Init.                                                 *)
(***************************************************************************)
EXTENDS Integers, FiniteSets, Functions

CONSTANTS
    Key,        \* route, client address and subject, joined
    Requests,   \* slots for requests in flight
    Limit,      \* AUTH_RATE_LIMIT_REQUESTS
    Window,     \* AUTH_RATE_LIMIT_WINDOW
    MaxStall,   \* longest wait between taking the time and taking the mutex
    MaxTime     \* bound on the clock

ASSUME ConstantsAssumption ==
    /\ Limit \in Nat \ {0}
    /\ Window \in Nat \ {0}
    /\ MaxStall \in 0 .. Window - 1
    /\ MaxTime \in Nat

VARIABLES
    clock,          \* the time
    buckets,        \* DOMAIN buckets is the set of keys in the map
    lastCleanup,    \* when expired buckets were last removed
    req,            \* the state of each request slot
    admitted        \* history: the requests that were allowed

vars == <<clock, buckets, lastCleanup, req, admitted>>

Time == 0 .. MaxTime

\* The zero time.Time: any time is a window or more later.
Never == -Window

Bucket == [count : 0 .. Limit, resetAt : Window .. MaxTime + Window]

\* A slot is free, or holds a request that waits for the mutex.
Free    == [pc |-> "free"]
Request == {Free} \cup [pc : {"waiting"}, key : Key, now : Time]

\* An allowed request: the n-th of its bucket, which its reset names, allowed at a
\* time of the clock, which is not the one it had taken when it waited.
Admission == [key : Key, resetAt : Window .. MaxTime + Window, n : 1 .. Limit, at : Time]

\* Variant: the instant of the reset still belongs to the old window.
ExpiredAfter(bucket, now) == bucket.resetAt < now

\* The bucket's window is over.
Expired(bucket, now) == bucket.resetAt <= now

\* Variant: one request too many.
OverFull(bucket) == bucket.count > Limit

Full(bucket) == bucket.count >= Limit

\* Variant: the map is never swept.
NoCleanup(now) == FALSE

\* Expired buckets are removed once per window.
CleanupDue(now) == now - lastCleanup >= Window

\* What cleanup leaves of the map.
Swept(now) ==
    IF CleanupDue(now)
    THEN Restrict(buckets, {k \in DOMAIN buckets : ~ Expired(buckets[k], now)})
    ELSE buckets

\* Variant: a window begins with the last one's count.
CarriedCount(kept, k, now) ==
    IF k \in DOMAIN kept /\ ~ Expired(kept[k], now) THEN kept[k]
    ELSE [count |-> IF k \in DOMAIN kept THEN kept[k].count ELSE 0, resetAt |-> now + Window]

\* The bucket a request of key k is counted in.
Current(kept, k, now) ==
    IF k \in DOMAIN kept /\ ~ Expired(kept[k], now) THEN kept[k]
    ELSE [count |-> 0, resetAt |-> now + Window]

Init ==
    /\ clock = 0
    /\ buckets = << >>
    /\ lastCleanup = Never
    /\ req = [r \in Requests |-> Free]
    /\ admitted = {}

\* allowAuthRequest calls Allow, which takes the time.
Arrive(r, k) ==
    /\ req[r] = Free
    /\ req' = [req EXCEPT ![r] = [pc |-> "waiting", key |-> k, now |-> clock]]
    /\ UNCHANGED <<clock, buckets, lastCleanup, admitted>>

\* The bucket request r is counted in, once it holds the mutex.
Counted(r) == Current(Swept(req[r].now), req[r].key, req[r].now)

\* The rest of Allow, under the mutex: sweep the map, store the bucket, answer.
Serve(r, bucket) ==
    LET k    == req[r].key
        now  == req[r].now
        kept == Swept(now)
    IN  /\ lastCleanup' = IF CleanupDue(now) THEN now ELSE lastCleanup
        /\ buckets' = [x \in DOMAIN kept \cup {k} |-> IF x = k THEN bucket ELSE kept[x]]
        /\ req' = [req EXCEPT ![r] = Free]
        /\ UNCHANGED clock

Admit(r) ==
    /\ req[r] # Free
    /\ ~ Full(Counted(r))
    /\ Serve(r, [Counted(r) EXCEPT !.count = @ + 1])
    /\ admitted' = admitted \cup {[key |-> req[r].key, resetAt |-> Counted(r).resetAt,
                                   n |-> Counted(r).count + 1, at |-> clock]}

\* Answered with 429 and Retry-After.
Refuse(r) ==
    /\ req[r] # Free
    /\ Full(Counted(r))
    /\ Serve(r, Counted(r))
    /\ UNCHANGED admitted

RetryAfter(r) == Counted(r).resetAt - req[r].now

\* Time passes; a request that waits for the mutex is served within MaxStall.
Tick ==
    /\ clock < MaxTime
    /\ \A r \in Requests : req[r] # Free => clock < req[r].now + MaxStall
    /\ clock' = clock + 1
    /\ UNCHANGED <<buckets, lastCleanup, req, admitted>>

Next ==
    \/ \E r \in Requests : Admit(r) \/ Refuse(r) \/ \E k \in Key : Arrive(r, k)
    \/ Tick

Spec == Init /\ [][Next]_vars

-----------------------------------------------------------------------------
(* Properties *)

\* How many requests of key k were allowed at the times in S.
AdmittedIn(k, S) == Cardinality({a \in admitted : a.key = k /\ a.at \in S})

\* The variables are typed; no bucket counts above the limit.
TypeOK ==
    /\ clock \in Time
    /\ buckets \in [DOMAIN buckets -> Bucket]
    /\ DOMAIN buckets \subseteq Key
    /\ lastCleanup \in Time \cup {Never}
    /\ req \in [Requests -> Request]
    /\ admitted \subseteq Admission

\* However windows are cut, reset by requests served out of order and swept by
\* requests of other keys: within one window, less the longest stall, at most twice
\* the limit is allowed, the end of one bucket and the beginning of the next.  A whole
\* window may hold more: a bucket that is created late ends as much earlier.
AtMostTwoWindows ==
    \A k \in Key, t \in Time : AdmittedIn(k, t .. t + (Window - MaxStall) - 1) <= 2 * Limit

\* Nobody is refused for the requests of an earlier window or of another key: the
\* limit was used up less than a window before the request took its time.
RefusedWhenUsedUp ==
    [][\A r \in Requests : Refuse(r) =>
         AdmittedIn(req[r].key, req[r].now - Window + 1 .. clock) >= Limit]_vars

\* Retry-After names a time at most one window after the refusal's own clock, plus
\* the time it waited for the mutex.
RetryAfterIsNear ==
    [][\A r \in Requests : Refuse(r) => RetryAfter(r) \in 1 .. Window + MaxStall]_vars

\* The map holds no bucket that had expired at the last sweep, also none that was
\* put there by a request that had taken its time before the sweep.
SweptClean ==
    \A k \in DOMAIN buckets : buckets[k].resetAt > lastCleanup

\* The bound on the map's memory: each bucket that is left when a request is answered
\* still counted less than a window before the request's time.
BucketsAreRecent ==
    [][\A r \in Requests : Admit(r) \/ Refuse(r) =>
         \A k \in DOMAIN buckets' : buckets'[k].resetAt - 1 > req[r].now - Window]_vars

=============================================================================
