-------------------------- MODULE RateLimiterProofs --------------------------
(***************************************************************************)
(* Proofs about RateLimiter, for every limit, window and number of keys    *)
(* and requests, provided no request waits a whole window for the mutex.   *)
(***************************************************************************)
EXTENDS RateLimiter, FiniteSetTheorems, TLAPS

\* What the clock says of the times that were taken from it: requests are at most
\* MaxStall old, no window ends later than one that begins now, and the last sweep
\* is over.
ClockInv ==
    /\ \A r \in Requests : req[r] # Free => /\ req[r].now <= clock
                                            /\ clock <= req[r].now + MaxStall
    /\ \A k \in DOMAIN buckets : buckets[k].resetAt <= clock + Window
    /\ lastCleanup <= clock

\* Buckets of one key follow each other: nothing is counted in the older one once the
\* younger one exists, and that one was created after the older one had ended.
BucketsFollow ==
    \A a, b \in admitted : a.key = b.key /\ a.resetAt < b.resetAt =>
       /\ a.at <= b.resetAt - Window + MaxStall
       /\ b.at >= a.resetAt

\* A request of key k that was allowed before bucket was created.
Earlier(a, bucket) ==
    /\ a.resetAt < bucket.resetAt
    /\ a.resetAt <= clock
    /\ a.at <= bucket.resetAt - Window + MaxStall

\* The bucket is the last one of key k: it counts a request or is younger.
IsLast(k, bucket) ==
    \A a \in admitted : a.key = k =>
       (a.resetAt = bucket.resetAt /\ a.n <= bucket.count) \/ Earlier(a, bucket)

\* Each request that a bucket of key k counts was allowed less than a window before
\* the bucket's end.
CountsAdmitted(k, bucket) ==
    \A n \in 1 .. bucket.count : \E a \in admitted :
       /\ a.key = k /\ a.resetAt = bucket.resetAt /\ a.n = n
       /\ a.at >= bucket.resetAt - Window

\* What the history says of the buckets, and what of keys that have none.
HistoryInv ==
    /\ IsFiniteSet(admitted)
    /\ BucketsFollow
    /\ \A a, b \in admitted :
          a.key = b.key /\ a.resetAt = b.resetAt /\ a.n = b.n => a = b
    /\ \A a \in admitted : a.at <= clock
    /\ \A a \in admitted : a.key \notin DOMAIN buckets => a.resetAt <= clock
    /\ \A k \in DOMAIN buckets : IsLast(k, buckets[k]) /\ CountsAdmitted(k, buckets[k])

\* The inductive invariant.
LimiterInv == TypeOK /\ ClockInv /\ SweptClean

\* A waiting request's time and key are typed.
LEMMA WaitingType ==
    ASSUME TypeOK, NEW r \in Requests, req[r] # Free
    PROVE  req[r].key \in Key /\ req[r].now \in Time
BY DEF TypeOK, Request, Free

\* The bucket a request is counted in is typed, has not expired at the request's
\* time and ends after the last sweep, also when the request itself sweeps.
LEMMA CountedBucket ==
    ASSUME LimiterInv, ConstantsAssumption, NEW r \in Requests, req[r] # Free
    PROVE  /\ Counted(r) \in Bucket
           /\ req[r].now < Counted(r).resetAt
           /\ Counted(r).resetAt <= clock + Window
           /\ Counted(r).resetAt > lastCleanup
<1> DEFINE k    == req[r].key
           now  == req[r].now
           kept == Swept(now)
<1>1. k \in Key /\ now \in Time /\ now <= clock /\ clock <= now + MaxStall
    BY WaitingType DEF LimiterInv, ClockInv
<1>2. clock \in Time /\ lastCleanup \in Time \cup {Never} /\ lastCleanup <= clock
    BY DEF LimiterInv, TypeOK, ClockInv
<1>3. CASE k \in DOMAIN kept /\ ~ Expired(kept[k], now)
    <2>1. k \in DOMAIN buckets /\ kept[k] = buckets[k]
        BY <1>3 DEF Swept, Restrict
    <2>2. Counted(r) = buckets[k]
        BY <1>3, <2>1 DEF Counted, Current
    <2>3. /\ buckets[k] \in Bucket
          /\ buckets[k].resetAt <= clock + Window
          /\ buckets[k].resetAt > lastCleanup
        BY <2>1 DEF LimiterInv, TypeOK, ClockInv, SweptClean
    <2>4. ~ (buckets[k].resetAt <= now)
        BY <1>3, <2>1 DEF Expired
    <2> QED
        BY <1>1, <2>2, <2>3, <2>4 DEF Bucket, Time, ConstantsAssumption
<1>4. CASE ~ (k \in DOMAIN kept /\ ~ Expired(kept[k], now))
    <2>1. Counted(r) = [count |-> 0, resetAt |-> now + Window]
        BY <1>4 DEF Counted, Current
    <2> QED
        BY <1>1, <1>2, <2>1 DEF Bucket, Time, Never, ConstantsAssumption
<1> QED
    BY <1>3, <1>4

\* What serving a request does to the map: every bucket is the request's own or one
\* of before, and none has expired at the last sweep.
LEMMA ServeStep ==
    ASSUME LimiterInv, ConstantsAssumption, NEW r \in Requests, req[r] # Free,
           NEW b \in Bucket, b.resetAt = Counted(r).resetAt, Serve(r, b)
    PROVE  /\ buckets' \in [DOMAIN buckets' -> Bucket]
           /\ DOMAIN buckets' \subseteq Key
           /\ \A k \in DOMAIN buckets' : buckets'[k].resetAt <= clock + Window
           /\ SweptClean'
           /\ lastCleanup' \in Time /\ lastCleanup' <= clock
           /\ req[r].now - lastCleanup' < Window
           /\ req' \in [Requests -> Request]
           /\ \A s \in Requests : req'[s] # Free => req'[s] = req[s]
<1> DEFINE k    == req[r].key
           now  == req[r].now
           kept == Swept(now)
<1>1. k \in Key /\ now \in Time /\ now <= clock /\ clock <= now + MaxStall
    BY WaitingType DEF LimiterInv, ClockInv
<1>2. /\ clock \in Time /\ lastCleanup \in Time \cup {Never} /\ lastCleanup <= clock
      /\ buckets \in [DOMAIN buckets -> Bucket] /\ DOMAIN buckets \subseteq Key
      /\ \A x \in DOMAIN buckets : /\ buckets[x].resetAt <= clock + Window
                                   /\ buckets[x].resetAt > lastCleanup
      /\ req \in [Requests -> Request]
    BY DEF LimiterInv, TypeOK, ClockInv, SweptClean
<1>3. /\ lastCleanup' = IF CleanupDue(now) THEN now ELSE lastCleanup
      /\ buckets' = [x \in DOMAIN kept \cup {k} |-> IF x = k THEN b ELSE kept[x]]
      /\ req' = [req EXCEPT ![r] = Free]
    BY DEF Serve
<1>4. /\ lastCleanup' \in Time
      /\ lastCleanup' <= clock
      /\ now - lastCleanup' < Window
    BY <1>1, <1>2, <1>3 DEF CleanupDue, Never, Time, ConstantsAssumption
<1>5. b.resetAt > lastCleanup' /\ b.resetAt <= clock + Window
    BY <1>1, <1>2, <1>3, CountedBucket DEF Bucket, Time
<1>6. \A x \in DOMAIN kept :
         /\ x \in DOMAIN buckets
         /\ kept[x] = buckets[x]
         /\ CleanupDue(now) => ~ (buckets[x].resetAt <= now)
    BY DEF Swept, Restrict, Expired
<1>7. \A x \in DOMAIN kept : kept[x].resetAt > lastCleanup'
    BY <1>1, <1>2, <1>3, <1>6 DEF Bucket, Time
<1>8. \A x \in DOMAIN buckets' : /\ x \in Key
                                 /\ buckets'[x] \in Bucket
                                 /\ buckets'[x].resetAt <= clock + Window
                                 /\ buckets'[x].resetAt > lastCleanup'
    BY <1>1, <1>2, <1>3, <1>5, <1>6, <1>7
<1>9. req' \in [Requests -> Request] /\ \A s \in Requests : req'[s] # Free => req'[s] = req[s]
    BY <1>2, <1>3 DEF Request
<1> QED
    BY <1>3, <1>4, <1>8, <1>9 DEF SweptClean

LEMMA LimiterInit == ConstantsAssumption /\ Init => LimiterInv
<1> SUFFICES ASSUME ConstantsAssumption, Init PROVE LimiterInv
    OBVIOUS
<1>1. DOMAIN buckets = {}
    BY DEF Init
<1> QED
    BY <1>1 DEF Init, LimiterInv, TypeOK, ClockInv, SweptClean, Request, Free, Time, Never,
                ConstantsAssumption

LEMMA LimiterStep == ConstantsAssumption /\ LimiterInv /\ [Next]_vars => LimiterInv'
<1> SUFFICES ASSUME ConstantsAssumption, LimiterInv, [Next]_vars PROVE LimiterInv'
    OBVIOUS
<1>0. TypeOK /\ ClockInv /\ SweptClean
    BY DEF LimiterInv
<1>1. ASSUME NEW r \in Requests, NEW k \in Key, Arrive(r, k)
      PROVE  LimiterInv'
    BY <1>0, <1>1 DEF Arrive, LimiterInv, TypeOK, ClockInv, SweptClean, Request, Free, Time,
                      ConstantsAssumption
<1>2. ASSUME NEW r \in Requests, Admit(r) \/ Refuse(r)
      PROVE  LimiterInv'
    <2>1. req[r] # Free /\ clock' = clock
        BY <1>2 DEF Admit, Refuse, Serve
    <2>2. PICK b \in Bucket : b.resetAt = Counted(r).resetAt /\ Serve(r, b)
        BY <1>2, <2>1, CountedBucket DEF Admit, Refuse, Full, Bucket, ConstantsAssumption
    <2>3. admitted' \subseteq Admission
        <3>1. CASE Refuse(r)
            BY <1>0, <3>1 DEF Refuse, TypeOK
        <3>2. CASE Admit(r)
            <4>1. req[r].key \in Key /\ Counted(r) \in Bucket /\ clock \in Time
                BY <1>0, <2>1, WaitingType, CountedBucket DEF TypeOK
            <4>2. Counted(r).count + 1 \in 1 .. Limit
                BY <3>2, <4>1 DEF Admit, Full, Bucket, ConstantsAssumption
            <4> QED
                BY <1>0, <3>2, <4>1, <4>2 DEF Admit, TypeOK, Admission, Bucket
        <3> QED
            BY <1>2, <3>1, <3>2
    <2>4. TypeOK' /\ SweptClean'
        BY <1>0, <2>1, <2>2, <2>3, ServeStep DEF TypeOK
    <2>5. ClockInv'
        BY <1>0, <2>1, <2>2, ServeStep DEF ClockInv
    <2> QED
        BY <2>4, <2>5 DEF LimiterInv
<1>3. CASE Tick
    BY <1>0, <1>3 DEF Tick, LimiterInv, TypeOK, ClockInv, SweptClean, Request, Free, Bucket, Time,
                      Never, ConstantsAssumption
<1>4. CASE UNCHANGED vars
    BY <1>0, <1>4 DEF vars, LimiterInv, TypeOK, ClockInv, SweptClean
<1> QED
    BY <1>1, <1>2, <1>3, <1>4 DEF Next

LEMMA LimiterInvariant == Spec => []LimiterInv
BY LimiterInit, LimiterStep, ConstantsAssumption, PTL DEF Spec

\* Type correctness of the limiter; in particular no bucket counts above the limit.
THEOREM LimiterTypeCorrect == Spec => []TypeOK
BY LimiterInvariant, PTL DEF LimiterInv

\* Cleanup is never undone by a request that took its time before it: no bucket in
\* the map had expired at the last sweep.
THEOREM MapIsSwept == Spec => []SweptClean
BY LimiterInvariant, PTL DEF LimiterInv

\* The client is never told to come back later than one window and one stall.
THEOREM RetryAfterBounded == Spec => RetryAfterIsNear
<1>1. LimiterInv /\ [Next]_vars =>
         [\A r \in Requests : Refuse(r) => RetryAfter(r) \in 1 .. Window + MaxStall]_vars
    <2> SUFFICES ASSUME LimiterInv, NEW r \in Requests, Refuse(r)
                 PROVE  RetryAfter(r) \in 1 .. Window + MaxStall
        OBVIOUS
    <2>1. req[r] # Free
        BY DEF Refuse
    <2>2. req[r].now \in Time /\ clock \in Time /\ clock <= req[r].now + MaxStall
        BY <2>1, WaitingType DEF LimiterInv, TypeOK, ClockInv
    <2> QED
        BY <2>1, <2>2, CountedBucket, ConstantsAssumption
           DEF RetryAfter, Bucket, Time, ConstantsAssumption
<1> QED
    BY <1>1, LimiterInvariant, PTL DEF Spec, RetryAfterIsNear

\* The map never holds more than the buckets of the last two windows.
THEOREM MapStaysSmall == Spec => BucketsAreRecent
<1>1. LimiterInv /\ [Next]_vars =>
         [\A r \in Requests : Admit(r) \/ Refuse(r) =>
            \A k \in DOMAIN buckets' : buckets'[k].resetAt - 1 > req[r].now - Window]_vars
    <2> SUFFICES ASSUME LimiterInv, NEW r \in Requests, Admit(r) \/ Refuse(r)
                 PROVE  \A k \in DOMAIN buckets' : buckets'[k].resetAt - 1 > req[r].now - Window
        OBVIOUS
    <2>1. req[r] # Free
        BY DEF Admit, Refuse
    <2>2. PICK b \in Bucket : b.resetAt = Counted(r).resetAt /\ Serve(r, b)
        BY <2>1, CountedBucket, ConstantsAssumption
           DEF Admit, Refuse, Full, Bucket, ConstantsAssumption
    <2>3. /\ buckets' \in [DOMAIN buckets' -> Bucket]
          /\ SweptClean'
          /\ lastCleanup' \in Time
          /\ req[r].now - lastCleanup' < Window
        BY <2>1, <2>2, ServeStep, ConstantsAssumption
    <2>4. req[r].now \in Time
        BY <2>1, WaitingType DEF LimiterInv
    <2> QED
        BY <2>3, <2>4, ConstantsAssumption DEF SweptClean, Bucket, Time, ConstantsAssumption
<1> QED
    BY <1>1, LimiterInvariant, PTL DEF Spec, BucketsAreRecent

-----------------------------------------------------------------------------
(* What was allowed, and when *)

\* The bucket a request is counted in is the key's in the map, or a new one: then the
\* key's in the map, if any, is over.
LEMMA CountedCases ==
    ASSUME LimiterInv, ConstantsAssumption, NEW r \in Requests, req[r] # Free
    PROVE  \/ /\ req[r].key \in DOMAIN buckets
              /\ Counted(r) = buckets[req[r].key]
           \/ /\ Counted(r) = [count |-> 0, resetAt |-> req[r].now + Window]
              /\ req[r].key \in DOMAIN buckets =>
                    buckets[req[r].key].resetAt <= req[r].now
<1> DEFINE k    == req[r].key
           now  == req[r].now
           kept == Swept(now)
<1>1. \A x \in DOMAIN buckets : x \notin DOMAIN kept => buckets[x].resetAt <= now
    BY DEF Swept, Restrict, Expired
<1>2. \A x \in DOMAIN kept : x \in DOMAIN buckets /\ kept[x] = buckets[x]
    BY DEF Swept, Restrict
<1>3. CASE k \in DOMAIN kept /\ ~ Expired(kept[k], now)
    BY <1>2, <1>3 DEF Counted, Current
<1>4. CASE ~ (k \in DOMAIN kept /\ ~ Expired(kept[k], now))
    <2>1. Counted(r) = [count |-> 0, resetAt |-> now + Window]
        BY <1>4 DEF Counted, Current
    <2>2. k \in DOMAIN kept => kept[k].resetAt <= now
        BY <1>4 DEF Expired
    <2> QED
        BY <1>1, <1>2, <2>1, <2>2
<1> QED
    BY <1>3, <1>4

\* The bucket a request is counted in is the key's last one, and what it counts was
\* allowed.
LEMMA CountedIsLast ==
    ASSUME LimiterInv, HistoryInv, ConstantsAssumption, NEW r \in Requests, req[r] # Free
    PROVE  IsLast(req[r].key, Counted(r)) /\ CountsAdmitted(req[r].key, Counted(r))
<1> DEFINE k   == req[r].key
           now == req[r].now
<1>1. CASE k \in DOMAIN buckets /\ Counted(r) = buckets[k]
    BY <1>1 DEF HistoryInv
<1>2. CASE /\ Counted(r) = [count |-> 0, resetAt |-> now + Window]
           /\ k \in DOMAIN buckets => buckets[k].resetAt <= now
    <2>1. CountsAdmitted(k, Counted(r))
        BY <1>2 DEF CountsAdmitted
    <2>2. now \in Time /\ clock \in Time /\ now <= clock /\ clock <= now + MaxStall
        BY WaitingType DEF LimiterInv, TypeOK, ClockInv
    <2>3. ASSUME NEW a \in admitted, a.key = k
          PROVE  Earlier(a, Counted(r))
        <3>1. a \in Admission /\ a.at <= clock
            BY DEF LimiterInv, TypeOK, HistoryInv
        <3>2. a.resetAt <= clock
            <4>1. CASE k \in DOMAIN buckets
                <5>1. buckets[k] \in Bucket /\ buckets[k].resetAt <= now
                    BY <1>2, <4>1 DEF LimiterInv, TypeOK
                <5>2. a.resetAt = buckets[k].resetAt \/ a.resetAt <= clock
                    BY <2>3, <4>1 DEF HistoryInv, IsLast, Earlier
                <5> QED
                    BY <2>2, <5>1, <5>2 DEF Bucket, Time
            <4>2. CASE k \notin DOMAIN buckets
                BY <2>3, <4>2 DEF HistoryInv
            <4> QED
                BY <4>1, <4>2
        <3> QED
            BY <1>2, <2>2, <3>1, <3>2 DEF Earlier, Admission, Time, ConstantsAssumption
    <2> QED
        BY <2>1, <2>3 DEF IsLast
<1> QED
    BY <1>1, <1>2, CountedCases

\* What serving a request leaves of the other keys' buckets: those that go had ended.
LEMMA ServeOthers ==
    ASSUME LimiterInv, ConstantsAssumption, NEW r \in Requests, req[r] # Free,
           NEW b, Serve(r, b)
    PROVE  /\ req[r].key \in DOMAIN buckets' /\ buckets'[req[r].key] = b
           /\ \A x \in DOMAIN buckets' : x # req[r].key =>
                 x \in DOMAIN buckets /\ buckets'[x] = buckets[x]
           /\ \A x \in DOMAIN buckets : x \notin DOMAIN buckets' => buckets[x].resetAt <= clock
           /\ clock' = clock
<1> DEFINE k    == req[r].key
           now  == req[r].now
           kept == Swept(now)
<1>1. /\ buckets' = [x \in DOMAIN kept \cup {k} |-> IF x = k THEN b ELSE kept[x]]
      /\ clock' = clock
    BY DEF Serve
<1>2. \A x \in DOMAIN buckets : x \notin DOMAIN kept => buckets[x].resetAt <= now
    BY DEF Swept, Restrict, Expired
<1>3. \A x \in DOMAIN kept : x \in DOMAIN buckets /\ kept[x] = buckets[x]
    BY DEF Swept, Restrict
<1>4. now \in Time /\ clock \in Time /\ now <= clock
    BY WaitingType DEF LimiterInv, TypeOK, ClockInv
<1>5. \A x \in DOMAIN buckets : buckets[x] \in Bucket
    BY DEF LimiterInv, TypeOK
<1>6. \A x \in DOMAIN buckets : x \notin DOMAIN buckets' => buckets[x].resetAt <= clock
    BY <1>1, <1>2, <1>4, <1>5 DEF Bucket, Time
<1> QED
    BY <1>1, <1>3, <1>6

\* A request that is not counted leaves the history as it was.
LEMMA RefuseHistory ==
    ASSUME LimiterInv, HistoryInv, ConstantsAssumption, NEW r \in Requests, Refuse(r)
    PROVE  HistoryInv'
<1> DEFINE k == req[r].key
<1>1. req[r] # Free /\ Serve(r, Counted(r)) /\ admitted' = admitted
    BY DEF Refuse
<1>2. IsLast(k, Counted(r)) /\ CountsAdmitted(k, Counted(r))
    BY <1>1, CountedIsLast
<1>3. /\ k \in DOMAIN buckets' /\ buckets'[k] = Counted(r)
      /\ \A x \in DOMAIN buckets' : x # k => x \in DOMAIN buckets /\ buckets'[x] = buckets[x]
      /\ \A x \in DOMAIN buckets : x \notin DOMAIN buckets' => buckets[x].resetAt <= clock
      /\ clock' = clock
    BY <1>1, ServeOthers
<1>4. \A x \in DOMAIN buckets' : IsLast(x, buckets'[x]) /\ CountsAdmitted(x, buckets'[x])
    BY <1>2, <1>3 DEF HistoryInv
<1>5. \A x \in DOMAIN buckets' : (IsLast(x, buckets[x]) /\ CountsAdmitted(x, buckets[x]))'
    BY <1>1, <1>3, <1>4 DEF IsLast, CountsAdmitted, Earlier
<1>6. \A a \in admitted : a.key \notin DOMAIN buckets' => a.resetAt <= clock
    BY <1>3 DEF HistoryInv, IsLast, Earlier
<1> QED
    BY <1>1, <1>3, <1>5, <1>6 DEF HistoryInv, BucketsFollow

\* A request that is allowed becomes the last one its bucket counts.
LEMMA AdmitHistory ==
    ASSUME LimiterInv, HistoryInv, ConstantsAssumption, NEW r \in Requests, Admit(r)
    PROVE  HistoryInv'
<1> DEFINE k   == req[r].key
           old == Counted(r)
           new == [old EXCEPT !.count = @ + 1]
           e   == [key |-> k, resetAt |-> old.resetAt, n |-> old.count + 1, at |-> clock]
<1>1. req[r] # Free /\ Serve(r, new) /\ admitted' = admitted \cup {e}
    BY DEF Admit
<1>2. IsLast(k, old) /\ CountsAdmitted(k, old)
    BY <1>1, CountedIsLast
<1>3. /\ k \in DOMAIN buckets' /\ buckets'[k] = new
      /\ \A x \in DOMAIN buckets' : x # k => x \in DOMAIN buckets /\ buckets'[x] = buckets[x]
      /\ \A x \in DOMAIN buckets : x \notin DOMAIN buckets' => buckets[x].resetAt <= clock
      /\ clock' = clock
    BY <1>1, ServeOthers
<1>4. old \in Bucket /\ old.resetAt <= clock + Window /\ clock \in Time
    BY <1>1, CountedBucket DEF LimiterInv, TypeOK
<1>5. new.count = old.count + 1 /\ new.resetAt = old.resetAt
    BY <1>4 DEF Bucket
<1>6. \A a \in admitted : a \in Admission /\ a.at <= clock
    BY DEF LimiterInv, TypeOK, HistoryInv
<1>7. \A a \in admitted : a.key = k =>
         (a.resetAt = old.resetAt /\ a.n <= old.count) \/ Earlier(a, old)
    BY <1>2 DEF IsLast
<1>8. IsFiniteSet(admitted')
    BY <1>1, FS_AddElement DEF HistoryInv
<1>9. BucketsFollow'
    <2> SUFFICES ASSUME NEW a \in admitted', NEW b \in admitted',
                        a.key = b.key, a.resetAt < b.resetAt
                 PROVE  a.at <= b.resetAt - Window + MaxStall /\ b.at >= a.resetAt
        BY DEF BucketsFollow
    <2>1. CASE a \in admitted /\ b \in admitted
        BY <2>1 DEF HistoryInv, BucketsFollow
    <2>2. CASE a \in admitted /\ b = e
        <3>1. Earlier(a, old)
            BY <1>4, <1>6, <1>7, <2>2 DEF Admission, Bucket
        <3> QED
            BY <2>2, <3>1 DEF Earlier
    <2>3. CASE a = e /\ b \in admitted
        BY <1>4, <1>6, <1>7, <2>3 DEF Earlier, Admission, Bucket
    <2>4. CASE a = e /\ b = e
        BY <1>4, <2>4 DEF Bucket
    <2> QED
        BY <1>1, <2>1, <2>2, <2>3, <2>4
<1>10. \A a, b \in admitted' : a.key = b.key /\ a.resetAt = b.resetAt /\ a.n = b.n => a = b
    <2>1. \A a \in admitted : ~ (a.key = e.key /\ a.resetAt = e.resetAt /\ a.n = e.n)
        BY <1>4, <1>6, <1>7 DEF Earlier, Admission, Bucket
    <2> QED
        BY <1>1, <2>1 DEF HistoryInv
<1>11. \A a \in admitted' : a.at <= clock
    BY <1>1, <1>4, <1>6 DEF Time
<1>12. \A a \in admitted' : a.key \notin DOMAIN buckets' => a.resetAt <= clock
    <2>1. \A a \in admitted : a.key \notin DOMAIN buckets' => a.resetAt <= clock
        BY <1>3 DEF HistoryInv, IsLast, Earlier
    <2> QED
        BY <1>1, <1>3, <2>1
<1>13. ASSUME NEW x \in DOMAIN buckets'
       PROVE  (IsLast(x, buckets[x]) /\ CountsAdmitted(x, buckets[x]))'
    <2>1. CASE x = k
        <3>1. \A a \in admitted' : a.key = k =>
                 (a.resetAt = new.resetAt /\ a.n <= new.count) \/ Earlier(a, new)
            BY <1>1, <1>4, <1>5, <1>6, <1>7 DEF Earlier, Bucket, Admission
        <3>2. ASSUME NEW n \in 1 .. new.count
              PROVE  \E a \in admitted' : /\ a.key = k /\ a.resetAt = new.resetAt /\ a.n = n
                                          /\ a.at >= new.resetAt - Window
            <4>1. CASE n = new.count
                <5>1. e \in admitted' /\ e.key = k /\ e.resetAt = old.resetAt /\ e.n = old.count + 1
                    BY <1>1
                <5>2. e.at >= old.resetAt - Window
                    BY <1>4 DEF Bucket, Time, ConstantsAssumption
                <5> QED
                    BY <1>5, <4>1, <5>1, <5>2
            <4>2. CASE n # new.count
                <5>1. n \in 1 .. old.count
                    BY <1>4, <1>5, <4>2 DEF Bucket
                <5> QED
                    BY <1>1, <1>2, <1>5, <5>1 DEF CountsAdmitted
            <4> QED
                BY <4>1, <4>2
        <3>3. buckets'[x] = new /\ x = k /\ clock' = clock
            BY <1>3, <2>1
        <3> HIDE DEF new, k
        <3>4. IsLast(x, buckets[x])'
            BY <3>1, <3>3 DEF IsLast, Earlier
        <3>5. CountsAdmitted(x, buckets[x])'
            BY <3>2, <3>3 DEF CountsAdmitted
        <3> QED
            BY <3>4, <3>5
    <2>2. CASE x # k
        <3>1. /\ x \in DOMAIN buckets /\ buckets'[x] = buckets[x]
              /\ IsLast(x, buckets[x]) /\ CountsAdmitted(x, buckets[x])
            BY <1>3, <2>2 DEF HistoryInv
        <3> QED
            BY <1>1, <1>3, <2>2, <3>1 DEF IsLast, CountsAdmitted, Earlier
    <2> QED
        BY <2>1, <2>2
<1> QED
    BY <1>3, <1>8, <1>9, <1>10, <1>11, <1>12, <1>13 DEF HistoryInv

LEMMA HistoryInit == ConstantsAssumption /\ Init => HistoryInv
<1> SUFFICES ASSUME Init PROVE HistoryInv
    OBVIOUS
<1>1. admitted = {} /\ DOMAIN buckets = {}
    BY DEF Init
<1> QED
    BY <1>1, FS_EmptySet DEF HistoryInv, BucketsFollow

LEMMA HistoryStep ==
    ConstantsAssumption /\ LimiterInv /\ HistoryInv /\ [Next]_vars => HistoryInv'
<1> SUFFICES ASSUME ConstantsAssumption, LimiterInv, HistoryInv, [Next]_vars
             PROVE  HistoryInv'
    OBVIOUS
<1>1. ASSUME NEW r \in Requests, NEW k \in Key, Arrive(r, k)
      PROVE  HistoryInv'
    BY <1>1 DEF Arrive, HistoryInv, BucketsFollow, IsLast, CountsAdmitted, Earlier
<1>2. ASSUME NEW r \in Requests, Admit(r) \/ Refuse(r)
      PROVE  HistoryInv'
    BY <1>2, AdmitHistory, RefuseHistory
<1>3. CASE Tick
    <2>1. /\ clock \in Nat /\ clock' = clock + 1
          /\ buckets' = buckets /\ admitted' = admitted
        BY <1>3 DEF Tick, LimiterInv, TypeOK, Time
    <2>2. \A a \in admitted : a.at \in Nat /\ a.resetAt \in Int
        BY DEF LimiterInv, TypeOK, Admission, Time, ConstantsAssumption
    <2>3. \A k \in DOMAIN buckets' : (IsLast(k, buckets[k]) /\ CountsAdmitted(k, buckets[k]))'
        BY <2>1, <2>2 DEF HistoryInv, IsLast, CountsAdmitted, Earlier
    <2>4. \A a \in admitted : /\ a.at <= clock + 1
                              /\ a.key \notin DOMAIN buckets => a.resetAt <= clock + 1
        BY <2>1, <2>2 DEF HistoryInv
    <2> QED
        <3>1. BucketsFollow'
            BY <2>1 DEF HistoryInv, BucketsFollow
        <3>2. IsFiniteSet(admitted')
            BY <2>1 DEF HistoryInv
        <3>3. \A a, b \in admitted' : a.key = b.key /\ a.resetAt = b.resetAt /\ a.n = b.n => a = b
            BY <2>1 DEF HistoryInv
        <3>4. \A a \in admitted' : /\ a.at <= clock'
                                   /\ a.key \notin DOMAIN buckets' => a.resetAt <= clock'
            BY <2>1, <2>4
        <3> QED
            BY <2>3, <3>1, <3>2, <3>3, <3>4 DEF HistoryInv
<1>4. CASE UNCHANGED vars
    BY <1>4 DEF vars, HistoryInv, BucketsFollow, IsLast, CountsAdmitted, Earlier
<1> QED
    BY <1>1, <1>2, <1>3, <1>4 DEF Next

LEMMA HistoryInvariant == Spec => []HistoryInv
<1>1. LimiterInv /\ HistoryInv /\ [Next]_vars => HistoryInv'
    BY HistoryStep, ConstantsAssumption
<1> QED
    BY <1>1, HistoryInit, LimiterInvariant, ConstantsAssumption, PTL DEF Spec

\* Requests allowed within a span of one window less a stall belong to two buckets at
\* most: from the last of one bucket to the first of the next but one it is longer.
LEMMA TwoBuckets ==
    ASSUME LimiterInv, HistoryInv, ConstantsAssumption, NEW k \in Key, NEW t \in Time
    PROVE  \E R1, R2 : \A a \in admitted :
              a.key = k /\ a.at \in t .. t + (Window - MaxStall) - 1 => a.resetAt \in {R1, R2}
<1> DEFINE S == {a \in admitted : a.key = k /\ a.at \in t .. t + (Window - MaxStall) - 1}
<1>1. \A a \in S : a.key = k /\ a.at \in Int /\ a.resetAt \in Int
    BY DEF LimiterInv, TypeOK, Admission, Time, ConstantsAssumption
<1>2. \A a, b \in S : a.at < b.at + (Window - MaxStall)
    BY DEF Time, ConstantsAssumption
<1>3. \A a, b \in S : a.resetAt < b.resetAt =>
         a.at <= b.resetAt - Window + MaxStall /\ b.at >= a.resetAt
    BY <1>1 DEF HistoryInv, BucketsFollow
<1>4. \A x, y, z \in S : ~ (x.resetAt < y.resetAt /\ y.resetAt < z.resetAt)
    <2> SUFFICES ASSUME NEW x \in S, NEW y \in S, NEW z \in S,
                        x.resetAt < y.resetAt, y.resetAt < z.resetAt
                 PROVE  FALSE
        OBVIOUS
    <2>1. x.at <= y.resetAt - Window + MaxStall
        BY <1>3
    <2>2. z.at >= y.resetAt
        BY <1>3
    <2>3. z.at < x.at + (Window - MaxStall)
        BY <1>2
    <2> HIDE DEF S
    <2> QED
        BY <1>1, <2>1, <2>2, <2>3 DEF ConstantsAssumption
<1> HIDE DEF S
<1>5. \E R1, R2 : \A a \in S : a.resetAt \in {R1, R2}
    <2>1. CASE S = {}
        BY <2>1
    <2>2. ASSUME NEW x \in S, NEW y \in S, x.resetAt # y.resetAt
          PROVE  \A a \in S : a.resetAt \in {x.resetAt, y.resetAt}
        BY <1>1, <1>4, <2>2
    <2>3. ASSUME NEW x \in S, \A y \in S : x.resetAt = y.resetAt
          PROVE  \A a \in S : a.resetAt \in {x.resetAt, x.resetAt}
        BY <2>3
    <2> QED
        BY <2>1, <2>2, <2>3
<1> QED
    BY <1>5 DEF S

\* The limiter's promise: within one window less the longest stall a key is allowed at
\* most twice the limit, however requests overtake each other and whenever the map is
\* swept.  The requests of the two buckets are told apart by bucket and number.
THEOREM TwiceTheLimit == Spec => []AtMostTwoWindows
<1>1. LimiterInv /\ HistoryInv => AtMostTwoWindows
    <2> SUFFICES ASSUME LimiterInv, HistoryInv, NEW k \in Key, NEW t \in Time
                 PROVE  AdmittedIn(k, t .. t + (Window - MaxStall) - 1) <= 2 * Limit
        BY DEF AtMostTwoWindows
    <2> DEFINE S == {a \in admitted : a.key = k /\ a.at \in t .. t + (Window - MaxStall) - 1}
    <2>0. Limit \in Nat
        BY ConstantsAssumption DEF ConstantsAssumption
    <2>1. PICK R1, R2 : \A a \in S : a.resetAt \in {R1, R2}
        <3>1. PICK R1, R2 : \A a \in admitted :
                 a.key = k /\ a.at \in t .. t + (Window - MaxStall) - 1 => a.resetAt \in {R1, R2}
            BY TwoBuckets, ConstantsAssumption
        <3>2. \A a \in S : a.resetAt \in {R1, R2}
            BY <3>1
        <3> QED
            BY <3>2
    <2> DEFINE T    == {R1, R2} \X (1 .. Limit)
               f    == [a \in S |-> <<a.resetAt, a.n>>]
    <2>2. \A a \in S : a.n \in 1 .. Limit
        BY DEF LimiterInv, TypeOK, Admission
    <2>3. \A a, b \in S : a.resetAt = b.resetAt /\ a.n = b.n => a = b
        BY DEF HistoryInv
    <2>4. f \in Injection(S, T)
        <3> HIDE DEF S
        <3>1. f \in [S -> T]
            BY <2>1, <2>2
        <3>2. \A a, b \in S : f[a] = f[b] => a = b
            BY <2>3
        <3> QED
            BY <3>1, <3>2 DEF Injection, IsInjective
    <2>5. IsFiniteSet(1 .. Limit) /\ Cardinality(1 .. Limit) = Limit
        BY <2>0, FS_Interval
    <2>6. IsFiniteSet({R1, R2}) /\ Cardinality({R1, R2}) \in Nat /\ Cardinality({R1, R2}) <= 2
        <3>1. IsFiniteSet({R1}) /\ Cardinality({R1}) = 1
            BY FS_Singleton
        <3>2. {R1, R2} = {R1} \cup {R2}
            OBVIOUS
        <3> QED
            BY <3>1, <3>2, FS_AddElement
    <2>7. IsFiniteSet(T) /\ Cardinality(T) = Cardinality({R1, R2}) * Limit
        BY <2>5, <2>6, FS_Product
    <2>8. Cardinality(T) <= 2 * Limit
        BY <2>0, <2>6, <2>7
    <2>9. Cardinality(S) <= Cardinality(T) /\ Cardinality(S) \in Nat /\ Cardinality(T) \in Nat
        BY <2>4, <2>7, FS_Injection, FS_CardinalityType
    <2> QED
        BY <2>0, <2>8, <2>9 DEF AdmittedIn
<1> QED
    BY <1>1, LimiterInvariant, HistoryInvariant, PTL

\* A refusal always has its cause: the limit was used up by requests of the same key
\* that were allowed less than a window before the refused one took its time.
THEOREM RefusalHasCause == Spec => RefusedWhenUsedUp
<1>1. LimiterInv /\ HistoryInv /\ [Next]_vars =>
         [\A r \in Requests : Refuse(r) =>
            AdmittedIn(req[r].key, req[r].now - Window + 1 .. clock) >= Limit]_vars
    <2> SUFFICES ASSUME LimiterInv, HistoryInv, NEW r \in Requests, Refuse(r)
                 PROVE  AdmittedIn(req[r].key, req[r].now - Window + 1 .. clock) >= Limit
        OBVIOUS
    <2> DEFINE k == req[r].key
               S == {a \in admitted : a.key = k /\ a.at \in req[r].now - Window + 1 .. clock}
    <2>0. Limit \in Nat /\ Window \in Nat
        BY ConstantsAssumption DEF ConstantsAssumption
    <2>1. /\ Counted(r) \in Bucket /\ Counted(r).count = Limit
          /\ req[r].now < Counted(r).resetAt /\ req[r].now \in Nat
          /\ CountsAdmitted(k, Counted(r))
        BY ConstantsAssumption, CountedBucket, CountedIsLast, WaitingType
           DEF Refuse, Full, Bucket, Time, LimiterInv
    <2>2. \A n \in 1 .. Limit : \E a \in S : a.n = n
        <3> SUFFICES ASSUME NEW n \in 1 .. Limit
                     PROVE  \E a \in S : a.n = n
            OBVIOUS
        <3>1. PICK a \in admitted : /\ a.key = k /\ a.n = n
                                    /\ a.at >= Counted(r).resetAt - Window
            BY <2>1 DEF CountsAdmitted
        <3>2. a.at \in Nat /\ a.at <= clock /\ clock \in Nat /\ Counted(r).resetAt \in Int
            BY <2>1, ConstantsAssumption
               DEF LimiterInv, TypeOK, HistoryInv, Admission, Time, Bucket, ConstantsAssumption
        <3>3. a.at \in req[r].now - Window + 1 .. clock
            BY <2>0, <2>1, <3>1, <3>2
        <3> QED
            BY <3>1, <3>3
    <2>3. IsFiniteSet(S)
        <3>1. S \subseteq admitted
            OBVIOUS
        <3> QED
            BY <3>1, FS_Subset DEF HistoryInv
    <2> DEFINE g == [n \in 1 .. Limit |-> CHOOSE a \in S : a.n = n]
    <2>4. g \in Injection(1 .. Limit, S)
        <3> HIDE DEF S
        <3>1. \A n \in 1 .. Limit : g[n] \in S /\ g[n].n = n
            BY <2>2
        <3> QED
            BY <3>1 DEF Injection, IsInjective
    <2>5. Cardinality(1 .. Limit) = Limit
        BY <2>0, FS_Interval
    <2>6. Cardinality(1 .. Limit) <= Cardinality(S)
        BY <2>3, <2>4, FS_Injection
    <2> QED
        BY <2>5, <2>6 DEF AdmittedIn
<1> QED
    BY <1>1, LimiterInvariant, HistoryInvariant, PTL DEF Spec, RefusedWhenUsedUp

=============================================================================
