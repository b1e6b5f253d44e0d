----------------------------- MODULE Submission -----------------------------
(***************************************************************************)
(* POST /jobs up to its commit: the per-address hourly bucket, the wallet's *)
(* daily quota and the insert of the job, in one database transaction per  *)
(* request.  The upsert on the bucket row holds its row lock until the     *)
(* transaction ends; the quota count takes no lock; any refusal raises and *)
(* rolls the whole transaction back, the increment included.               *)
(*                                                                         *)
(* A request starts here after the checks that touch no table (preset,     *)
(* prompt, Turnstile) and refuse without any effect.  Time is counted in   *)
(* hours.                                                                  *)
(***************************************************************************)
EXTENDS Integers, FiniteSets

CONSTANTS
    Requests,   \* POST /jobs requests, each made once
    IPs,        \* client addresses (hash_ip is injective on them)
    Wallets,    \* wallets of authenticated callers
    NoWallet,   \* an anonymous caller
    Tiers,      \* tiers the panel may answer
    AnonTier,   \* ANON_TIER, the tier of anonymous callers
    Quota,      \* quota_limit_for_tier, by tier
    Limit,      \* rate_limit_per_hour; no limit if 0
    Day,        \* hours the quota looks back
    NoCaller,   \* the caller of a request still to come
    MaxHour     \* bound of the model: the last hour

ASSUME FiniteAssumption == IsFiniteSet(Requests)
ASSUME NullAssumption == NoWallet \notin Wallets /\ AnonTier \in Tiers
ASSUME NumberAssumption == /\ Limit \in Nat /\ Day \in Nat \ {0} /\ MaxHour \in Nat
                           /\ Quota \in [Tiers -> Nat]

VARIABLES
    now,      \* current hour
    pc,       \* progress of each request
    caller,   \* its address, wallet and tier, and the hour it began in
    count     \* superbcs_rate_limit.count by address and hour, committed

vars == <<now, pc, caller, count>>

Hours   == 0 .. MaxHour
Callers == [ip : IPs, wallet : Wallets \cup {NoWallet}, tier : Tiers,
            hour : Hours]
Buckets == IPs \X Hours
InFlight == {"waiting", "counted", "inserting"}

\* The bucket row a request is charged to.
Bucket(r) == <<caller[r].ip, caller[r].hour>>

\* The requests whose job row is committed, and those of one bucket.
Accepted    == {r \in Requests : pc[r] = "accepted"}
AcceptedIn(b) == {r \in Accepted : Bucket(r) = b}

-----------------------------------------------------------------------------
\* Slips: the upsert does not wait for the transaction that wrote the row; a
\* refused request keeps its transaction, and the lock, open.
NeverLocked(r) == FALSE
LockedByRefused(r) ==
    \E q \in Requests \ {r} :
       pc[q] \in {"counted", "inserting", "refused"} /\ Bucket(q) = Bucket(r)

\* Another open transaction has written the bucket row of r.
BucketLocked(r) ==
    \E q \in Requests \ {r} :
       pc[q] \in {"counted", "inserting"} /\ Bucket(q) = Bucket(r)

\* The wallet's jobs of the last Day hours, deleted ones included: what
\* daily_quota_state counts, among committed rows.
Used(w) == Cardinality({r \in Accepted : /\ caller[r].wallet = w
                                         /\ caller[r].hour >= now - Day})

Init ==
    /\ now = 0
    /\ pc = [r \in Requests |-> "new"]
    /\ caller = [r \in Requests |-> NoCaller]
    /\ count = [b \in Buckets |-> 0]

\* Slip: the window is rounded up to the next hour.
BeginNextHour(r, i, w, t) ==
    /\ pc[r] = "new"
    /\ w = NoWallet => t = AnonTier
    /\ pc' = [pc EXCEPT ![r] = "waiting"]
    /\ caller' = [caller EXCEPT ![r] =
                     [ip |-> i, wallet |-> w, tier |-> t, hour |-> now + 1]]
    /\ UNCHANGED <<now, count>>

\* The tier is resolved (the panel's answer, a cached one, or FREE on an
\* error), and the upsert is sent: the transaction and created_at begin now.
Begin(r, i, w, t) ==
    /\ pc[r] = "new"
    /\ w = NoWallet => t = AnonTier
    /\ pc' = [pc EXCEPT ![r] = "waiting"]
    /\ caller' = [caller EXCEPT ![r] =
                     [ip |-> i, wallet |-> w, tier |-> t, hour |-> now]]
    /\ UNCHANGED <<now, count>>

\* Slip: the count is compared before the increment.
BumpOneMore(r) ==
    /\ pc[r] = "waiting"
    /\ Limit > 0 => ~BucketLocked(r)
    /\ pc' = [pc EXCEPT ![r] = IF Limit > 0 /\ count[Bucket(r)] > Limit
                               THEN "refused" ELSE "counted"]
    /\ UNCHANGED <<now, caller, count>>

\* The upsert gets the row lock and returns its own count, still uncommitted;
\* over the limit, 429 and rollback.
Bump(r) ==
    /\ pc[r] = "waiting"
    /\ Limit > 0 => ~BucketLocked(r)
    /\ pc' = [pc EXCEPT ![r] =
                 IF Limit > 0 /\ count[Bucket(r)] + 1 > Limit
                 THEN "refused" ELSE "counted"]
    /\ UNCHANGED <<now, caller, count>>

\* The quota is read for an authenticated caller; used up, 429 and rollback.
CheckQuota(r) ==
    /\ pc[r] = "counted"
    /\ pc' = [pc EXCEPT ![r] =
                 IF /\ caller[r].wallet # NoWallet
                    /\ Used(caller[r].wallet) >= Quota[caller[r].tier]
                 THEN "refused" ELSE "inserting"]
    /\ UNCHANGED <<now, caller, count>>

\* Slip: a refusal after the upsert commits the increment.
FailCounted(r) ==
    /\ pc[r] \in InFlight
    /\ pc' = [pc EXCEPT ![r] = "refused"]
    /\ count' = IF pc[r] = "inserting"
                THEN [count EXCEPT ![Bucket(r)] = @ + 1] ELSE count
    /\ UNCHANGED <<now, caller>>

\* 413 or 400 on the image, a client gone, a crash: rolled back.
Fail(r) ==
    /\ pc[r] \in InFlight
    /\ pc' = [pc EXCEPT ![r] = "refused"]
    /\ UNCHANGED <<now, caller, count>>

\* The job row is inserted and everything is committed.
Commit(r) ==
    /\ pc[r] = "inserting"
    /\ pc' = [pc EXCEPT ![r] = "accepted"]
    /\ count' = IF Limit > 0 THEN [count EXCEPT ![Bucket(r)] = @ + 1] ELSE count
    /\ UNCHANGED <<now, caller>>

\* The clock strikes the hour.  Bound of the model: a request in flight sees
\* that at most once.
Tick ==
    /\ now < MaxHour
    /\ \A r \in Requests : pc[r] \in InFlight => caller[r].hour = now
    /\ now' = now + 1
    /\ UNCHANGED <<pc, caller, count>>

Serve(r) == Bump(r) \/ CheckQuota(r) \/ Commit(r) \/ Fail(r)

Next ==
    \/ \E r \in Requests, i \in IPs, w \in Wallets \cup {NoWallet}, t \in Tiers :
          Begin(r, i, w, t)
    \/ \E r \in Requests : Serve(r)
    \/ Tick

Spec == Init /\ [][Next]_vars

\* A request that can go on does: no await of the handler hangs, and the
\* database grants a row lock that is free.
FairSpec ==
    Spec /\ \A r \in Requests : WF_vars(Bump(r) \/ CheckQuota(r) \/ Commit(r))

-----------------------------------------------------------------------------
(* Properties.                                                             *)

TypeOK ==
    /\ now \in Hours
    /\ pc \in [Requests -> {"new", "accepted", "refused"} \cup InFlight]
    /\ caller \in [Requests -> Callers \cup {NoCaller}]
    /\ \A r \in Requests : pc[r] # "new" => caller[r] \in Callers
    /\ count \in [Buckets -> Nat]

\* A bucket counts exactly the jobs created from its address in its hour:
\* refused and failed requests leave no trace, none is counted twice.
BucketCountsAccepted ==
    Limit > 0 => \A b \in Buckets : count[b] = Cardinality(AcceptedIn(b))

\* No address gets more than Limit jobs in an hour, however its requests
\* overlap and end.
HourlyLimit ==
    Limit > 0 => \A b \in Buckets : Cardinality(AcceptedIn(b)) <= Limit

\* The jobs one wallet has created in one bucket.
JobsOf(w, b) == {r \in AcceptedIn(b) : caller[r].wallet = w}

\* The jobs one wallet creates in one bucket are together within the quota of the
\* tier that one of their requests was given (the panel may report another tier
\* each time): ten tabs of one browser submitting at once do not get past it.
QuotaWithinBucket ==
    Limit > 0 =>
       \A b \in Buckets, w \in Wallets :
          JobsOf(w, b) # {} =>
             \E r \in JobsOf(w, b) :
                Cardinality(JobsOf(w, b)) <= Quota[caller[r].tier]

\* The requests that hold their bucket row exclude each other, fit under the
\* limit, and, past the quota check, are still within their quota.
HoldersFit ==
    Limit > 0 =>
       \A r \in Requests :
          pc[r] \in {"counted", "inserting"} =>
             /\ ~BucketLocked(r)
             /\ count[Bucket(r)] < Limit
             /\ pc[r] = "inserting" /\ caller[r].wallet # NoWallet =>
                   Cardinality(JobsOf(caller[r].wallet, Bucket(r)))
                      < Quota[caller[r].tier]

\* Transactions are young, and no bucket is over the limit.
BeganLately ==
    \A r \in Requests :
       pc[r] # "new" => /\ caller[r].hour <= now
                        /\ pc[r] \in InFlight => caller[r].hour >= now - 1
BucketsWithinLimit == Limit > 0 => \A b \in Buckets : count[b] <= Limit

\* The inductive invariant.
SubmissionInv ==
    /\ TypeOK
    /\ BeganLately
    /\ BucketsWithinLimit
    /\ HoldersFit
    /\ BucketCountsAccepted
    /\ QuotaWithinBucket

\* Every request that began is answered: the wait for the bucket row ends.
EveryRequestIsAnswered ==
    \A r \in Requests :
       (pc[r] \in InFlight) ~> (pc[r] \in {"accepted", "refused"})

\* What docs/security.md:57 says: the bucket serialises the submissions of an
\* address, so that one address cannot race past a wallet's daily quota.  At
\* the turn of the hour two requests of one address are charged to different
\* rows and do not wait for each other.
QuotaFromOneAddress ==
    \A i \in IPs, w \in Wallets :
       LET jobs == {r \in Accepted : /\ caller[r].ip = i
                                     /\ caller[r].wallet = w
                                     /\ caller[r].hour >= now - Day}
       IN  jobs # {} =>
              \E r \in jobs : Cardinality(jobs) <= Quota[caller[r].tier]
=============================================================================
