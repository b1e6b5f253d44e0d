-------------------------- MODULE SubmissionProofs --------------------------
(***************************************************************************)
(* Proofs about Submission, for any number of requests, addresses, wallets *)
(* and tiers, and any limits.                                              *)
(***************************************************************************)
EXTENDS Submission, FiniteSetTheorems, TLAPS

-----------------------------------------------------------------------------
(* Lemmas on the sets of accepted requests.                                *)

\* They are finite, and a wallet's jobs in a bucket are among the bucket's.
LEMMA AcceptedFinite ==
    ASSUME NEW b, NEW w
    PROVE  /\ IsFiniteSet(AcceptedIn(b)) /\ Cardinality(AcceptedIn(b)) \in Nat
           /\ IsFiniteSet(JobsOf(w, b))  /\ Cardinality(JobsOf(w, b)) \in Nat
<1>1. AcceptedIn(b) \in SUBSET Requests /\ JobsOf(w, b) \in SUBSET Requests
  BY DEF AcceptedIn, JobsOf, Accepted
<1>2. IsFiniteSet(AcceptedIn(b)) /\ IsFiniteSet(JobsOf(w, b))
  BY <1>1, FiniteAssumption, FS_Subset
<1>3. QED
  BY <1>2, FS_CardinalityType

\* A step that accepts nobody and keeps the callers of the accepted requests
\* leaves these sets as they are.
LEMMA NothingAccepted ==
    ASSUME \A r \in Requests : pc'[r] = "accepted" <=> pc[r] = "accepted",
           \A r \in Requests : pc[r] = "accepted" => caller'[r] = caller[r],
           NEW b, NEW w
    PROVE  AcceptedIn(b)' = AcceptedIn(b) /\ JobsOf(w, b)' = JobsOf(w, b)
<1>1. AcceptedIn(b)' = AcceptedIn(b)
  BY DEF AcceptedIn, Accepted, Bucket
<1>2. QED
  BY <1>1 DEF JobsOf, AcceptedIn, Accepted, Bucket

\* Accepting r adds it to its bucket and to its wallet's jobs in that bucket.
LEMMA OneAccepted ==
    ASSUME TypeOK, NEW r \in Requests, pc[r] # "accepted",
           pc' = [pc EXCEPT ![r] = "accepted"], caller' = caller,
           NEW b, NEW w
    PROVE  /\ AcceptedIn(b)' = IF b = Bucket(r) THEN AcceptedIn(b) \cup {r}
                               ELSE AcceptedIn(b)
           /\ JobsOf(w, b)' = IF b = Bucket(r) /\ w = caller[r].wallet
                              THEN JobsOf(w, b) \cup {r} ELSE JobsOf(w, b)
           /\ r \notin AcceptedIn(b) /\ r \notin JobsOf(w, b)
<1>1. /\ AcceptedIn(b)' = IF b = Bucket(r) THEN AcceptedIn(b) \cup {r}
                          ELSE AcceptedIn(b)
      /\ r \notin AcceptedIn(b)
  BY DEF TypeOK, AcceptedIn, Accepted, Bucket
<1>2. QED
  BY <1>1 DEF TypeOK, JobsOf, AcceptedIn, Accepted, Bucket

-----------------------------------------------------------------------------
\* The initial state satisfies the inductive invariant.
LEMMA InitInv == Init => SubmissionInv
<1> SUFFICES ASSUME Init PROVE SubmissionInv
  OBVIOUS
<1> USE NumberAssumption DEF Init
<1>1. TypeOK
  BY DEF TypeOK, Hours, InFlight
<1>2. \A b, w : AcceptedIn(b) = {} /\ JobsOf(w, b) = {}
  BY DEF AcceptedIn, JobsOf, Accepted
<1>3. BeganLately /\ BucketsWithinLimit /\ HoldersFit
  BY DEF BeganLately, BucketsWithinLimit, HoldersFit, InFlight
<1>4. BucketCountsAccepted /\ QuotaWithinBucket
  BY <1>2, FS_EmptySet DEF BucketCountsAccepted, QuotaWithinBucket
<1>5. QED
  BY <1>1, <1>3, <1>4 DEF SubmissionInv

\* A step that accepts nobody keeps the properties of the accepted requests.
LEMMA AcceptedKept ==
    ASSUME SubmissionInv, count' = count,
           \A r \in Requests : pc'[r] = "accepted" <=> pc[r] = "accepted",
           \A r \in Requests : pc[r] = "accepted" => caller'[r] = caller[r]
    PROVE  BucketsWithinLimit' /\ BucketCountsAccepted' /\ QuotaWithinBucket'
<1> USE DEF SubmissionInv
<1>1. \A b, w : AcceptedIn(b)' = AcceptedIn(b) /\ JobsOf(w, b)' = JobsOf(w, b)
  BY NothingAccepted
<1>2. BucketsWithinLimit' /\ BucketCountsAccepted'
  BY <1>1 DEF BucketsWithinLimit, BucketCountsAccepted
<1>3. QuotaWithinBucket'
  <2>1. \A b, w : \A r \in JobsOf(w, b) : caller'[r] = caller[r]
    BY DEF JobsOf, AcceptedIn, Accepted
  <2>2. QED
    BY <1>1, <2>1 DEF QuotaWithinBucket
<1>4. QED
  BY <1>2, <1>3

LEMMA BeginInv ==
    ASSUME SubmissionInv, NEW r \in Requests, NEW i \in IPs,
           NEW w \in Wallets \cup {NoWallet}, NEW t \in Tiers, Begin(r, i, w, t)
    PROVE  SubmissionInv'
<1> USE NumberAssumption DEF SubmissionInv, Begin
<1> DEFINE new == [ip |-> i, wallet |-> w, tier |-> t, hour |-> now]
<1>1. new \in Callers
  BY DEF TypeOK, Callers
<1>2. TypeOK'
  BY <1>1 DEF TypeOK, InFlight
<1>3. BeganLately'
  BY <1>1 DEF BeganLately, TypeOK, InFlight, Hours
<1>4. BucketsWithinLimit' /\ BucketCountsAccepted' /\ QuotaWithinBucket'
  BY AcceptedKept DEF TypeOK
<1>5. HoldersFit'
  <2>1. \A q \in Requests \ {r} : pc'[q] = pc[q] /\ caller'[q] = caller[q]
    BY DEF TypeOK
  <2>2. \A q \in Requests \ {r} : BucketLocked(q)' => BucketLocked(q)
    BY <2>1 DEF BucketLocked, Bucket, TypeOK
  <2>3. \A b, v : JobsOf(v, b)' = JobsOf(v, b)
    BY NothingAccepted DEF TypeOK
  <2>4. pc'[r] = "waiting"
    BY DEF TypeOK
  <2>5. QED
    BY <2>1, <2>2, <2>3, <2>4 DEF HoldersFit, Bucket
<1>6. QED
  BY <1>2, <1>3, <1>4, <1>5

LEMMA BumpInv ==
    ASSUME SubmissionInv, NEW r \in Requests, Bump(r)
    PROVE  SubmissionInv'
<1> USE NumberAssumption DEF SubmissionInv, Bump
<1>1. TypeOK'
  BY DEF TypeOK, InFlight
<1>2. BeganLately'
  BY DEF BeganLately, TypeOK, InFlight
<1>3. BucketsWithinLimit' /\ BucketCountsAccepted' /\ QuotaWithinBucket'
  BY AcceptedKept DEF TypeOK
<1>4. HoldersFit'
  <2>2. \A b, v : JobsOf(v, b)' = JobsOf(v, b)
    BY NothingAccepted DEF TypeOK
  <2> SUFFICES ASSUME Limit > 0, NEW q \in Requests,
                      pc'[q] \in {"counted", "inserting"}
               PROVE  /\ ~BucketLocked(q)'
                      /\ count[Bucket(q)] < Limit
                      /\ pc'[q] = "inserting" /\ caller[q].wallet # NoWallet =>
                            Cardinality(JobsOf(caller[q].wallet, Bucket(q)))
                               < Quota[caller[q].tier]
    BY <2>2 DEF HoldersFit, Bucket
  <2>1. \A p \in Requests \ {r} : pc'[p] = pc[p]
    BY DEF TypeOK
  <2>3. Bucket(r) \in Buckets /\ count[Bucket(r)] \in Nat
    BY DEF TypeOK, Bucket, Buckets, Callers
  <2>4. CASE q = r
    <3>1. ~BucketLocked(r)' /\ pc'[r] = "counted"
      BY <2>1, <2>4 DEF BucketLocked, Bucket, TypeOK
    <3>2. count[Bucket(r)] < Limit
      BY <2>3, <2>4 DEF TypeOK
    <3>3. QED
      BY <2>4, <3>1, <3>2
  <2>5. CASE q # r
    <3>1. pc'[q] = pc[q]
      BY <2>1, <2>5
    <3>2. ~BucketLocked(q) /\ count[Bucket(q)] < Limit
      BY <3>1 DEF HoldersFit
    <3>3. Bucket(q) # Bucket(r)
      BY <2>5, <3>1 DEF BucketLocked
    <3>4. ~BucketLocked(q)'
      BY <2>1, <3>2, <3>3 DEF BucketLocked, Bucket
    <3>5. QED
      BY <3>1, <3>2, <3>4 DEF HoldersFit
  <2>6. QED
    BY <2>4, <2>5
<1>5. QED
  BY <1>1, <1>2, <1>3, <1>4

LEMMA CheckQuotaInv ==
    ASSUME SubmissionInv, NEW r \in Requests, CheckQuota(r)
    PROVE  SubmissionInv'
<1> USE NumberAssumption DEF SubmissionInv, CheckQuota
<1>1. TypeOK'
  BY DEF TypeOK, InFlight
<1>2. BeganLately'
  BY DEF BeganLately, TypeOK, InFlight
<1>3. BucketsWithinLimit' /\ BucketCountsAccepted' /\ QuotaWithinBucket'
  BY AcceptedKept DEF TypeOK
<1>4. HoldersFit'
  <2>2. \A b, v : JobsOf(v, b)' = JobsOf(v, b)
    BY NothingAccepted DEF TypeOK
  <2> SUFFICES ASSUME Limit > 0, NEW q \in Requests,
                      pc'[q] \in {"counted", "inserting"}
               PROVE  /\ ~BucketLocked(q)'
                      /\ count[Bucket(q)] < Limit
                      /\ pc'[q] = "inserting" /\ caller[q].wallet # NoWallet =>
                            Cardinality(JobsOf(caller[q].wallet, Bucket(q)))
                               < Quota[caller[q].tier]
    BY <2>2 DEF HoldersFit, Bucket
  <2>1. \A p \in Requests \ {r} : pc'[p] = pc[p]
    BY DEF TypeOK
  <2>3. pc[q] \in {"counted", "inserting"}
    BY <2>1
  <2>4. ~BucketLocked(q)'
    <3>1. ~BucketLocked(q)
      BY <2>3 DEF HoldersFit
    <3>2. QED
      BY <3>1 DEF BucketLocked, Bucket, TypeOK
  <2>5. CASE q # r
    BY <2>1, <2>3, <2>4, <2>5 DEF HoldersFit
  <2>6. CASE q = r /\ caller[r].wallet # NoWallet
    <3> DEFINE w == caller[r].wallet
               mine == {p \in Accepted : /\ caller[p].wallet = w
                                         /\ caller[p].hour >= now - Day}
    <3>1. caller[r] \in Callers /\ caller[r].hour >= now - 1 /\ now \in Nat
      BY DEF TypeOK, BeganLately, InFlight, Hours
    <3>2. JobsOf(w, Bucket(r)) \in SUBSET mine
      BY <3>1 DEF JobsOf, AcceptedIn, Accepted, Bucket, Callers, Hours
    <3>3. IsFiniteSet(mine)
      <4>1. mine \in SUBSET Requests
        BY DEF Accepted
      <4>2. QED
        BY <4>1, FiniteAssumption, FS_Subset
    <3>4. Cardinality(JobsOf(w, Bucket(r))) <= Cardinality(mine)
      BY <3>2, <3>3, FS_Subset
    <3>5. /\ Cardinality(mine) \in Nat
          /\ Cardinality(JobsOf(w, Bucket(r))) \in Nat
          /\ Quota[caller[r].tier] \in Nat
      BY <3>1, <3>3, FS_CardinalityType, AcceptedFinite DEF Callers
    <3>6. ~(Cardinality(mine) >= Quota[caller[r].tier])
      BY <2>6 DEF Used, TypeOK
    <3>7. Cardinality(JobsOf(w, Bucket(r))) < Quota[caller[r].tier]
      BY <3>4, <3>5, <3>6
    <3>8. QED
      BY <2>3, <2>4, <2>6, <3>7 DEF HoldersFit
  <2>7. CASE q = r /\ caller[r].wallet = NoWallet
    BY <2>3, <2>4, <2>7 DEF HoldersFit
  <2>8. QED
    BY <2>5, <2>6, <2>7
<1>5. QED
  BY <1>1, <1>2, <1>3, <1>4

LEMMA FailInv ==
    ASSUME SubmissionInv, NEW r \in Requests, Fail(r)
    PROVE  SubmissionInv'
<1> USE NumberAssumption DEF SubmissionInv, Fail, InFlight
<1>1. TypeOK'
  BY DEF TypeOK
<1>2. BeganLately'
  BY DEF BeganLately, TypeOK
<1>3. BucketsWithinLimit' /\ BucketCountsAccepted' /\ QuotaWithinBucket'
  BY AcceptedKept DEF TypeOK
<1>4. HoldersFit'
  <2>1. \A q \in Requests : pc'[q] = IF q = r THEN "refused" ELSE pc[q]
    BY DEF TypeOK
  <2>2. \A q \in Requests : BucketLocked(q)' => BucketLocked(q)
    BY <2>1 DEF BucketLocked, Bucket
  <2>3. \A b, v : JobsOf(v, b)' = JobsOf(v, b)
    BY NothingAccepted DEF TypeOK
  <2>4. QED
    BY <2>1, <2>2, <2>3 DEF HoldersFit, Bucket
<1>5. QED
  BY <1>1, <1>2, <1>3, <1>4

\* The commit: r held its row alone, so that both counts go up by one at most.
LEMMA CommitInv ==
    ASSUME SubmissionInv, NEW r \in Requests, Commit(r)
    PROVE  SubmissionInv'
<1> USE NumberAssumption DEF SubmissionInv, Commit
<1>1. /\ Bucket(r) \in Buckets /\ caller[r] \in Callers
      /\ \A b \in Buckets : count[b] \in Nat
  BY DEF TypeOK, Bucket, Buckets, Callers
<1>2. TypeOK'
  BY <1>1 DEF TypeOK, InFlight
<1>3. BeganLately'
  BY DEF BeganLately, TypeOK, InFlight
<1>4. ASSUME Limit > 0
      PROVE  BucketsWithinLimit' /\ BucketCountsAccepted' /\ QuotaWithinBucket'
             /\ HoldersFit'
  <2>1. /\ ~BucketLocked(r)
        /\ count[Bucket(r)] < Limit
        /\ caller[r].wallet # NoWallet =>
              Cardinality(JobsOf(caller[r].wallet, Bucket(r)))
                 < Quota[caller[r].tier]
    BY <1>4 DEF HoldersFit
  <2>2. /\ \A b \in Buckets : count'[b] = IF b = Bucket(r) THEN count[b] + 1
                                          ELSE count[b]
        /\ \A q \in Requests : pc'[q] = IF q = r THEN "accepted" ELSE pc[q]
    BY <1>1, <1>4 DEF TypeOK
  <2>3. \A b, w :
           /\ AcceptedIn(b)' = IF b = Bucket(r) THEN AcceptedIn(b) \cup {r}
                               ELSE AcceptedIn(b)
           /\ JobsOf(w, b)' = IF b = Bucket(r) /\ w = caller[r].wallet
                              THEN JobsOf(w, b) \cup {r} ELSE JobsOf(w, b)
           /\ r \notin AcceptedIn(b) /\ r \notin JobsOf(w, b)
    BY OneAccepted
  <2>4. BucketsWithinLimit'
    BY <1>1, <1>4, <2>1, <2>2 DEF BucketsWithinLimit
  <2>5. BucketCountsAccepted'
    <3> SUFFICES ASSUME NEW b \in Buckets
                 PROVE  count'[b] = Cardinality(AcceptedIn(b)')
      BY DEF BucketCountsAccepted
    <3>1. IsFiniteSet(AcceptedIn(b)) /\ Cardinality(AcceptedIn(b)) \in Nat
      BY AcceptedFinite
    <3>2. Cardinality(AcceptedIn(b) \cup {r}) = Cardinality(AcceptedIn(b)) + 1
      BY <2>3, <3>1, FS_AddElement
    <3>3. count[b] = Cardinality(AcceptedIn(b))
      BY <1>4 DEF BucketCountsAccepted
    <3>4. QED
      BY <2>2, <2>3, <3>2, <3>3
  <2>6. QuotaWithinBucket'
    <3> SUFFICES ASSUME NEW b \in Buckets, NEW w \in Wallets, JobsOf(w, b)' # {}
                 PROVE  \E q \in JobsOf(w, b)' :
                           Cardinality(JobsOf(w, b)') <= Quota[caller[q].tier]
      BY DEF QuotaWithinBucket
    <3>1. CASE b = Bucket(r) /\ w = caller[r].wallet
      <4>1. JobsOf(w, b)' = JobsOf(w, b) \cup {r} /\ r \notin JobsOf(w, b)
        BY <2>3, <3>1
      <4>2. Cardinality(JobsOf(w, b)') = Cardinality(JobsOf(w, b)) + 1
        BY <4>1, AcceptedFinite, FS_AddElement
      <4>3. /\ Cardinality(JobsOf(w, b)) < Quota[caller[r].tier]
            /\ Quota[caller[r].tier] \in Nat
            /\ Cardinality(JobsOf(w, b)) \in Nat
        BY <1>1, <2>1, <3>1, AcceptedFinite, NullAssumption DEF Callers
      <4>4. Cardinality(JobsOf(w, b)') <= Quota[caller[r].tier]
        BY <4>2, <4>3
      <4>5. QED
        BY <4>1, <4>4
    <3>2. CASE ~(b = Bucket(r) /\ w = caller[r].wallet)
      <4>1. JobsOf(w, b)' = JobsOf(w, b)
        BY <2>3, <3>2
      <4>2. QED
        BY <1>4, <4>1 DEF QuotaWithinBucket
    <3>3. QED
      BY <3>1, <3>2
  <2>7. HoldersFit'
    <3> SUFFICES ASSUME NEW q \in Requests, pc'[q] \in {"counted", "inserting"}
                 PROVE  /\ ~BucketLocked(q)'
                        /\ count'[Bucket(q)] < Limit
                        /\ pc'[q] = "inserting" /\ caller[q].wallet # NoWallet =>
                              Cardinality(JobsOf(caller[q].wallet, Bucket(q))')
                                 < Quota[caller[q].tier]
      BY DEF HoldersFit, Bucket
    <3>1. q # r /\ pc'[q] = pc[q]
      BY <2>2
    <3>2. /\ ~BucketLocked(q)
          /\ count[Bucket(q)] < Limit
          /\ pc[q] = "inserting" /\ caller[q].wallet # NoWallet =>
                Cardinality(JobsOf(caller[q].wallet, Bucket(q)))
                   < Quota[caller[q].tier]
      BY <1>4, <3>1 DEF HoldersFit
    <3>3. Bucket(q) # Bucket(r)
      BY <3>1, <3>2 DEF BucketLocked
    <3>4. ~BucketLocked(q)'
      BY <2>2, <3>2 DEF BucketLocked, Bucket
    <3>5. JobsOf(caller[q].wallet, Bucket(q))'
             = JobsOf(caller[q].wallet, Bucket(q))
      BY <3>3 DEF JobsOf, AcceptedIn, Accepted, Bucket, TypeOK
    <3>6. Bucket(q) \in Buckets
      BY <3>1 DEF TypeOK, Bucket, Buckets, Callers
    <3>7. QED
      BY <2>2, <3>1, <3>2, <3>3, <3>4, <3>5, <3>6
  <2>8. QED
    BY <2>4, <2>5, <2>6, <2>7
<1>5. CASE ~(Limit > 0)
  BY <1>2, <1>3, <1>5 DEF BucketsWithinLimit, BucketCountsAccepted,
                          QuotaWithinBucket, HoldersFit
<1>6. QED
  BY <1>2, <1>3, <1>4, <1>5

LEMMA TickInv == SubmissionInv /\ Tick => SubmissionInv'
<1> SUFFICES ASSUME SubmissionInv, Tick PROVE SubmissionInv'
  OBVIOUS
<1> USE NumberAssumption DEF SubmissionInv, Tick
<1>1. TypeOK'
  BY DEF TypeOK, Hours
<1>2. BeganLately'
  BY DEF BeganLately, TypeOK, InFlight, Hours, Callers
<1>3. BucketsWithinLimit' /\ BucketCountsAccepted' /\ QuotaWithinBucket'
  BY AcceptedKept
<1>4. HoldersFit'
  BY DEF HoldersFit, BucketLocked, Bucket, JobsOf, AcceptedIn, Accepted
<1>5. QED
  BY <1>1, <1>2, <1>3, <1>4

LEMMA NextInv == SubmissionInv /\ [Next]_vars => SubmissionInv'
<1> SUFFICES ASSUME SubmissionInv, [Next]_vars PROVE SubmissionInv'
  OBVIOUS
<1>1. ASSUME NEW r \in Requests, NEW i \in IPs, NEW w \in Wallets \cup {NoWallet},
             NEW t \in Tiers, Begin(r, i, w, t)
      PROVE  SubmissionInv'
  BY <1>1, BeginInv
<1>2. ASSUME NEW r \in Requests, Serve(r) PROVE SubmissionInv'
  <2>1. CASE Bump(r)
    BY <2>1, BumpInv
  <2>2. CASE CheckQuota(r)
    BY <2>2, CheckQuotaInv
  <2>3. CASE Commit(r)
    BY <2>3, CommitInv
  <2>4. CASE Fail(r)
    BY <2>4, FailInv
  <2>5. QED
    BY <1>2, <2>1, <2>2, <2>3, <2>4 DEF Serve
<1>3. CASE Tick
  BY <1>3, TickInv
<1>4. CASE UNCHANGED vars
  <2> USE <1>4 DEF vars, SubmissionInv
  <2>1. TypeOK' /\ BeganLately'
    BY DEF TypeOK, BeganLately
  <2>2. BucketsWithinLimit' /\ BucketCountsAccepted' /\ QuotaWithinBucket'
    BY AcceptedKept
  <2>3. HoldersFit'
    BY DEF HoldersFit, BucketLocked, Bucket, JobsOf, AcceptedIn, Accepted
  <2>4. QED
    BY <2>1, <2>2, <2>3
<1>5. QED
  BY <1>1, <1>2, <1>3, <1>4 DEF Next

-----------------------------------------------------------------------------
(* The theorems.                                                           *)

\* The inductive invariant holds of every reachable state.
THEOREM SubmissionInvariance == Spec => []SubmissionInv
<1>1. QED
  BY InitInv, NextInv, PTL DEF Spec

\* Every variable keeps its type.
THEOREM TypeCorrectness == Spec => []TypeOK
<1>1. SubmissionInv => TypeOK
  BY DEF SubmissionInv
<1>2. QED
  BY <1>1, SubmissionInvariance, PTL

\* The bucket of an address and an hour counts the jobs it was charged for,
\* whatever requests overlap on its row and roll back.
THEOREM BucketCountsAcceptedHolds == Spec => []BucketCountsAccepted
<1>1. SubmissionInv => BucketCountsAccepted
  BY DEF SubmissionInv
<1>2. QED
  BY <1>1, SubmissionInvariance, PTL

\* No address gets more than Limit jobs in an hour.
THEOREM HourlyLimitHolds == Spec => []HourlyLimit
<1>1. SubmissionInv => HourlyLimit
  BY DEF SubmissionInv, HourlyLimit, BucketsWithinLimit, BucketCountsAccepted
<1>2. QED
  BY <1>1, SubmissionInvariance, PTL

\* Within one bucket a wallet stays within its daily quota, however many of
\* its requests overlap.
THEOREM QuotaWithinBucketHolds == Spec => []QuotaWithinBucket
<1>1. SubmissionInv => QuotaWithinBucket
  BY DEF SubmissionInv
<1>2. QED
  BY <1>1, SubmissionInvariance, PTL
=============================================================================
