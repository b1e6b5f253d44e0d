------------------------- MODULE JobLifecycleProofs -------------------------
(***************************************************************************)
(* Proofs about JobLifecycle, for any number of jobs, daemons, concurrent  *)
(* requests and media, and any timeout.                                    *)
(***************************************************************************)
EXTENDS JobLifecycle, TLAPS

Assumptions == /\ Jobs \subseteq Nat /\ NoJob \notin Jobs
               /\ NoWorker \notin Workers
               /\ NoMedia \notin Media
               /\ NoAge \notin Nat
               /\ Timeout \in Nat

LEMMA AssumptionsHold == Assumptions
BY JobsAssumption, NullAssumption, TimeoutAssumption DEF Assumptions

-----------------------------------------------------------------------------
(* Lemmas on locks and ages.                                               *)

\* A row is locked exactly when some claim transaction has written it.
LEMMA LockedRows ==
    \A j : j \in Locked <=>
              \E c \in Claims : j \in claim[c].back
                                \/ (j = claim[c].job /\ j # NoJob)
BY DEF Locked, LockedBy

\* A claim's age stays in range, and once past the timeout it stays past it.
LEMMA OlderIsAge ==
    ASSUME Timeout \in Nat, NEW a \in Ages
    PROVE  Older(a) \in Ages /\ Older(a) >= a
           /\ (a > Timeout => Older(a) > Timeout)
BY DEF Older, Ages

-----------------------------------------------------------------------------
\* The initial state satisfies the inductive invariant.
LEMMA InitInv == Init => LifecycleInv
<1> SUFFICES ASSUME Init PROVE LifecycleInv
  OBVIOUS
<1> USE AssumptionsHold DEF Assumptions, Init, IdleClaim, IdlePost
<1>1. TypeOK
  BY DEF TypeOK, ClaimTxns, PostRequests, Ages
<1>2. ClaimSlots /\ OnlySubmittedJobs
  BY DEF ClaimSlots, OnlySubmittedJobs
<1>3. NoRowClaimedTwice /\ OpenClaimStaysValid
  BY DEF NoRowClaimedTwice, OpenClaimStaysValid, LockedBy
<1>4. ClaimColumnsAgree /\ FinishedRowsAreComplete
  BY DEF ClaimColumnsAgree, FinishedRowsAreComplete, Live, Finished
<1>5. QED
  BY <1>1, <1>2, <1>3, <1>4 DEF LifecycleInv

LEMMA SubmitInv ==
    ASSUME LifecycleInv, NEW j \in Jobs, Submit(j)
    PROVE  LifecycleInv'
<1> USE AssumptionsHold DEF Assumptions, LifecycleInv, Submit
<1>1. TypeOK'
  BY DEF TypeOK, JobStatus
<1>2. ClaimSlots' /\ OnlySubmittedJobs'
  BY DEF ClaimSlots, OnlySubmittedJobs, TypeOK
<1>3. NoRowClaimedTwice'
  BY DEF NoRowClaimedTwice, LockedBy
<1>4. OpenClaimStaysValid'
  BY DEF OpenClaimStaysValid, Stuck, Live, TypeOK, ClaimTxns
<1>5. ClaimColumnsAgree'
  BY DEF ClaimColumnsAgree, TypeOK, Live
<1>6. FinishedRowsAreComplete'
  BY DEF FinishedRowsAreComplete, Finished, TypeOK
<1>7. QED
  BY <1>1, <1>2, <1>3, <1>4, <1>5, <1>6

-----------------------------------------------------------------------------
(* GET /worker/claim keeps the invariant.                                  *)

\* The first UPDATE locks the stuck rows, none of which is locked already.
LEMMA ClaimReclaimInv ==
    ASSUME LifecycleInv, NEW c \in Claims, NEW w \in Workers, ClaimReclaim(c, w)
    PROVE  LifecycleInv'
<1> USE AssumptionsHold DEF Assumptions, LifecycleInv, ClaimReclaim
<1>1. TypeOK'
  BY DEF TypeOK, ClaimTxns, Ages, Stuck, columns
<1>2. ClaimSlots'
  BY <1>1 DEF ClaimSlots, TypeOK
<1>3. OnlySubmittedJobs' /\ ClaimColumnsAgree' /\ FinishedRowsAreComplete'
  BY DEF OnlySubmittedJobs, ClaimColumnsAgree, FinishedRowsAreComplete, columns
<1>4. Stuck' = Stuck
  BY DEF Stuck, columns
<1>5. NoRowClaimedTwice'
  <2>1. LockedBy(c)' = Stuck
    BY DEF LockedBy, TypeOK
  <2>2. \A b \in Claims : b # c => LockedBy(b)' = LockedBy(b)
    BY DEF LockedBy, TypeOK
  <2>3. \A b \in Claims : LockedBy(b) \cap Stuck = {}
    BY DEF Locked
  <2>4. QED
    BY <2>1, <2>2, <2>3 DEF NoRowClaimedTwice
<1>6. OpenClaimStaysValid'
  BY <1>4 DEF OpenClaimStaysValid, TypeOK, columns
<1>7. QED
  BY <1>1, <1>2, <1>3, <1>5, <1>6

\* The second UPDATE takes a row nobody else has locked.
LEMMA ClaimTakeInv ==
    ASSUME LifecycleInv, NEW c \in Claims, ClaimTake(c)
    PROVE  LifecycleInv'
<1> USE AssumptionsHold DEF Assumptions, LifecycleInv
<1>1. PICK j \in Ready(c) :
         claim' = [claim EXCEPT ![c].pc = "taken", ![c].job = j, ![c].age = 0]
  BY DEF ClaimTake
<1>2. UNCHANGED <<columns, post, del, tasks>> /\ claim[c].pc = "reclaimed"
  BY DEF ClaimTake
<1>3. claim[c] \in ClaimTxns /\ j \in Jobs
  BY <1>1 DEF TypeOK, ClaimTxns, Ready
<1>4. claim'[c] = [pc |-> "taken", worker |-> claim[c].worker,
                   back |-> claim[c].back, job |-> j, age |-> 0]
  BY <1>1, <1>3 DEF TypeOK, ClaimTxns
<1>5. \A b \in Claims : b # c => claim'[b] = claim[b]
  BY <1>1 DEF TypeOK
<1>6. TypeOK'
  <2>1. claim' \in [Claims -> ClaimTxns]
    BY <1>1, <1>3, <1>4, <1>5 DEF TypeOK, ClaimTxns, Ages
  <2>2. QED
    BY <1>2, <2>1 DEF TypeOK, columns
<1>7. ClaimSlots'
  BY <1>2, <1>3, <1>4, <1>5 DEF ClaimSlots
<1>8. OnlySubmittedJobs' /\ ClaimColumnsAgree' /\ FinishedRowsAreComplete'
  BY <1>2 DEF OnlySubmittedJobs, ClaimColumnsAgree, FinishedRowsAreComplete,
              columns
<1>9. NoRowClaimedTwice'
  <2>1. LockedBy(c)' = LockedBy(c) \cup {j}
    BY <1>2, <1>3, <1>4 DEF LockedBy, ClaimSlots
  <2>2. \A b \in Claims : b # c => LockedBy(b)' = LockedBy(b)
    BY <1>5 DEF LockedBy
  <2>3. \A b \in Claims : b # c => j \notin LockedBy(b)
    <3>1. CASE j \in claim[c].back
      BY <3>1 DEF NoRowClaimedTwice, LockedBy
    <3>2. CASE j \in Jobs \ Locked
      BY <3>2 DEF Locked
    <3>3. QED
      BY <1>1, <3>1, <3>2 DEF Ready
  <2>4. QED
    BY <2>1, <2>2, <2>3 DEF NoRowClaimedTwice
<1>10. OpenClaimStaysValid'
  <2>1. Stuck' = Stuck /\ status' = status
    BY <1>2 DEF Stuck, columns
  <2>2. j \in claim[c].back \/ status[j] = "queued"
    BY <1>1 DEF Ready
  <2>3. QED
    BY <1>4, <1>5, <2>1, <2>2 DEF OpenClaimStaysValid
<1>11. QED
  BY <1>6, <1>7, <1>8, <1>9, <1>10

\* A rollback leaves nothing behind.
LEMMA ClaimAbortInv ==
    ASSUME LifecycleInv, NEW c \in Claims, ClaimAbort(c)
    PROVE  LifecycleInv'
<1> USE AssumptionsHold DEF Assumptions, LifecycleInv, ClaimAbort, IdleClaim
<1>1. TypeOK'
  BY DEF TypeOK, ClaimTxns, Ages, columns
<1>2. ClaimSlots'
  BY DEF ClaimSlots, TypeOK
<1>3. OnlySubmittedJobs' /\ ClaimColumnsAgree' /\ FinishedRowsAreComplete'
  BY DEF OnlySubmittedJobs, ClaimColumnsAgree, FinishedRowsAreComplete, columns
<1>4. NoRowClaimedTwice'
  <2>1. LockedBy(c)' = {}
    BY DEF LockedBy, TypeOK
  <2>2. \A b \in Claims : b # c => LockedBy(b)' = LockedBy(b)
    BY DEF LockedBy, TypeOK
  <2>3. QED
    BY <2>1, <2>2 DEF NoRowClaimedTwice
<1>5. OpenClaimStaysValid'
  BY DEF OpenClaimStaysValid, Stuck, TypeOK, columns
<1>6. QED
  BY <1>1, <1>2, <1>3, <1>4, <1>5

\* A row written by an open claim is submitted and not finished.
LEMMA WrittenRowsAreOpen ==
    ASSUME LifecycleInv, NEW c \in Claims, NEW j \in LockedBy(c)
    PROVE  j \in Jobs /\ status[j] \in {"queued", "claimed", "running"}
BY AssumptionsHold
   DEF Assumptions, LifecycleInv, TypeOK, ClaimTxns, LockedBy,
       OpenClaimStaysValid, Stuck, Live

\* Committing a claim: its rows become queued or claimed, the rows of the
\* other open claims are not among them.
LEMMA PublishInv ==
    ASSUME LifecycleInv, NEW c \in Claims, claim[c].pc # "idle", Publish(c),
           UNCHANGED <<post, del>>, tasks' \in SUBSET (tasks \cup LockedBy(c)),
           claim[c].job # NoJob => claim[c].pc = "taken"
    PROVE  LifecycleInv'
<1> USE AssumptionsHold DEF Assumptions, LifecycleInv
<1>1. claim[c] \in ClaimTxns /\ claim[c].worker \in Workers
  BY DEF TypeOK, ClaimSlots
<1>2. \A j \in Jobs :
         /\ status'[j] = IF j = claim[c].job THEN "claimed"
                         ELSE IF j \in claim[c].back THEN "queued" ELSE status[j]
         /\ workerId'[j] = IF j = claim[c].job THEN claim[c].worker
                         ELSE IF j \in claim[c].back THEN NoWorker
                         ELSE workerId[j]
         /\ claimAge'[j] = IF j = claim[c].job THEN claim[c].age
                         ELSE IF j \in claim[c].back THEN NoAge ELSE claimAge[j]
  BY DEF Publish, Written
<1>3. claim' = [claim EXCEPT ![c] = IdleClaim]
      /\ UNCHANGED <<outputMedia, extraMedia, errorText, completedAt, deletedAt>>
  BY DEF Publish
<1>4. \A j \in LockedBy(c) :
         j \in Jobs /\ status[j] \in {"queued", "claimed", "running"}
  BY WrittenRowsAreOpen
<1>5. \A j \in Jobs : j \in LockedBy(c) <=> (j = claim[c].job \/ j \in claim[c].back)
  BY DEF LockedBy
<1>6. TypeOK'
  <2>1. status' \in [Jobs -> JobStatus \cup {"absent"}]
    BY DEF Publish, Written, TypeOK, JobStatus
  <2>2. workerId' \in [Jobs -> Workers \cup {NoWorker}]
    BY <1>1 DEF Publish, Written, TypeOK
  <2>3. claimAge' \in [Jobs -> Ages \cup {NoAge}]
    BY <1>1 DEF Publish, Written, TypeOK, ClaimTxns
  <2>4. claim' \in [Claims -> ClaimTxns]
    BY <1>3 DEF TypeOK, ClaimTxns, IdleClaim, Ages
  <2>5. tasks' \in SUBSET Jobs
    BY <1>4 DEF TypeOK
  <2>6. QED
    BY <1>3, <2>1, <2>2, <2>3, <2>4, <2>5 DEF TypeOK
<1>7. ClaimSlots'
  BY <1>3 DEF ClaimSlots, TypeOK, IdleClaim
<1>8. OnlySubmittedJobs'
  <2>1. \A j \in Jobs : status[j] # "absent" => status'[j] # "absent"
    BY <1>2
  <2>2. QED
    BY <1>4, <2>1 DEF OnlySubmittedJobs, TypeOK
<1>9. ClaimColumnsAgree'
  BY <1>1, <1>2 DEF ClaimColumnsAgree, Live, ClaimTxns, Ages
<1>10. FinishedRowsAreComplete'
  BY <1>2, <1>3, <1>4, <1>5 DEF FinishedRowsAreComplete, Finished
<1>11. \A b \in Claims : b # c => claim'[b] = claim[b]
  BY <1>3 DEF TypeOK
<1>12. claim'[c] = IdleClaim
  BY <1>3 DEF TypeOK
<1>13. NoRowClaimedTwice'
  <2>1. LockedBy(c)' = {}
    BY <1>12 DEF LockedBy, IdleClaim
  <2>2. \A b \in Claims : b # c => LockedBy(b)' = LockedBy(b)
    BY <1>11 DEF LockedBy
  <2>3. QED
    BY <2>1, <2>2 DEF NoRowClaimedTwice
<1>14. OpenClaimStaysValid'
  <2> SUFFICES ASSUME NEW b \in Claims
               PROVE  /\ claim'[b].back \subseteq Stuck'
                      /\ claim'[b].job # NoJob =>
                            \/ claim'[b].job \in claim'[b].back
                            \/ status'[claim'[b].job] = "queued"
    BY DEF OpenClaimStaysValid
  <2>1. CASE b = c
    BY <2>1, <1>12 DEF IdleClaim
  <2>2. CASE b # c
    <3>1. \A j \in LockedBy(b) : j \in Jobs /\ j \notin LockedBy(c)
      BY <2>2, WrittenRowsAreOpen DEF NoRowClaimedTwice
    <3>2. \A j \in LockedBy(b) : status'[j] = status[j] /\ claimAge'[j] = claimAge[j]
      BY <3>1, <1>2, <1>5
    <3>3. QED
      BY <2>2, <3>1, <3>2, <1>11 DEF OpenClaimStaysValid, LockedBy, Stuck
  <2>3. QED
    BY <2>1, <2>2
<1>15. QED
  BY <1>6, <1>7, <1>8, <1>9, <1>10, <1>13, <1>14

LEMMA ClaimingInv ==
    ASSUME LifecycleInv, NEW c \in Claims, Claiming(c)
    PROVE  LifecycleInv'
<1>1. CASE \E w \in Workers : ClaimReclaim(c, w)
  BY <1>1, ClaimReclaimInv
<1>2. CASE ClaimTake(c)
  BY <1>2, ClaimTakeInv
<1>3. CASE ClaimNone(c)
  BY <1>3, PublishInv DEF ClaimNone, LifecycleInv, ClaimSlots
<1>4. CASE ClaimCommit(c)
  BY <1>4, PublishInv, AssumptionsHold
     DEF ClaimCommit, LockedBy, LifecycleInv, ClaimSlots, Assumptions
<1>5. CASE ClaimCommitAnswerLost(c)
  BY <1>5, PublishInv DEF ClaimCommitAnswerLost
<1>6. CASE ClaimAbort(c)
  BY <1>6, ClaimAbortInv
<1>7. QED
  BY <1>1, <1>2, <1>3, <1>4, <1>5, <1>6 DEF Claiming

-----------------------------------------------------------------------------
(* POST /worker/result and DELETE /jobs/{id} keep the invariant.           *)

LEMMA PostReadInv ==
    ASSUME LifecycleInv, NEW p \in Posts, NEW j \in Jobs,
           NEW what \in {"primary", "extra", "error"}, NEW extra \in BOOLEAN,
           PostRead(p, j, what, extra)
    PROVE  LifecycleInv'
<1> USE AssumptionsHold DEF Assumptions, LifecycleInv, PostRead
<1>1. TypeOK'
  BY DEF TypeOK, PostRequests, columns
<1>2. OnlySubmittedJobs'
  BY DEF OnlySubmittedJobs, Admits, Live, TypeOK, columns
<1>3. ClaimSlots' /\ ClaimColumnsAgree' /\ FinishedRowsAreComplete'
  BY DEF ClaimSlots, ClaimColumnsAgree, FinishedRowsAreComplete, columns
<1>4. NoRowClaimedTwice'
  BY DEF NoRowClaimedTwice, LockedBy
<1>5. OpenClaimStaysValid'
  BY DEF OpenClaimStaysValid, Stuck, columns
<1>6. QED
  BY <1>1, <1>2, <1>3, <1>4, <1>5

\* A step that leaves claims and locked rows alone disturbs no open claim.
LEMMA UnlockedWrite ==
    ASSUME LifecycleInv, NEW k, k \notin Locked, claim' = claim,
           \A j \in Jobs \ {k} : status'[j] = status[j],
           claimAge' = claimAge
    PROVE  ClaimSlots' /\ NoRowClaimedTwice' /\ OpenClaimStaysValid'
<1> USE DEF LifecycleInv
<1>1. ClaimSlots' /\ NoRowClaimedTwice'
  BY DEF ClaimSlots, NoRowClaimedTwice, LockedBy
<1>2. OpenClaimStaysValid'
  <2> SUFFICES ASSUME NEW c \in Claims
               PROVE  /\ claim[c].back \subseteq Stuck'
                      /\ claim[c].job # NoJob =>
                            \/ claim[c].job \in claim[c].back
                            \/ status'[claim[c].job] = "queued"
    BY DEF OpenClaimStaysValid
  <2>1. \A j \in LockedBy(c) : j \in Jobs \ {k}
    BY WrittenRowsAreOpen DEF Locked
  <2>2. QED
    BY <2>1 DEF OpenClaimStaysValid, LockedBy, Stuck
<1>3. QED
  BY <1>1, <1>2

LEMMA PostCommitInv ==
    ASSUME LifecycleInv, NEW p \in Posts, PostCommit(p)
    PROVE  LifecycleInv'
<1> USE AssumptionsHold DEF Assumptions, LifecycleInv
<1> DEFINE k == post[p].job
<1>1. k \in Jobs /\ status[k] # "absent" /\ k \notin Locked
  BY DEF PostCommit, CommitPrimary, CommitExtra, CommitError,
         OnlySubmittedJobs
<1>2. /\ claim' = claim /\ del' = del /\ tasks' = tasks
      /\ claimAge' = claimAge /\ workerId' = workerId /\ deletedAt' = deletedAt
      /\ post' = [post EXCEPT ![p] = IdlePost]
  BY DEF PostCommit, CommitPrimary, CommitExtra, CommitError, Close
<1>3. \A j \in Jobs : \/ status'[j] = status[j]
                      \/ j = k /\ status'[j] \in Finished
  BY DEF PostCommit, CommitPrimary, CommitExtra, CommitError, TypeOK, Finished
<1>4. ClaimSlots' /\ NoRowClaimedTwice' /\ OpenClaimStaysValid'
  BY <1>1, <1>2, UnlockedWrite
     DEF PostCommit, CommitPrimary, CommitExtra, CommitError, TypeOK
<1>5. post' \in [Posts -> PostRequests]
  BY <1>2 DEF TypeOK, PostRequests, IdlePost
<1>6. OnlySubmittedJobs'
  BY <1>2, <1>3 DEF OnlySubmittedJobs, Finished, IdlePost, TypeOK
<1>7. ClaimColumnsAgree'
  BY <1>1, <1>2, <1>3 DEF ClaimColumnsAgree, Finished, Live
<1>8. TypeOK' /\ FinishedRowsAreComplete'
  <2>1. CASE CommitPrimary(p)
    <3>1. PICK m \in Media : outputMedia' = [outputMedia EXCEPT ![k] = m]
      BY <2>1 DEF CommitPrimary
    <3>2. TypeOK'
      BY <1>2, <1>5, <2>1, <3>1 DEF CommitPrimary, TypeOK, JobStatus
    <3>3. FinishedRowsAreComplete'
      BY <1>1, <2>1, <3>1
         DEF CommitPrimary, FinishedRowsAreComplete, Finished, TypeOK
    <3>4. QED
      BY <3>2, <3>3
  <2>2. CASE CommitExtra(p)
    <3>1. PICK m \in Media :
             extraMedia' = [extraMedia EXCEPT ![k] = post[p].seen \cup {m}]
      BY <2>2 DEF CommitExtra
    <3>2. post[p].seen \in SUBSET Media
      BY DEF TypeOK, PostRequests
    <3>3. TypeOK'
      BY <1>2, <1>5, <2>2, <3>1, <3>2 DEF CommitExtra, TypeOK
    <3>4. FinishedRowsAreComplete'
      BY <2>2 DEF CommitExtra, FinishedRowsAreComplete
    <3>5. QED
      BY <3>3, <3>4
  <2>3. CASE CommitError(p)
    <3>1. TypeOK'
      BY <1>2, <1>5, <2>3 DEF CommitError, TypeOK, JobStatus
    <3>2. FinishedRowsAreComplete'
      BY <1>1, <2>3 DEF CommitError, FinishedRowsAreComplete, Finished, TypeOK
    <3>3. QED
      BY <3>1, <3>2
  <2>4. QED
    BY <2>1, <2>2, <2>3 DEF PostCommit
<1>9. QED
  BY <1>4, <1>6, <1>7, <1>8

LEMMA PostFailInv ==
    ASSUME LifecycleInv, NEW p \in Posts, PostFail(p)
    PROVE  LifecycleInv'
<1> USE AssumptionsHold DEF Assumptions, LifecycleInv, PostFail, Close, IdlePost
<1>1. TypeOK'
  BY DEF TypeOK, PostRequests, columns
<1>2. OnlySubmittedJobs'
  BY DEF OnlySubmittedJobs, TypeOK, columns
<1>3. ClaimSlots' /\ ClaimColumnsAgree' /\ FinishedRowsAreComplete'
  BY DEF ClaimSlots, ClaimColumnsAgree, FinishedRowsAreComplete, columns
<1>4. NoRowClaimedTwice' /\ OpenClaimStaysValid'
  BY DEF NoRowClaimedTwice, LockedBy, OpenClaimStaysValid, Stuck, columns
<1>5. QED
  BY <1>1, <1>2, <1>3, <1>4

LEMMA DeletingInv ==
    ASSUME LifecycleInv, NEW d \in Deletes, Deleting(d)
    PROVE  LifecycleInv'
<1> USE AssumptionsHold DEF Assumptions, LifecycleInv
<1>1. UNCHANGED <<status, workerId, claimAge, outputMedia, extraMedia,
                  errorText, completedAt, claim, post, tasks>>
  BY DEF Deleting, DeleteRead, DeleteCommit, columns
<1>2. TypeOK' /\ OnlySubmittedJobs'
  <2>1. CASE \E j \in Jobs : DeleteRead(d, j)
    BY <1>1, <2>1 DEF DeleteRead, TypeOK, OnlySubmittedJobs, columns
  <2>2. CASE DeleteCommit(d)
    BY <1>1, <2>2 DEF DeleteCommit, TypeOK, OnlySubmittedJobs
  <2>3. QED
    BY <2>1, <2>2 DEF Deleting
<1>3. ClaimSlots' /\ ClaimColumnsAgree' /\ FinishedRowsAreComplete'
  BY <1>1 DEF ClaimSlots, ClaimColumnsAgree, FinishedRowsAreComplete
<1>4. NoRowClaimedTwice' /\ OpenClaimStaysValid'
  BY <1>1 DEF NoRowClaimedTwice, LockedBy, OpenClaimStaysValid, Stuck
<1>5. QED
  BY <1>2, <1>3, <1>4

-----------------------------------------------------------------------------
(* Time and daemons.                                                       *)

LEMMA TickInv ==
    ASSUME LifecycleInv, Tick
    PROVE  LifecycleInv'
<1> USE AssumptionsHold DEF Assumptions, LifecycleInv
<1>1. \A a \in Ages : Older(a) \in Ages /\ (a > Timeout => Older(a) > Timeout)
  BY OlderIsAge
<1>2. \A j \in Jobs : claimAge'[j] = IF status[j] \in Live /\ claimAge[j] # NoAge
                                     THEN Older(claimAge[j]) ELSE claimAge[j]
  BY DEF Tick
<1>3. \A c \in Claims : claim'[c] = IF claim[c].pc = "taken"
                                    THEN [claim[c] EXCEPT !.age = Older(@)]
                                    ELSE claim[c]
  BY DEF Tick
<1>4. UNCHANGED <<status, workerId, outputMedia, extraMedia, errorText,
                  completedAt, deletedAt, post, del, tasks>>
  BY DEF Tick
<1>5. \A c \in Claims : /\ claim'[c].pc = claim[c].pc
                        /\ claim'[c].worker = claim[c].worker
                        /\ claim'[c].back = claim[c].back
                        /\ claim'[c].job = claim[c].job
  BY <1>3 DEF TypeOK, ClaimTxns
<1>6. TypeOK'
  <2>1. claimAge' \in [Jobs -> Ages \cup {NoAge}]
    BY <1>1 DEF Tick, TypeOK
  <2>2. claim' \in [Claims -> ClaimTxns]
    BY <1>1 DEF Tick, TypeOK, ClaimTxns
  <2>3. QED
    BY <1>4, <2>1, <2>2 DEF TypeOK
<1>7. ClaimSlots' /\ OnlySubmittedJobs'
  BY <1>4, <1>5 DEF ClaimSlots, OnlySubmittedJobs
<1>8. NoRowClaimedTwice'
  BY <1>5 DEF NoRowClaimedTwice, LockedBy
<1>9. Stuck \subseteq Stuck'
  <2> SUFFICES ASSUME NEW j \in Stuck PROVE j \in Stuck'
    OBVIOUS
  <2>1. /\ j \in Jobs /\ status[j] \in Live
        /\ claimAge[j] \in Ages /\ claimAge[j] > Timeout
    BY DEF Stuck, TypeOK
  <2>2. claimAge'[j] = Older(claimAge[j])
    BY <1>2, <2>1 DEF Stuck
  <2>3. claimAge'[j] \in Ages /\ claimAge'[j] > Timeout
    BY <1>1, <2>1, <2>2
  <2>4. QED
    BY <1>4, <2>1, <2>3 DEF Stuck, Ages
<1>10. OpenClaimStaysValid'
  BY <1>4, <1>5, <1>9 DEF OpenClaimStaysValid
<1>11. ClaimColumnsAgree'
  BY <1>1, <1>2, <1>4 DEF ClaimColumnsAgree, TypeOK, Ages, Live
<1>12. FinishedRowsAreComplete'
  BY <1>4 DEF FinishedRowsAreComplete
<1>13. QED
  BY <1>6, <1>7, <1>8, <1>10, <1>11, <1>12

LEMMA WorkerForgetsInv ==
    ASSUME LifecycleInv, NEW j \in Jobs, WorkerForgets(j)
    PROVE  LifecycleInv'
BY DEF LifecycleInv, WorkerForgets, TypeOK, ClaimSlots, OnlySubmittedJobs,
       NoRowClaimedTwice, LockedBy, OpenClaimStaysValid, Stuck,
       ClaimColumnsAgree, FinishedRowsAreComplete, columns

LEMMA StutterInv ==
    ASSUME LifecycleInv, UNCHANGED vars
    PROVE  LifecycleInv'
BY DEF LifecycleInv, vars, TypeOK, ClaimSlots, OnlySubmittedJobs,
       NoRowClaimedTwice, LockedBy, OpenClaimStaysValid, Stuck,
       ClaimColumnsAgree, FinishedRowsAreComplete, columns

\* Every step keeps the inductive invariant.
LEMMA NextInv == LifecycleInv /\ [Next]_vars => LifecycleInv'
<1> SUFFICES ASSUME LifecycleInv, [Next]_vars PROVE LifecycleInv'
  OBVIOUS
<1>1. CASE \E j \in Jobs : Submit(j)
  BY <1>1, SubmitInv
<1>2. CASE \E c \in Claims : Claiming(c)
  BY <1>2, ClaimingInv
<1>3. CASE \E p \in Posts : Posting(p)
  BY <1>3, PostReadInv, PostCommitInv, PostFailInv DEF Posting
<1>4. CASE \E d \in Deletes : Deleting(d)
  BY <1>4, DeletingInv
<1>5. CASE Tick
  BY <1>5, TickInv
<1>6. CASE \E j \in Jobs : WorkerForgets(j)
  BY <1>6, WorkerForgetsInv
<1>7. CASE UNCHANGED vars
  BY <1>7, StutterInv
<1>8. QED
  BY <1>1, <1>2, <1>3, <1>4, <1>5, <1>6, <1>7 DEF Next

\* The inductive invariant holds in every reachable state.
THEOREM LifecycleInvariance == Spec => []LifecycleInv
BY InitInv, NextInv, PTL DEF Spec

\* Columns and request slots keep their types.
THEOREM TypeCorrectness == Spec => []TypeOK
<1>1. LifecycleInv => TypeOK
  BY DEF LifecycleInv
<1>2. QED
  BY <1>1, LifecycleInvariance, PTL

\* No row is written by two open claims, for any number of daemons polling.
THEOREM NoRowClaimedTwiceHolds == Spec => []NoRowClaimedTwice
<1>1. LifecycleInv => NoRowClaimedTwice
  BY DEF LifecycleInv
<1>2. QED
  BY <1>1, LifecycleInvariance, PTL

\* What an open claim decided is still true when it commits.
THEOREM OpenClaimStaysValidHolds == Spec => []OpenClaimStaysValid
<1>1. LifecycleInv => OpenClaimStaysValid
  BY DEF LifecycleInv
<1>2. QED
  BY <1>1, LifecycleInvariance, PTL

\* A claimed row has a daemon and a claim time, a queued row neither.
THEOREM ClaimColumnsAgreeHolds == Spec => []ClaimColumnsAgree
<1>1. LifecycleInv => ClaimColumnsAgree
  BY DEF LifecycleInv
<1>2. QED
  BY <1>1, LifecycleInvariance, PTL

\* A finished row has its completion time and its video or error.
THEOREM FinishedRowsAreCompleteHolds == Spec => []FinishedRowsAreComplete
<1>1. LifecycleInv => FinishedRowsAreComplete
  BY DEF LifecycleInv
<1>2. QED
  BY <1>1, LifecycleInvariance, PTL

-----------------------------------------------------------------------------
(* Action properties.                                                      *)

\* What a commit of claim c does to one row.
LEMMA PublishedRow ==
    ASSUME LifecycleInv, NEW c \in Claims, Publish(c), NEW j \in Jobs
    PROVE  \/ /\ j \notin LockedBy(c)
              /\ status'[j] = status[j] /\ workerId'[j] = workerId[j]
              /\ claimAge'[j] = claimAge[j]
           \/ /\ j \in Stuck \/ status[j] = "queued"
              /\ status'[j] \in {"queued", "claimed"}
<1>1. CASE j = claim[c].job
  <2>1. j \in claim[c].back \/ status[j] = "queued"
    BY <1>1, AssumptionsHold
       DEF LifecycleInv, OpenClaimStaysValid, Assumptions
  <2>2. QED
    BY <1>1, <2>1 DEF Publish, Written, LifecycleInv, OpenClaimStaysValid
<1>2. CASE j # claim[c].job /\ j \in claim[c].back
  BY <1>2 DEF Publish, Written, LifecycleInv, OpenClaimStaysValid
<1>3. CASE j # claim[c].job /\ j \notin claim[c].back
  BY <1>3 DEF Publish, Written, LockedBy
<1>4. QED
  BY <1>1, <1>2, <1>3

\* What any step does to one row.
LEMMA RowStep ==
    ASSUME LifecycleInv, [Next]_vars, NEW j \in Jobs
    PROVE  \/ /\ status'[j] = status[j] /\ workerId'[j] = workerId[j]
              /\ claimAge'[j] \in {claimAge[j], Older(claimAge[j])}
           \/ status[j] = "absent"
           \/ status'[j] \in Finished
           \/ /\ j \in Stuck \/ status[j] = "queued"
              /\ status'[j] \in {"queued", "claimed"}
<1> USE DEF LifecycleInv
<1>1. CASE \E i \in Jobs : Submit(i)
  BY <1>1 DEF Submit, TypeOK
<1>2. CASE \E c \in Claims : Claiming(c)
  <2> PICK c \in Claims : Claiming(c)
    BY <1>2
  <2>1. CASE Publish(c)
    BY <2>1, PublishedRow
  <2>2. CASE UNCHANGED columns
    BY <2>2 DEF columns
  <2>3. QED
    BY <2>1, <2>2 DEF Claiming, ClaimReclaim, ClaimTake, ClaimNone,
                      ClaimCommit, ClaimCommitAnswerLost, ClaimAbort
<1>3. CASE \E p \in Posts : Posting(p)
  <2> PICK p \in Posts : Posting(p)
    BY <1>3
  <2>1. CASE PostCommit(p)
    BY <2>1 DEF PostCommit, CommitPrimary, CommitExtra, CommitError, TypeOK,
                Finished
  <2>2. CASE UNCHANGED columns
    BY <2>2 DEF columns
  <2>3. QED
    BY <2>1, <2>2 DEF Posting, PostRead, PostFail
<1>4. CASE \E d \in Deletes : Deleting(d)
  BY <1>4 DEF Deleting, DeleteRead, DeleteCommit, columns
<1>5. CASE Tick
  BY <1>5 DEF Tick
<1>6. CASE \E i \in Jobs : WorkerForgets(i)
  BY <1>6 DEF WorkerForgets, columns
<1>7. CASE UNCHANGED vars
  BY <1>7 DEF vars, columns
<1>8. QED
  BY <1>1, <1>2, <1>3, <1>4, <1>5, <1>6, <1>7 DEF Next

\* A finished job is never queued or claimed again.
THEOREM FinishedStaysFinishedHolds == Spec => FinishedStaysFinished
<1>1. ASSUME LifecycleInv, [Next]_vars
      PROVE  [\A j \in Jobs : status[j] \in Finished => status'[j] \in Finished]_vars
  <2> SUFFICES ASSUME NEW j \in Jobs, status[j] \in Finished
               PROVE  status'[j] \in Finished
    OBVIOUS
  <2>1. j \notin Stuck
    BY DEF Stuck, Live, Finished
  <2>2. QED
    BY <1>1, <2>1, RowStep DEF Finished
<1>2. QED
  BY <1>1, LifecycleInvariance, PTL DEF Spec, FinishedStaysFinished

\* A claim ends with a result, or not before its timeout.
THEOREM ClaimKeptUntilTimeoutHolds == Spec => ClaimKeptUntilTimeout
<1>1. ASSUME LifecycleInv, [Next]_vars
      PROVE  [\A j \in Jobs :
                 status[j] \in Live /\ ~(\/ status'[j] \in Finished
                                         \/ /\ status'[j] = status[j]
                                            /\ workerId'[j] = workerId[j]
                                            /\ claimAge'[j] >= claimAge[j])
                 => claimAge[j] > Timeout]_vars
  <2> SUFFICES ASSUME NEW j \in Jobs, status[j] \in Live,
                      status'[j] \notin Finished, ~(claimAge[j] > Timeout)
               PROVE  /\ status'[j] = status[j] /\ workerId'[j] = workerId[j]
                      /\ claimAge'[j] >= claimAge[j]
    OBVIOUS
  <2>1. claimAge[j] \in Ages
    BY <1>1 DEF LifecycleInv, TypeOK, ClaimColumnsAgree
  <2>2. Older(claimAge[j]) >= claimAge[j] /\ claimAge[j] >= claimAge[j]
    BY <2>1, OlderIsAge, TimeoutAssumption DEF Ages
  <2>3. j \notin Stuck
    BY DEF Stuck
  <2>4. QED
    BY <1>1, <2>2, <2>3, RowStep DEF Live
<1>2. QED
  BY <1>1, LifecycleInvariance, PTL DEF Spec, ClaimKeptUntilTimeout

-----------------------------------------------------------------------------
(* Refinement: the job table implements the job board.                     *)

\* The board's initial state.
LEMMA BoardInit == Init => Board!Init
BY DEF Init, Board!Init, Phase, Live

\* A step that changes neither state, nor video, nor deletion mark is
\* invisible on the board.
LEMMA BoardStutter ==
    ASSUME status' = status, outputMedia' = outputMedia, deletedAt' = deletedAt
    PROVE  [Board!Next]_(Board!vars)
BY DEF Board!vars, Phase

\* Committing a claim assigns its job and gives its other rows back.
LEMMA BoardAssign ==
    ASSUME LifecycleInv, NEW c \in Claims, Publish(c), claim[c].pc = "taken"
    PROVE  Board!Next
<1> USE AssumptionsHold DEF Assumptions, LifecycleInv
<1> DEFINE back == claim[c].back
           job  == claim[c].job
<1>1. job \in Jobs /\ job # NoJob /\ back \in SUBSET Jobs
  BY DEF ClaimSlots, TypeOK, ClaimTxns
<1>2. \A k \in back : Phase(k) = "rendering"
  BY DEF OpenClaimStaysValid, Stuck, Phase, Live
<1>3. job \in back \/ Phase(job) = "waiting"
  BY <1>1 DEF OpenClaimStaysValid, Phase, Live
<1>4. \A k \in Jobs : Phase(k)' = IF k = job THEN "rendering"
                                  ELSE IF k \in back THEN "waiting"
                                  ELSE Phase(k)
  BY DEF Publish, Written, Phase, Live
<1>5. Board!Assign(back, job)
  BY <1>1, <1>2, <1>3, <1>4 DEF Board!Assign, Publish
<1>6. QED
  BY <1>1, <1>5 DEF Board!Next

\* Committing a result delivers a video, fails the job, or (an extra variant)
\* is invisible.
LEMMA BoardResult ==
    ASSUME LifecycleInv, NEW p \in Posts, PostCommit(p)
    PROVE  [Board!Next]_(Board!vars)
<1> USE AssumptionsHold DEF Assumptions, LifecycleInv
<1> DEFINE k == post[p].job
<1>1. k \in Jobs /\ Phase(k) # "absent"
  BY DEF PostCommit, CommitPrimary, CommitExtra, CommitError,
         OnlySubmittedJobs, Phase, Live
<1>2. CASE CommitPrimary(p)
  <2>1. PICK m \in Media : outputMedia' = [outputMedia EXCEPT ![k] = m]
    BY <1>2 DEF CommitPrimary
  <2>2. \A j \in Jobs : Phase(j)' = IF j = k THEN "done" ELSE Phase(j)
    BY <1>1, <1>2 DEF CommitPrimary, TypeOK, Phase, Live
  <2>3. \A j \in Jobs : (outputMedia'[j] # NoMedia)
                           = IF j = k THEN TRUE ELSE outputMedia[j] # NoMedia
    BY <1>1, <2>1 DEF TypeOK
  <2>4. \E j \in Jobs : Board!Deliver(j)
    BY <1>1, <1>2, <2>2, <2>3 DEF CommitPrimary, Board!Deliver
  <2>5. QED
    BY <2>4 DEF Board!Next
<1>3. CASE CommitExtra(p)
  BY <1>3, BoardStutter DEF CommitExtra
<1>4. CASE CommitError(p)
  <2>1. \A j \in Jobs : Phase(j)' = IF j = k THEN "error" ELSE Phase(j)
    BY <1>1, <1>4 DEF CommitError, TypeOK, Phase, Live
  <2>2. Board!Fail(k)
    BY <1>1, <1>4, <2>1 DEF CommitError, Board!Fail
  <2>3. QED
    BY <1>1, <2>2 DEF Board!Next
<1>5. QED
  BY <1>2, <1>3, <1>4 DEF PostCommit

\* Every step of the job table is a step of the board or invisible on it.
LEMMA BoardStep ==
    ASSUME LifecycleInv, [Next]_vars
    PROVE  [Board!Next]_(Board!vars)
<1> USE AssumptionsHold DEF Assumptions, LifecycleInv
<1>1. CASE \E j \in Jobs : Submit(j)
  <2> PICK j \in Jobs : Submit(j)
    BY <1>1
  <2>1. \A i \in Jobs : Phase(i)' = IF i = j THEN "waiting" ELSE Phase(i)
    BY DEF Submit, TypeOK, Phase, Live
  <2>2. Board!Post(j)
    BY <2>1 DEF Submit, Board!Post, Phase, Live
  <2>3. QED
    BY <2>2 DEF Board!Next
<1>2. CASE \E c \in Claims : Claiming(c)
  <2> PICK c \in Claims : Claiming(c)
    BY <1>2
  <2>1. CASE \/ \E w \in Workers : ClaimReclaim(c, w)
             \/ ClaimTake(c) \/ ClaimAbort(c)
    BY <2>1, BoardStutter DEF ClaimReclaim, ClaimTake, ClaimAbort, columns
  <2>2. CASE ClaimNone(c)
    <3>1. claim[c].back = {} /\ claim[c].job \notin Jobs
      BY <2>2 DEF ClaimNone, Ready, ClaimSlots
    <3>2. status' = status
      BY <2>2, <3>1 DEF ClaimNone, Publish, Written, TypeOK
    <3>3. QED
      BY <2>2, <3>2, BoardStutter DEF ClaimNone, Publish
  <2>3. CASE ClaimCommit(c) \/ ClaimCommitAnswerLost(c)
    BY <2>3, BoardAssign DEF ClaimCommit, ClaimCommitAnswerLost
  <2>4. QED
    BY <2>1, <2>2, <2>3 DEF Claiming
<1>3. CASE \E p \in Posts : Posting(p)
  <2> PICK p \in Posts : Posting(p)
    BY <1>3
  <2>1. CASE PostCommit(p)
    BY <2>1, BoardResult
  <2>2. CASE UNCHANGED columns
    BY <2>2, BoardStutter DEF columns
  <2>3. QED
    BY <2>1, <2>2 DEF Posting, PostRead, PostFail
<1>4. CASE \E d \in Deletes : Deleting(d)
  <2> PICK d \in Deletes : Deleting(d)
    BY <1>4
  <2>1. CASE \E j \in Jobs : DeleteRead(d, j)
    BY <2>1, BoardStutter DEF DeleteRead, columns
  <2>2. CASE DeleteCommit(d)
    <3>1. del[d] \in Jobs /\ Phase(del[d]) # "absent"
      BY <2>2 DEF DeleteCommit, TypeOK, OnlySubmittedJobs, Phase, Live
    <3>2. Board!Hide(del[d])
      BY <2>2, <3>1 DEF DeleteCommit, Board!Hide, Phase
    <3>3. QED
      BY <3>1, <3>2 DEF Board!Next
  <2>3. QED
    BY <2>1, <2>2 DEF Deleting
<1>5. CASE Tick
  BY <1>5, BoardStutter DEF Tick
<1>6. CASE \E j \in Jobs : WorkerForgets(j)
  BY <1>6, BoardStutter DEF WorkerForgets, columns
<1>7. CASE UNCHANGED vars
  BY <1>7, BoardStutter DEF vars, columns
<1>8. QED
  BY <1>1, <1>2, <1>3, <1>4, <1>5, <1>6, <1>7 DEF Next

\* The job table implements the job board.
THEOREM Refinement == Spec => ImplementsBoard
BY BoardInit, BoardStep, LifecycleInvariance, PTL
   DEF Spec, ImplementsBoard, Board!Spec
=============================================================================
