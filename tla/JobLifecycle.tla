---------------------------- MODULE JobLifecycle ----------------------------
(***************************************************************************)
(* The job table of the SUPER BCS API and the requests that change it:     *)
(* GET /worker/claim, POST /worker/result and DELETE /jobs/{id}, with the  *)
(* insert that ends POST /jobs.                                            *)
(*                                                                         *)
(* Every request runs in a database transaction of its own (PostgreSQL,    *)
(* READ COMMITTED) and yields at every await, so requests interleave       *)
(* between their SQL statements.  The variables of the first group are the *)
(* COMMITTED columns of table superbcs_jobs; what a request has read or    *)
(* written without having committed it is in its slot of the second group. *)
(*                                                                         *)
(* Data abstractions.  A job is its rank in created_at order, so that      *)
(* "older" is "<": rows may be committed in another order than their       *)
(* timestamps.  A timestamp that is only compared with "now - timeout" is  *)
(* the time passed since, counted in ticks up to Timeout + 1.  The list    *)
(* extra_output_media_ids is a set, since nothing reads its order.         *)
(***************************************************************************)
EXTENDS Naturals, FiniteSets

CONSTANTS
    Jobs,       \* job ids, ordered by created_at
    Workers,    \* x-worker-id values of the GPU daemons
    Claims,     \* slots for concurrent GET /worker/claim requests
    Posts,      \* slots for concurrent POST /worker/result requests
    Deletes,    \* slots for concurrent DELETE /jobs/{id} requests
    Media,      \* media ids (fresh uuid4 per upload)
    NoJob, NoWorker, NoMedia, NoAge,    \* SQL NULL, one per column type
    Timeout,    \* job_timeout_seconds, in ticks
    MaxExtras   \* bound of the model: extra variants of one job

ASSUME JobsAssumption == Jobs \subseteq Nat /\ NoJob \notin Jobs
ASSUME NullAssumption == /\ NoWorker \notin Workers
                         /\ NoMedia \notin Media
                         /\ NoAge \notin Nat
ASSUME TimeoutAssumption == Timeout \in Nat /\ MaxExtras \in Nat

VARIABLES
    \* committed columns of superbcs_jobs
    status, workerId, claimAge, outputMedia, extraMedia,
    errorText, completedAt, deletedAt,
    \* requests in progress, by slot
    claim, post, del,
    \* the jobs some GPU daemon has been handed and may still post for
    tasks

columns == <<status, workerId, claimAge, outputMedia, extraMedia,
             errorText, completedAt, deletedAt>>
vars == <<columns, claim, post, del, tasks>>

JobStatus == {"queued", "claimed", "running", "done", "error", "cancelled"}
Live      == {"claimed", "running"}     \* the states a reclaim looks at
Finished  == {"done", "error"}

Ages == 0 .. (Timeout + 1)

IdleClaim == [pc |-> "idle", worker |-> NoWorker, back |-> {},
              job |-> NoJob, age |-> 0]
IdlePost  == [job |-> NoJob, what |-> "none", seen |-> {}]

-----------------------------------------------------------------------------
(* The rows a request may see or must wait for.                            *)

\* Slips in the reclaim's WHERE clause: no deadline, no status, one status.
StuckAtAnyAge   == {j \in Jobs : status[j] \in Live}
StuckInAnyState == {j \in Jobs : /\ claimAge[j] # NoAge
                                 /\ claimAge[j] > Timeout}
StuckRunning    == {j \in Jobs : status[j] = "running"}

\* WHERE status IN (claimed, running) AND claimed_at < now - timeout; a NULL
\* claimed_at compares as unknown and never matches.
Stuck == {j \in Jobs : /\ status[j] \in Live
                       /\ claimAge[j] # NoAge
                       /\ claimAge[j] > Timeout}

\* Slips: only the job taken is locked; no row lock is held until commit; the
\* locking SELECT does not skip locked rows.
LockedJobOnly(c) == {claim[c].job} \ {NoJob}
NothingLocked    == {}
ReadyOrLocked(c) == {j \in Jobs : status[j] = "queued"} \cup claim[c].back

\* Row locks of an open claim transaction: the rows it has updated.
LockedBy(c) == claim[c].back \cup ({claim[c].job} \ {NoJob})
Locked == UNION {LockedBy(c) : c \in Claims}

\* What the locking SELECT of claim transaction c chooses from: queued rows
\* that nobody else has locked, and the rows c itself has just requeued.
Ready(c) == {j \in Jobs \ Locked : status[j] = "queued"} \cup claim[c].back

-----------------------------------------------------------------------------
Init ==
    /\ status      = [j \in Jobs |-> "absent"]
    /\ workerId    = [j \in Jobs |-> NoWorker]
    /\ claimAge    = [j \in Jobs |-> NoAge]
    /\ outputMedia = [j \in Jobs |-> NoMedia]
    /\ extraMedia  = [j \in Jobs |-> {}]
    /\ errorText   = [j \in Jobs |-> FALSE]
    /\ completedAt = [j \in Jobs |-> FALSE]
    /\ deletedAt   = [j \in Jobs |-> FALSE]
    /\ claim = [c \in Claims |-> IdleClaim]
    /\ post  = [p \in Posts |-> IdlePost]
    /\ del   = [d \in Deletes |-> NoJob]
    /\ tasks = {}

\* Slip: the INSERT names a state the enumeration does not have.
SubmitPending(j) ==
    /\ status[j] = "absent"
    /\ status' = [status EXCEPT ![j] = "pending"]
    /\ UNCHANGED <<workerId, claimAge, outputMedia, extraMedia, errorText,
                   completedAt, deletedAt, claim, post, del, tasks>>

\* POST /jobs commits its INSERT; the other columns have their defaults.
Submit(j) ==
    /\ status[j] = "absent"
    /\ status' = [status EXCEPT ![j] = "queued"]
    /\ UNCHANGED <<workerId, claimAge, outputMedia, extraMedia, errorText,
                   completedAt, deletedAt, claim, post, del, tasks>>

-----------------------------------------------------------------------------
(* GET /worker/claim: one transaction of two UPDATEs.                      *)

\* Slip: the reclaim is left out.
ClaimWithoutReclaim(c, w) ==
    /\ claim[c].pc = "idle"
    /\ claim' = [claim EXCEPT ![c] =
                    [pc |-> "reclaimed", worker |-> w, back |-> {},
                     job |-> NoJob, age |-> 0]]
    /\ UNCHANGED <<columns, post, del, tasks>>

\* First UPDATE: requeue the stuck jobs.  It waits for a stuck row another
\* claim has locked, and looks at the row again afterwards.
ClaimReclaim(c, w) ==
    /\ claim[c].pc = "idle"
    /\ Stuck \cap Locked = {}
    /\ claim' = [claim EXCEPT ![c] =
                    [pc |-> "reclaimed", worker |-> w, back |-> Stuck,
                     job |-> NoJob, age |-> 0]]
    /\ UNCHANGED <<columns, post, del, tasks>>

\* Second UPDATE: take the oldest ready job (FOR UPDATE SKIP LOCKED LIMIT 1).
ClaimTake(c) ==
    /\ claim[c].pc = "reclaimed"
    /\ \E j \in Ready(c) :
          /\ \A k \in Ready(c) : j <= k
          /\ claim' = [claim EXCEPT ![c].pc = "taken", ![c].job = j,
                                    ![c].age = 0]
    /\ UNCHANGED <<columns, post, del, tasks>>

\* The column values c leaves behind: one for the job it takes, another for
\* the others it gives back.
Written(c, column, taken, given) ==
    [j \in Jobs |-> IF j = claim[c].job THEN taken
                    ELSE IF j \in claim[c].back THEN given
                    ELSE column[j]]

\* Slip: the reclaim resets the state but not who had claimed the job.
PublishHalf(c) ==
    /\ status'   = Written(c, status, "claimed", "queued")
    /\ workerId' = [workerId EXCEPT ![claim[c].job] = claim[c].worker]
    /\ claimAge' = Written(c, claimAge, claim[c].age, NoAge)
    /\ claim' = [claim EXCEPT ![c] = IdleClaim]
    /\ UNCHANGED <<outputMedia, extraMedia, errorText, completedAt, deletedAt>>

\* COMMIT: what transaction c wrote becomes the committed row versions.
Publish(c) ==
    /\ status'   = Written(c, status, "claimed", "queued")
    /\ workerId' = Written(c, workerId, claim[c].worker, NoWorker)
    /\ claimAge' = Written(c, claimAge, claim[c].age, NoAge)
    /\ claim' = [claim EXCEPT ![c] = IdleClaim]
    /\ UNCHANGED <<outputMedia, extraMedia, errorText, completedAt, deletedAt>>

\* Nothing to do: commit and answer 204.
ClaimNone(c) ==
    /\ claim[c].pc = "reclaimed"
    /\ Ready(c) = {}
    /\ Publish(c)
    /\ UNCHANGED <<post, del, tasks>>

\* Commit and answer with the job.
ClaimCommit(c) ==
    /\ claim[c].pc = "taken"
    /\ Publish(c)
    /\ tasks' = tasks \cup {claim[c].job}
    /\ UNCHANGED <<post, del>>

\* The same, but the answer never reaches the daemon.
ClaimCommitAnswerLost(c) ==
    /\ claim[c].pc = "taken"
    /\ Publish(c)
    /\ UNCHANGED <<post, del, tasks>>

\* The request dies before its commit (connection lost, duplicate key on the
\* worker registry): the transaction is rolled back.
ClaimAbort(c) ==
    /\ claim[c].pc # "idle"
    /\ claim' = [claim EXCEPT ![c] = IdleClaim]
    /\ UNCHANGED <<columns, post, del, tasks>>

-----------------------------------------------------------------------------
(* POST /worker/result: a plain read of the row, awaits, then an UPDATE by *)
(* primary key and COMMIT.  The read takes no lock.                        *)

\* Bound of the model: no more than MaxExtras extra variants of one job.
RoomForExtra(j) == Cardinality(extraMedia[j]) < MaxExtras

Admits(j, what, extra) ==
    /\ status[j] \in (IF extra THEN Live \cup {"done"} ELSE Live)
    /\ what = "primary" => ~extra
    /\ what = "extra"   => extra /\ RoomForExtra(j)

\* The row is read and its status accepted (otherwise 409, nothing changes).
\* A daemon posts only for a job some claim handed out; which daemon posts is
\* not checked, so one that has lost its claim may still deliver.
PostRead(p, j, what, extra) ==
    /\ post[p] = IdlePost
    /\ j \in tasks
    /\ Admits(j, what, extra)
    /\ post' = [post EXCEPT ![p] =
                    [job |-> j, what |-> what,
                     seen |-> IF what = "extra" THEN extraMedia[j] ELSE {}]]
    /\ UNCHANGED <<columns, claim, del, tasks>>

Close(p) == post' = [post EXCEPT ![p] = IdlePost]

\* Ids some row or some request still mentions: an upload gets another one.
Mentioned == {outputMedia[j] : j \in Jobs}
             \cup UNION {extraMedia[j] : j \in Jobs}
             \cup UNION {post[p].seen : p \in Posts}

\* variant_index = 0: promotes the job to DONE.
CommitPrimary(p) ==
    /\ post[p].what = "primary"
    /\ post[p].job \notin Locked
    /\ \E m \in Media \ Mentioned :
          outputMedia' = [outputMedia EXCEPT ![post[p].job] = m]
    /\ status'      = [status EXCEPT ![post[p].job] = "done"]
    /\ completedAt' = [completedAt EXCEPT ![post[p].job] = TRUE]
    /\ Close(p)
    /\ UNCHANGED <<workerId, claimAge, extraMedia, errorText, deletedAt,
                   claim, del, tasks>>

\* variant_index > 0: the list read earlier, with the new id, is written back.
CommitExtra(p) ==
    /\ post[p].what = "extra"
    /\ post[p].job \notin Locked
    /\ \E m \in Media \ Mentioned :
          extraMedia' = [extraMedia EXCEPT ![post[p].job] =
                            post[p].seen \cup {m}]
    /\ Close(p)
    /\ UNCHANGED <<status, workerId, claimAge, outputMedia, errorText,
                   completedAt, deletedAt, claim, del, tasks>>

\* Slip: a failure is recorded without its completion time.
CommitErrorUndated(p) ==
    /\ post[p].what = "error"
    /\ post[p].job \notin Locked
    /\ status'    = [status EXCEPT ![post[p].job] = "error"]
    /\ errorText' = [errorText EXCEPT ![post[p].job] = TRUE]
    /\ Close(p)
    /\ UNCHANGED <<workerId, claimAge, outputMedia, extraMedia, completedAt,
                   deletedAt, claim, del, tasks>>

\* status = "error", for whatever variant.
CommitError(p) ==
    /\ post[p].what = "error"
    /\ post[p].job \notin Locked
    /\ status'      = [status EXCEPT ![post[p].job] = "error"]
    /\ errorText'   = [errorText EXCEPT ![post[p].job] = TRUE]
    /\ completedAt' = [completedAt EXCEPT ![post[p].job] = TRUE]
    /\ Close(p)
    /\ UNCHANGED <<workerId, claimAge, outputMedia, extraMedia, deletedAt,
                   claim, del, tasks>>

\* 400 or 422 on the upload, a client gone, a crash: rolled back.
PostFail(p) ==
    /\ post[p] # IdlePost
    /\ Close(p)
    /\ UNCHANGED <<columns, claim, del, tasks>>

-----------------------------------------------------------------------------
(* DELETE /jobs/{id} by the owner of the job (anybody else gets 403).      *)

DeleteRead(d, j) ==
    /\ del[d] = NoJob
    /\ status[j] # "absent"
    /\ ~deletedAt[j]
    /\ del' = [del EXCEPT ![d] = j]
    /\ UNCHANGED <<columns, claim, post, tasks>>

DeleteCommit(d) ==
    /\ del[d] # NoJob
    /\ del[d] \notin Locked
    /\ deletedAt' = [deletedAt EXCEPT ![del[d]] = TRUE]
    /\ del' = [del EXCEPT ![d] = NoJob]
    /\ UNCHANGED <<status, workerId, claimAge, outputMedia, extraMedia,
                   errorText, completedAt, claim, post, tasks>>

-----------------------------------------------------------------------------
(* The environment.                                                        *)

Older(a) == IF a > Timeout THEN a ELSE a + 1

\* One tick: every running claim ages, the uncommitted ones included.
Tick ==
    /\ claimAge' = [j \in Jobs |->
                       IF status[j] \in Live /\ claimAge[j] # NoAge
                       THEN Older(claimAge[j]) ELSE claimAge[j]]
    /\ claim' = [c \in Claims |->
                       IF claim[c].pc = "taken"
                       THEN [claim[c] EXCEPT !.age = Older(@)] ELSE claim[c]]
    /\ UNCHANGED <<status, workerId, outputMedia, extraMedia, errorText,
                   completedAt, deletedAt, post, del, tasks>>

\* Nobody will post for j any more: its daemon has died or has finished.
WorkerForgets(j) ==
    /\ j \in tasks
    /\ tasks' = tasks \ {j}
    /\ UNCHANGED <<columns, claim, post, del>>

-----------------------------------------------------------------------------
Claiming(c) ==
    \/ \E w \in Workers : ClaimReclaim(c, w)
    \/ ClaimTake(c)
    \/ ClaimNone(c)
    \/ ClaimCommit(c)
    \/ ClaimCommitAnswerLost(c)
    \/ ClaimAbort(c)

PostCommit(p) == CommitPrimary(p) \/ CommitExtra(p) \/ CommitError(p)

Posting(p) ==
    \/ \E j \in Jobs, what \in {"primary", "extra", "error"},
          extra \in BOOLEAN : PostRead(p, j, what, extra)
    \/ PostCommit(p)
    \/ PostFail(p)

Deleting(d) == (\E j \in Jobs : DeleteRead(d, j)) \/ DeleteCommit(d)

Next ==
    \/ \E j \in Jobs : Submit(j)
    \/ \E c \in Claims : Claiming(c)
    \/ \E p \in Posts : Posting(p)
    \/ \E d \in Deletes : Deleting(d)
    \/ Tick
    \/ \E j \in Jobs : WorkerForgets(j)

Spec == Init /\ [][Next]_vars

-----------------------------------------------------------------------------
(* Safety.                                                                 *)

ClaimTxns == [pc : {"idle", "reclaimed", "taken"},
              worker : Workers \cup {NoWorker}, back : SUBSET Jobs,
              job : Jobs \cup {NoJob}, age : Ages]

PostRequests == [job : Jobs \cup {NoJob},
                 what : {"none", "primary", "extra", "error"},
                 seen : SUBSET Media]

\* Every column and every request slot holds a value of its type.
TypeOK ==
    /\ status      \in [Jobs -> JobStatus \cup {"absent"}]
    /\ workerId    \in [Jobs -> Workers \cup {NoWorker}]
    /\ claimAge    \in [Jobs -> Ages \cup {NoAge}]
    /\ outputMedia \in [Jobs -> Media \cup {NoMedia}]
    /\ extraMedia  \in [Jobs -> SUBSET Media]
    /\ errorText   \in [Jobs -> BOOLEAN]
    /\ completedAt \in [Jobs -> BOOLEAN]
    /\ deletedAt   \in [Jobs -> BOOLEAN]
    /\ claim \in [Claims -> ClaimTxns]
    /\ post  \in [Posts -> PostRequests]
    /\ del   \in [Deletes -> Jobs \cup {NoJob}]
    /\ tasks \in SUBSET Jobs

\* At most one open claim transaction has written a row: two daemons polling
\* at once, with a stuck job to give back, never lock or take the same job.
NoRowClaimedTwice ==
    \A c1, c2 \in Claims : c1 # c2 => LockedBy(c1) \cap LockedBy(c2) = {}

\* What an open claim transaction decided stays true until it commits, though
\* results, deletions and other claims go on: the rows it gives back are
\* still stuck, and the job it takes is still waiting (or one of those rows).
OpenClaimStaysValid ==
    \A c \in Claims :
       /\ claim[c].back \subseteq Stuck
       /\ claim[c].job # NoJob =>
             \/ claim[c].job \in claim[c].back
             \/ status[claim[c].job] = "queued"

\* A row in state claimed names its daemon and has a claim time, without which
\* no reclaim would ever find it; a queued row (or one to come) has neither.
ClaimColumnsAgree ==
    \A j \in Jobs :
       /\ status[j] \in Live =>
             workerId[j] # NoWorker /\ claimAge[j] # NoAge
       /\ status[j] \in {"absent", "queued"} =>
             workerId[j] = NoWorker /\ claimAge[j] = NoAge

\* What a poller of GET /jobs/{id} sees is coherent: completed_at is set
\* exactly in the final states, a job done has its video, a failed one its
\* error text; late or repeated results do not break that.
FinishedRowsAreComplete ==
    \A j \in Jobs :
       /\ completedAt[j] <=> status[j] \in Finished
       /\ status[j] = "done"  => outputMedia[j] # NoMedia
       /\ status[j] = "error" => errorText[j]

\* How far a claim request is decides what its slot holds.
ClaimSlots ==
    \A c \in Claims :
       /\ claim[c].pc = "idle" => claim[c].back = {} /\ claim[c].job = NoJob
       /\ claim[c].pc = "reclaimed" => claim[c].job = NoJob
       /\ claim[c].pc = "taken" => claim[c].job \in Jobs
       /\ claim[c].pc # "idle" => claim[c].worker \in Workers

\* Daemons and requests only name jobs that have been submitted.
OnlySubmittedJobs ==
    /\ \A j \in tasks : status[j] # "absent"
    /\ \A p \in Posts : post[p].what # "none" =>
          post[p].job \in Jobs /\ status[post[p].job] # "absent"
    /\ \A d \in Deletes : del[d] # NoJob => status[del[d]] # "absent"

\* The inductive invariant: the properties above with what they rest on.
LifecycleInv ==
    /\ TypeOK
    /\ ClaimSlots
    /\ OnlySubmittedJobs
    /\ NoRowClaimedTwice
    /\ OpenClaimStaysValid
    /\ ClaimColumnsAgree
    /\ FinishedRowsAreComplete

\* A job that has finished is never queued or claimed again: no reclaim, and
\* no claim committed late, undoes a result.
FinishedStaysFinished ==
    [][\A j \in Jobs : status[j] \in Finished => status'[j] \in Finished]_vars

\* A claim is only ended by a result or, once its timeout has passed, by being
\* given back or passed on to another claim.
ClaimKeptUntilTimeout ==
    [][\A j \in Jobs :
          status[j] \in Live /\ ~(\/ status'[j] \in Finished
                                  \/ /\ status'[j] = status[j]
                                     /\ workerId'[j] = workerId[j]
                                     /\ claimAge'[j] >= claimAge[j])
          => claimAge[j] > Timeout]_vars

\* What the comment at worker.py:130 says: the primary variant is only taken
\* while the job is claimed or running.  The state is checked when the row is
\* read and not when the result is written, so the code does not keep it.
PrimaryOnlyWhileClaimed ==
    [][\A j \in Jobs :
          outputMedia'[j] # outputMedia[j] => status[j] \in Live]_vars

\* What the docstring at jobs.py:109 says: an extra variant is appended to the
\* list.  Two extras of one job in flight write back the same old list, so the
\* code loses one of them.
ExtrasAreAppended ==
    [][\A j \in Jobs : extraMedia[j] \subseteq extraMedia'[j]]_vars

-----------------------------------------------------------------------------
(* Refinement: the job board is the table seen without its machinery.      *)

Phase(j) == CASE status[j] = "queued" -> "waiting"
              [] status[j] \in Live   -> "rendering"
              [] OTHER                -> status[j]

Board == INSTANCE JobBoard WITH
            phase  <- [j \in Jobs |-> Phase(j)],
            video  <- [j \in Jobs |-> outputMedia[j] # NoMedia],
            hidden <- deletedAt

\* The job table implements the job board: whatever transactions overlap,
\* each commit is one step of the board or invisible to it.
ImplementsBoard == Board!Spec

-----------------------------------------------------------------------------
(* Liveness.                                                               *)

\* Time passes, the daemons keep polling, and requests do not fail for ever.
PollingFairness ==
    /\ WF_vars(Tick)
    /\ \A c \in Claims :
          /\ WF_vars(\E w \in Workers : ClaimReclaim(c, w))
          /\ SF_vars(ClaimTake(c) \/ ClaimNone(c))
          /\ SF_vars(ClaimCommit(c))

\* Besides, no upload hangs for ever, a daemon that is handed a job again and
\* again ends up posting its primary variant, and of infinitely many such posts
\* not every one fails.
PostPrimary(j)   == \E p \in Posts : PostRead(p, j, "primary", FALSE)
DeliverOf(j)     == \E p \in Posts : post[p].job = j /\ CommitPrimary(p)
RenderingFairness ==
    /\ \A p \in Posts : WF_vars(PostCommit(p) \/ PostFail(p))
    /\ \A j \in Jobs :
          /\ []<>(j \in tasks /\ status[j] \in Live)
                => []<><<PostPrimary(j)>>_vars
          /\ []<><<PostPrimary(j)>>_vars => []<><<DeliverOf(j)>>_vars

PollingSpec   == Spec /\ PollingFairness
RenderingSpec == PollingSpec /\ RenderingFairness

\* A claim whose daemon has died (or is too slow) does not stay stuck as long
\* as some daemon polls: its job is given to another claim or finishes.
StuckJobsMoveOn == \A j \in Jobs : (j \in Stuck) ~> (j \notin Stuck)

\* Every submitted job finishes if renders succeed now and then, whatever
\* answers get lost, daemons die and requests roll back.
EveryJobFinishes ==
    \A j \in Jobs : (status[j] = "queued") ~> (status[j] \in Finished)
=============================================================================
