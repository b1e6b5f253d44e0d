# SUPER BCS: specifications, model checking and proofs

SUPER BCS turns a prompt into a short video. A browser submits a job to the
API, the API keeps it in PostgreSQL, GPU daemons at home poll the API for work
and post results, and the browser polls until the job is done. This directory
holds TLA+ models of that system, TLC runs on small instances, and proofs
checked by TLAPS.

## 1. The system

| Component | State it keeps | Operations | Talks to |
|---|---|---|---|
| job table (`services/jobs.py`, `db/models.py`) | `superbcs_jobs`: status, worker, claim time, output and extra media, error text, completion, deletion | `claim_next` (requeue stuck jobs, take the oldest queued one), `finalize_variant`, `finalize_failure`, `queue_position`; `finalize_success` has no caller | all endpoints |
| worker endpoints (`api/worker.py`) | none of their own | `GET /worker/claim`, `POST /worker/result`, `POST /worker/heartbeat` | job table, worker registry, media store |
| worker registry (`superbcs_workers`) | last heartbeat, address, capacity, `total_jobs` | upserts at the end of a claim and in a heartbeat | claims, heartbeats |
| submission (`api/public.py: submit_job`) | the open transaction of each request | Turnstile, tier, hourly bucket, daily quota, image, insert, commit | Cloudflare, panel caches, buckets, job table |
| hourly bucket (`services/rate_limit.py`) | `superbcs_rate_limit`: a count by address and hour | atomic upsert, row lock until commit | submissions of one address |
| daily quota (`services/quota.py`) | none: counts jobs of a wallet | count of the last 24 hours | job table |
| polling, deletion, history (`api/public.py`) | none | `GET /jobs/{id}`, `DELETE /jobs/{id}`, `GET /history`, `GET /me` | job table, panel caches |
| media store (`services/storage.py`, `get_media`) | files, `superbcs_media` rows | write before commit, read, sign and verify URLs | submissions, results, browsers |
| panel caches (`services/auth.py`, `services/tiers.py`) | token → wallet and wallet → tier, with expiry | look up, ask the panel, store, evict | the panel |
| request checks (`core/security.py`, `services/safety.py`) | none | client address, bearer, CIDR lists, Turnstile, prompt, image, video | Cloudflare, ffprobe |
| studio page (`SuperBCSPage.tsx`, `Turnstile.tsx`, `api.ts`) | phase, job, timers, Turnstile token; session, quota, tier; token search | generate, poll, reset, sign in, search | API, panel, wallet, session |
| wallet session in the browser (`auth.ts`, `authStore.ts`) | connected wallet; one stored session in localStorage, shared by all tabs | read, mint, store, clear | panel, both pages |
| history page (`SuperBCSHistoryPage.tsx`) | session, items, cursor, requests under way | automatic sign-in, first page, more, delete, reset | API, session |
| tab store (`tabStore.ts`) | tabs, active tab, recent tabs, toast | open, close, pin, move, close others, close all | localStorage, toast |
| share links (`share.ts`) | webhook and key in localStorage, dialogue, toast | share to Discord and Square, close the dialogue | Discord, toast |

External: PostgreSQL (READ COMMITTED), the GPU daemons, the panel, Cloudflare.

### What is hard in it

Every endpoint is a coroutine with a database transaction of its own, and yields
at every `await`; several API processes may run at once. So the unit of
interleaving is the SQL statement, and what holds between two statements of one
request is only what row locks guarantee. Around that: answers lost after a
commit, daemons that die or are merely slow, rollbacks at any point, rows read
without a lock and written later, an hour that ends in the middle of a request,
caches that outlive what they cache, polls answered after the page has moved on.
`PROJECT.json` lists these hazards one by one, at the line where they bite.

What makes each component correct:

- **job table**: a job is handed to one daemon at a time, at least until its
  deadline; finished jobs stay finished; what a poller sees is coherent; every
  job finishes as long as somebody renders it.
- **submission**: the bucket counts exactly the jobs that were created, no
  address exceeds its hour, no wallet its day, nobody waits for ever.
- **media store**: a committed row has its file; a URL works until it expires
  and not longer; deletion hides what it should.
- **panel caches**: no answer older than its time to live is used; the cache is
  bounded.
- **studio page**: what is shown belongs to the job that was last submitted;
  progress shown has something behind it; a token is used once; every submission
  comes to an end; the wallet connected, the one shown and the one whose quota is
  shown are the same. The code keeps the first and the last under conditions only
  (section 2).
- **history page**: the list is the list of one wallet, in order and without
  gaps, again under conditions; what the page says it waits for is under way.
- **tab store**: there is always an active tab among the tabs, home and pinned
  tabs stay, limits hold.

## 2. The modules

| Module | What it is |
|---|---|
| `JobBoard` | abstract specification: jobs wait, are rendered, are over, with a video or an error |
| `JobLifecycle` | the job table under concurrent claims, results, deletions and inserts; implements `JobBoard` |
| `MCJobLifecycle` | symmetry sets for TLC |
| `JobLifecycleProofs` | TLAPS proofs about `JobLifecycle` |
| `Submission` | `POST /jobs` from the bucket upsert to the commit |
| `MCSubmission` | the quota table for TLC |
| `SubmissionProofs` | TLAPS proofs about `Submission` |
| `StudioPage` | generate, polling, the ten minute limit, reset and the bot-check widget |
| `StudioPageProofs` | TLAPS proofs about `StudioPage` |
| `BrowserSession` | what both pages share: the connected wallet and the stored session |
| `StudioAccount` | the studio page's session, quota and tier; extends `BrowserSession` |
| `TokenPicker` | the token search, composed with the account its tier comes from |
| `MCTokenPicker` | two wallets and their tiers for TLC, and the bound on them |
| `TokenPickerProofs` | TLAPS proofs about `TokenPicker` and `StudioAccount` |
| `HistoryPage` | the history page and the two requests of the API it lives on; extends `BrowserSession` |
| `MCHistoryPage` | two wallets and the owners of the jobs for TLC |
| `HistoryPageProofs` | TLAPS proofs about `HistoryPage` |
| `Lists` | `Array.filter` and `ORDER BY` said without recursion, for the modules of the browser |
| `ListsProofs` | TLAPS proofs about `Lists`, cited in `HistoryPageProofs` and `ShellProofs` |
| `Toasts` | the one toast and its timers |
| `TabStore`, `ShareLinks` | the tab strip and the share buttons; both extend `Toasts` |
| `Shell` | tab store and share links composed over the toast they share |
| `MCShell` | paths and ids for TLC |
| `ShellProofs` | TLAPS proofs about `Shell` |

The operators introduced by a comment "Slip" are variants of the definition they
stand before, each with one plausible mistake (a dropped guard, a missing reset,
a count compared too early). No specification uses them; `PROJECT.json` says for
each property which slip violates it.

### JobLifecycle

A variable per column of `superbcs_jobs` holds the **committed** value. The
requests in progress are in slots: `claim[c]` is an open claim transaction
(which rows it has requeued, which job it has taken), `post[p]` a result request
that has read its row, `del[d]` a deletion that has read its row. `tasks` is
the set of jobs a daemon has been handed and may still post for.

| Code | Actions |
|---|---|
| `submit_job`, insert and commit | `Submit` |
| `claim_next`, first UPDATE (jobs.py:33-40) | `ClaimReclaim`, which waits for stuck rows locked by another claim |
| `claim_next`, second UPDATE (jobs.py:42-60) | `ClaimTake`: the oldest row of `Ready`, rows locked by others skipped |
| `claim`, commit and answer (worker.py:58-84) | `ClaimCommit`, `ClaimCommitAnswerLost`, `ClaimNone` (204), `ClaimAbort` (rollback) |
| `post_result`, read and check (worker.py:126-140) | `PostRead` |
| `post_result`, write and commit | `CommitPrimary`, `CommitExtra`, `CommitError`, `PostFail` (400, 422, rollback) |
| `delete_job` | `DeleteRead`, `DeleteCommit` |
| clock, daemons | `Tick`, `WorkerForgets` |

PostgreSQL's part is in three operators. `LockedBy`: the rows a transaction has
updated stay locked until it ends. `Ready`: `FOR UPDATE SKIP LOCKED` sees the
committed queued rows nobody else has locked, and the transaction's own changes.
A write by primary key waits while the row is locked, then overwrites the
columns it sets, whatever they are by then.

Abstractions. A job is its rank in `created_at` order. `claimed_at` is the age
of the claim, in ticks, up to one past the timeout, because it is only compared
with `now - timeout`. The list of extra media is a set: nothing reads its order.
The reading of an upload, its hash and its probing are the time between
`PostRead` and the commit. A single UPDATE by primary key and the COMMIT after
it are one step, so a row is never seen locked by a result or a deletion; such
a lock lasts a round trip, and its only effect would be that a claim passes the
job over once. `duration_ms` and `vram_peak_mb` are set with `completed_at` and
left out. The state `cancelled` is in the enumeration, and nothing sets it;
the same goes for `running`, which the code looks for and never writes.

### JobBoard

`phase`, `video`, `hidden` by job, and five actions: post, assign (give some
jobs back and render one), deliver, fail, hide. The refinement mapping takes
`queued` to waiting, `claimed` and `running` to rendering, and the existence of
an output to `video`. A claim's two UPDATEs become one `Assign` at its commit:
that is the atomicity the docstring of `claim_next` promises. The board also
says what the code does *not* promise: a delivery needs only a job that exists,
because a late result is accepted after its claim is gone (section 3).

### Submission

`pc[r]` is the progress of a request, `caller[r]` its address, wallet, tier and
the hour in which it computed its window, `count` the committed bucket rows. The
uncommitted increment of a request is not a variable: the request that has made
it holds the row lock (`BucketLocked`) and sees `count + 1`.

| Code | Actions |
|---|---|
| `submit_job` up to the upsert (public.py:118-153) | `Begin`: any address, wallet and tier |
| `check_and_increment` | `Bump`: waits for the row lock; over the limit, 429 |
| `daily_quota_state` and the check | `CheckQuota`: committed rows only, no lock |
| image, error, client gone | `Fail`: everything rolled back |
| insert, commit | `Commit` |

The checks before `Begin` refuse without touching a table, so a refused request
is one that never begins. With `Limit = 0` the code skips the upsert, and so do
`Bump` and `Commit`. Time is in hours, `Day` hours are the quota's window, and a
request in flight sees the hour turn at most once (guard of `Tick`): requests
last seconds.

### The pages of the browser

JavaScript runs one callback to its end and yields at every `await`, timer and
event. So an action of these modules is what runs between two of them, together
with the React effects its state changes trigger; a value captured by a closure
before an `await` is kept with the call, and everything else is read when the
action happens. Two clicks, two answers or a click and an answer come in any
order. The pages stay mounted.

**StudioPage**

| Code | Actions |
|---|---|
| `generate` up to its first `await` | `Generate`, for the button and for "Different seed", which are there while the page is not working (`Clickable`) |
| the wallet's signature (`ensureSession`) | `SignEnds`, `SignFails` |
| `getToken`, `submitJob` and the `finally` | `PostStarts`, `TokenTimeout`, `PostFails`, `PostAccepted` |
| `pollJob`: fetch, answer, catch, timer | `ServePoll`, `PollAnswered`, `PollFails`, `PollTimer` |
| `startElapsed`'s interval | `ElapsedTick` |
| `reset` | `Reset` |
| the Turnstile callbacks | `TokenSolved`, `TokenExpires` |
| job table: `claim_next`, `finalize_variant`, `finalize_failure` | `Take`, `Reclaim`, `FinalizeVariant`, `FinalizeFailure` |

`click[c]` is a call of `generate`, `poll[j]` the polling of a job (asking, an
answer on its way, waiting for its timer), `pollRef` the timer kept last:
`stopPolling` stops that one only, and only if it has not fired. `job.shows` is the
job whose answer was written into what the page shows. The job table is reduced to
what a poll can be answered with: once a daemon was handed a job (`handed`), a
result may be written on it in any state, since `post_result` checks the state
when it reads the row and writes later (`JobLifecycle` has the two steps). So a
finished job may fail, a failed or requeued one may finish, and a claim may be
taken back, while the page polls.

`orderly` is a history variable: no two calls of `generate` have overlapped, and no
job was left (by a reset, or by generating again) while the API was being asked
about it. It is set by these causes, before anything can go wrong; a time-out is
not among them. `ShowsItsOwnJob` and `OrderlyTokenIsFresh` need it.
`WorkingIsBacked`, `SpentTokenIsReset` and `SubmissionEnds` hold without it;
`TokenIsOneShot` should not need it, and is refuted.

What the code does and no property forbids: an answer to a poll about a job that was
left is applied to the page as it is by then; and the time-out does not stop the
polling (`SuperBCSPage.tsx:568`), so that a late answer takes the page from the
error back to the job (`:578`), this time without an interval that could end it.
`ShowsItsOwnJob` says of the latter that the job is still the user's own and that its
seconds have run out.

**BrowserSession, StudioAccount, TokenPicker.** A session is the wallet it was
minted for. `asks` holds the bearer of each `getMe` under way, `tierAsks` the
permission requests, with the flag `cancelled` of the effect that made them,
`signing` the wallets asked to sign, `calls` the calls of `generate` with what
their closures know of the session. The signature exchange (nonce, wallet,
panel) is begun and ends or fails as a whole: between its awaits it touches
nothing of the page. Requests of one kind with one bearer are one, and an
answer may leave another of them under way, which stands for any number of them.
`disturbed` is a history variable with two causes. `Interrupts`: the wallet changed
while a `getMe`, a signature or a call of `generate` was under way, or while a quota
was shown without a session. `Foreign`: a session of another wallet than the
connected one got into localStorage, from another tab or because a signature
ended after a change of wallet. After either the card may show one wallet and
another's quota, since `getMe` asks with whatever session is stored and its answer
is used whoever is connected by then. `AccountAgrees` claims that nothing else
brings this about: no order of expiries, failures, sign-ins, tier answers and
quiet changes of wallet. A failed `getMe` removes whatever session is stored by
then (`MeFails`); that it may be a newer one is in the model, and no property
forbids it. The tier of the wallet before stays on the card until the answer for
the new one, or for good if that fails; `WalletTierIsCurrent` is about what is
taken over.

| Code | Actions |
|---|---|
| effects on `walletAddress` | `WalletChanges`, `TierAnswered`, `TierFails` |
| `ensureSession` | `Generate`, `SignEnds`, `SignFails` |
| `refreshMe` and the effect that calls it | `SetSession`, `RefreshMe`, `MeAnswered`, `MeFails` |
| localStorage, expiry (`readStored`) | `OtherTab` |
| search field, its timer, `searchToken`, `pickSearchResult` | `Type`, `SearchToken`, `SearchAnswered`, `PickSearchResult` |

**HistoryPage**

| Code | Actions |
|---|---|
| effects on wallet and session | `WalletChanges` with `SessionAfter`, `NewSession`, `AutoSign` |
| end of the automatic signature | `SignEnds` |
| `loadFirst` | `NewSession` (it starts), `FirstAnswered`, `FirstFails` |
| `onLoadMore` | `OnLoadMore`, `MoreAnswered`, `MoreFails` |
| `onDelete`, `deleteJob`, `delete_job` | `OnDelete`, `DeleteServed`, `DeleteAnswered`, `DeleteFails` |
| `resetSession` | `ResetSession` |
| `get_history` | `Listed`, `Page` |
| `submit_job`, other tabs | `JobMade`, `OtherTab` |

A job is its rank in `created_at` order, so no two jobs have the same instant
and the cursor is a rank; ties at a page boundary are outside the model.
`created_at` is when the transaction of a submission began, so jobs become visible in
any order (`JobMade`), below a cursor too. A list
is what the API has when its answer arrives: a job made or deleted while the
answer travels may as well be made or deleted right after. One order is lost by
this, a list that arrives after the answer to a deletion it does not know of and
shows the deleted job again; a deletion whose answer is lost leaves the same
list, and is in the model. `loadFirst` waits for history and quota together and is one
request. `top` and `orderly` are history variables: what the list could have had
when it was begun; and whether no Load more was under way at that time and each since
was asked for with the list's own session. `ListIsContinuous` is about such lists,
and a list begun later is one again, whatever happened before. An answer to Load
more that arrives after a reload or a reset is appended to whatever is shown
(`SuperBCSHistoryPage.tsx:132`), and one asked for after another tab has stored
another session brings that wallet's jobs: the model has both. It also has what
follows from the effect on a change of wallet leaving the list as it was
(`:56-66`): with a session for the new wallet in localStorage the old wallet's list
is shown under it until its own arrives.
`retrySignature` is not in `Next`: its button is
shown only when `RetryShown`, which never holds (`RetryNeverShown`, proved).

**Toasts, TabStore, ShareLinks, Shell.** Every operation of the tab store is one
synchronous update, so each is one action (`OpenTab` in its three outcomes,
`CloseTab`, `SetActiveTab`, `TogglePin`, `MoveTab`, `CloseOthers`, `CloseAll`). A tab
is its path and flags; ids come from `IdOf`, because two paths may have one id.
`Say` sets the toast and starts a timer, `ClearToast` is the oldest timer firing:
all timers have the same delay. `ShareToDiscord`, `DiscordAnswers`, `DiscordRefuses`
and `ShareToSquare` are the share buttons, used by the history page; the
dialogue that stores what the user enters (`EnterHook`, `EnterKey`) belongs to
the parent application, and so do the callers of `openTab`: that no path but `/`
has the id "home" is assumed of them (`TabAssumption`). A page `/home` would share
the home tab's id, and be found, closed and pinned in its place.

**Lists.** `Keep(s, I)` is `Array.filter`, said by the positions that are kept, and
`Descending(S)` is `ORDER BY created_at DESC`; both go by rank (`Nth(S, k)`, the k-th
smallest number of a set). The library's `SelectSeq` and `SetToSortSeq` are
recursive, and nothing could be proved of what is built with them. That the
operators here compute the same is an `ASSUME` of `MCShell` and of `MCHistoryPage`,
which TLC evaluates for all short sequences and small sets.

## 3. The runs

Each `.cfg` is one question.

| Run | Instance | What it shows |
|---|---|---|
| `JobClaims` | 2 jobs, 2 daemons, 2 claims, 1 result, 1 deletion, 1 extra, stuck after 1 tick | two daemons polling at once, with stuck jobs to requeue, lost answers, rollbacks and late results, never claim a job twice nor before its deadline; open transactions stay valid; final states are final, finished rows complete; the board is implemented |
| `JobLiveness` | 2 jobs, 1 daemon, 2 claims, 1 result | stuck claims move on, every job finishes |
| `PrimaryLate` | 1 job, 2 daemons, 2 claims, 2 results | **violated**: the primary variant lands on a job that is not claimed any more |
| `ExtrasLost` | 1 job, 2 results | **violated**: of two extra variants posted at once, one is lost |
| `Submission` | 3 requests, 1 address, 1 wallet and anonymous callers, 2 tiers, limit 2, 3 hours | the bucket counts what was accepted, limits hold, nobody waits for ever |
| `QuotaRace` | 2 requests of one wallet and address, 2 hours | **violated**: the daily quota is passed at the turn of the hour |
| `Shell` | 5 paths, two with one id, one a new-tab page; 3 tabs, 2 recent ones, 2 timers, 1 webhook | there is always a page to show; the strip is bounded; home and pinned tabs stay; the pin limit is never met; every toast has its timer |
| `StudioPage` | 2 calls of `generate`, 2 accepted jobs, limit 1 second | progress shown is backed; an orderly user sees the job submitted last, past its time-out too; a spent token is reset, a fresh one is used; every submission comes to an end on the page |
| `TokenReuse` | 2 calls of `generate`, 1 accepted job | **violated**: two submissions carry the same bot-check token |
| `StudioAccount` | a PRIME and a FREE wallet, 2 texts to search for and 2 too short | undisturbed, one wallet and its own quota are shown; only the current tier is taken over; the quota goes only where the page says so; the search indicator is not left on, and the list is for the text unless that changed during a search |
| `History` | 2 wallets, 4 jobs, pages of 1, 2 calls of `loadFirst`, 1 deletion | a list begun with no Load more under way is one wallet's, in order, without gaps; the loading sign and a disabled delete button stand for requests under way; the retry button never appears |
| `HistoryAutosign` | as `History` | **violated**: "Waiting for signature" is shown though none is under way |

### The five disagreements

1. `worker.py:130` says that the primary variant may only be posted while the job
   is claimed or running. The code checks the row when it reads it and writes by
   primary key after the upload has been read and probed. Two results of
   one job in flight, or a reclaim in between, and the second write lands on a
   job that is done, failed or queued again.
2. `jobs.py:109` says that an extra variant is appended to the list. The code
   writes back the list it read, so that of two extras in flight the later
   commit removes the earlier one's.
3. `docs/security.md:53-57` says that the per-address bucket serialises what the
   quota count does not. It does within an hour (`QuotaWithinBucket` holds and is
   proved). Two requests on either side of the hour lock different rows.
4. `SuperBCSPage.tsx:635` says that Turnstile tokens are one-shot and resets the
   widget after each attempt. `generate` awaits the wallet's signature before the
   page is in a phase that takes the button away, and `getToken` leaves the token
   where it is; two clicks before the signature ends are two submissions, and
   both may take the token before either ends. With calls that do not overlap
   each takes a fresh one (`OrderlyTokenIsFresh`, proved).
5. `SuperBCSHistoryPage.tsx:224-228` tells the user that the page waits for the
   signature. The effect that asks for it (`:68-89`) depends on the busy
   flag it sets; React runs its cleanup, which cancels the request that has just
   begun. The signed session is stored, but neither used nor is the flag
   set back, and the page waits for ever. Opening the page again gets out of it,
   as does, when the signature was given, disconnecting and connecting the
   wallet, which reads the stored session.

### Bounds, and why they are enough

Two claim slots give every overlap of two transactions; a third claim could only
wait for or skip rows like the second. Two jobs give a claim one row to
requeue and another to take, and give "oldest" a meaning. One result at a time
is enough where results race claims (`JobClaims`), since what one leaves is what
the next finds; two that overlap are in `PrimaryLate` and `ExtrasLost`, and the
proofs are for any number. With `Timeout = 0` a claim is within its deadline until the
next tick and past it from then on, and an uncommitted claim can grow stuck before it commits. Media
ids only have to be fresh; in `JobClaims` there is one fewer than two full
rows would mention, so that the second extra variant of two finished jobs is not posted there.
`MaxExtras` bounds the list of extra variants. Three requests for a limit of two
let one be refused, and three hours let one turn of the hour lie within the
quota's window and another beyond it. The passing runs between them take every
action of every module.

Two calls of `generate` are what two clicks make; the page is not working between
them, so a third would find what the second found. Two accepted jobs let an
answer for the first come while the second is shown. A limit of one second has the
interval fire once below it and once at it. Three tabs are the least that
hold home, a pinned tab and one to give up; five paths give two that share an
id, a new-tab page and one more than fits. Two timers let a toast be replaced
while its timer runs; `MaxTimers` bounds them, since clicks are faster than three
seconds at will. Two wallets are a wallet and the next. Two texts to search for let
two different searches overlap and end in either order; `SearchEnds` lets two for
one text do so. While the picker is in use only the first wallet occurs
(`MCNext`): the picker reads nothing of the account but the tier, which still comes
and goes with session and answers. Pages of one job make every list of
two have a boundary. Of four jobs three are the first wallet's, and any one of the
four is not visible at first: two of the three make a cursor, and the third
becomes visible above, between or below them, or the second wallet's does.
One deletion (`MaxDeletes`) shifts the pages the other way.

Symmetry is used for interchangeable slots, daemons and media ids and only for
safety and for the refinement of a safety specification (in `History`, for the two
slots of `loadFirst`); `JobLiveness` and
`Submission` (which has a liveness property) use none. `JobLifecycle` never
deadlocks, for the clock ticks. In `Submission` the system does stop: each
request is made once and the clock ends at `MaxHour`, so that deadlock is
not checked there.

### Fairness

`PollingSpec`: time passes, daemons keep polling (their main loop), a claim
request that keeps being able to proceed does so, even if some fail. Strong
fairness is needed for its later steps, since a claim may be rolled back and
begun again for ever; it says that not every claim is aborted. `RenderingSpec`
adds that no upload hangs for ever (it commits or fails), that a daemon handed a
job again and again posts the primary variant again and again, and that not all
of these posts fail. Nothing in the API can promise the latter; it is what
"the render works now and then" means, and without it a job is requeued for ever
(`retry_count` exists, but nothing counts it). `FairSpec` of `Submission` says that a
request that can go on does, and that PostgreSQL grants a free row lock.
It does not assume that a request is lucky: with three requests of one
address, weak fairness suffices, because a request ends after it has had the
row once.

`FairSpec` of `StudioPage`: the wait for a token ends, with a token or after its
ten seconds (`getToken`'s loop), a post is answered or fails, and the interval
fires while it runs. Nothing is assumed of answers to polls, of daemons or of the
user. `SubmissionEnds` holds because a call that is not accepted gives up, and an
accepted one starts the interval, which gives up after its time whatever else
goes on; overlapping calls make no difference. It says that a result or an error is
shown at some time, not that it stays. The other modules of the
browser have safety properties only.

## 4. The proofs

Everything below is proved for all values of the constants, under the named
assumptions in the modules (nulls are not values, limits are naturals, the set of
requests is finite).

**JobLifecycleProofs.** `LifecycleInv` is inductive: types, what a
claim slot holds at each stage (`ClaimSlots`), that daemons and requests only
name jobs that exist (`OnlySubmittedJobs`), and the four safety invariants of the
runs. These are not inductive one by one. That a claim commits only what is
still true (`OpenClaimStaysValid`) rests on nobody else writing its rows
meanwhile, which is `NoRowClaimedTwice` for other claims and the lock guards for
results and deletions; `NoRowClaimedTwice` in turn rests on `Ready` and
`ClaimReclaim` avoiding locked rows; and `ClaimColumnsAgree` needs both at a
commit. `OnlySubmittedJobs` is there for the refinement: a delivery or a deletion
is a step of the board only for a job that has been submitted. There is
one lemma per handler (`ClaimTakeInv`, `PublishInv`, `PostCommitInv`, `TickInv`,
...). The action properties `FinishedStaysFinished` and `ClaimKeptUntilTimeout`
follow from a lemma on what one step does to one row (`RowStep`), and
`Refinement` maps each step to a step of the board or a stutter.

**SubmissionProofs.** `SubmissionInv` strengthens the bucket count and the
quota with `HoldersFit`: two requests that hold the same bucket row do not exist,
the holder fits under the limit, and once it has passed the quota check its
wallet's jobs *in this bucket* stay below the quota, because no other request
can add one while it holds the row. `BeganLately` ties the quota's window to the
bucket's hour: the jobs of the bucket are among those the quota counted.
`BucketCountsAccepted`, `HourlyLimit` and `QuotaWithinBucket` follow.

**StudioPageProofs.** `PageInv` adds to the properties that a job polled or handed to
a daemon has been accepted (`Accepted`), and `OneThingAtATime` for orderly users: at
most one call is under way, a call waits for a token or an answer only in the phase
"submitting", a polling is alive only while the page shows progress or an error, with
the seconds running or run out, and a polling that waits is the one whose timer is
kept. `ShowsItsOwnJob` is not inductive without these: that leaving a job ends its
polling needs that it is not being asked about, and that `stopPolling` finds its timer
(`NothingLeft`). Nothing is assumed of the order in which the API's statuses
change. `StoppedPolls` says what `stopPolling` does to the pollings, for any number
of them.

**TokenPickerProofs.** The account and the picker have invariants apart
(`AccountInv`, `PickerInv`), since a step of one leaves the other's variables
alone (`StepsOfTheParts`). `Undisturbed` strengthens `AccountAgrees`: until one of the
two causes, every `getMe` and signature under way is about the connected wallet, or
about the session while none is connected, and the stored session is the one in use;
`QuietChange` is the lemma on a change of wallet that interrupts nothing.
`AskIsCurrent` (the permission request that was not
cancelled is for the connected wallet) gives `WalletTierIsCurrent`;
`SearchIsForTheText` (timer and searches are for the text in the field) gives
`ResultsAreForTheText`.

**ListsProofs.** `RanksAreOrdered` and `NthIsOrdered` (by a bijection of a finite set
with an interval, whose ranks are distinct) say that `Nth` counts a set of numbers in
order; from them `KeepIsFilter` (a filter keeps the elements at the positions given,
all of them, in their order, and is shorter when one is left out) and
`DescendingIsSorted`.

**HistoryPageProofs.** `SignedMeansBusy`: whoever was asked to sign once is believed
to be signing, because nothing sets `authBusy` back. Together with
`SessionIsTheWallets` it gives `RetryNeverShown`.

For the list, `ListInv`. That the list is continuous is not inductive: the next page
is asked for from the cursor and says nothing of what is above it. So `Whole` adds
that no job of the list lies below the cursor, and `MoreFollows` that a call of
`onLoadMore` has asked with the session of the list and from where it ends. One lemma on
the API (`PageOfList`: a page is sorted, and leaves out nothing between its first job
and the cursor it returns) gives one on each of what happens to a list: begun
(`FirstIsWhole`), continued (`MoreIsWhole`), a job deleted (`LessIsWhole`). The last
needs `DeletionsAreTrue`, that the page only takes out what the API has deleted: a
deletion is confirmed to a list that may have been begun again since. All steps that
leave the list alone are one lemma (`ListStays`). `ListIsContinuous` follows, under its
condition, for any number of jobs, page size and requests under way, whatever the
order in which jobs become visible, and so does `TypeOK`. `WaitsForRequests` covers
the loading sign and the delete button, not the sign that a signature is waited
for, which `HistoryAutosign` refutes.

**ShellProofs.** Each action of tab store and share links sets a toast with its
timer or leaves toast and timers alone (`ToastStep`); `ToastHasTimer` is inductive for
such steps, for any number of timers.

For the tab strip, `TabInv`. The properties depend on each other: that the home tab
stays needs that no other tab has its path and that it is the only one that cannot be
closed, since `find` and `filter` go by id; that there is always an active tab needs the
home tab, for the last tab left becomes active; that the pin limit is never met
needs that the home tab is not pinned and that the strip is bounded
(`PinnedAreFew`); and that the strip is bounded needs that the tab given up is in the
strip, so that the filter makes it shorter (`KeepIsFilter`). Each operation has a
lemma, `PinnedStays` is a lemma on one step (`TabStep`), and `TypeOK` adds the list of
recent tabs.

Only model-checked: the liveness properties (`EveryJobFinishes`, `StuckJobsMoveOn`,
`EveryRequestIsAnswered`, `SubmissionEnds`), since TLAPS has no support for `ENABLED` and
the fairness that would carry these arguments. Every safety property and every action property of the
passing runs is proved, as is the refinement of the job board.

## 5. What is not modelled, and the plan

Not yet modelled, in the order planned:

1. `WorkerRegistry`: the worker upsert at the end of a claim and the heartbeat
   on one row; lost increments of `total_jobs`, the duplicate INSERT of a new
   worker, composed with the claims of `JobLifecycle`.
2. `MediaStore`: files, media rows and signed URLs over the same commits and
   rollbacks; a committed row has its file, files without rows, expiry, the
   legacy key, deletion. Abstract specification: who may read what, until when.
3. `PanelCache`: look-up, panel call and store with the lock released between;
   bounded staleness, eviction, revoked tokens. One module for both caches.
4. Ownership in `GET /jobs/{id}`, `client_ip` and the CIDR lists as operators.

Theorems planned besides: the composition of claims and registry still
implements the job board; and the other side of the disagreements of section 3: an
extra variant is lost, and a primary one lands on a job not claimed, only when two
requests for the job overlap.

Left out for good. On the pages: the prompt put together from preset and text,
the choice of preset, seed and image, prices and their interval, the prefill from
the address: they are inputs of one submission and no state the rest reads. The
clamp of the token to the tier has nothing to do, for every token of the list is
free. Error texts, drawing and styles. `authStore`'s `token`, `connecting` and
`error`, which nothing reads. On the server: content checks (`safety.py`: Pillow
and ffprobe on bytes, no state), schemas, settings, logging, routing, request
ids and error shapes (`main.py`), health probes, migrations.

## 6. Running it

    tlc -workers 2 -config JobClaims.cfg MCJobLifecycle
    tlc -workers 2 -config JobLiveness.cfg MCJobLifecycle
    tlc -workers 2 -config PrimaryLate.cfg MCJobLifecycle
    tlc -workers 2 -config ExtrasLost.cfg MCJobLifecycle
    tlc -workers 2 -config Submission.cfg MCSubmission
    tlc -workers 2 -config QuotaRace.cfg MCSubmission
    tlc -workers 2 -config Shell.cfg MCShell
    tlc -workers 2 -config StudioPage.cfg StudioPage
    tlc -workers 2 -config TokenReuse.cfg StudioPage
    tlc -workers 2 -config StudioAccount.cfg MCTokenPicker
    tlc -workers 2 -config History.cfg MCHistoryPage
    tlc -workers 2 -config HistoryAutosign.cfg MCHistoryPage
    tlapm JobLifecycleProofs.tla     (and the six other *Proofs.tla)

Distinct states: `JobClaims` 791,000, `StudioAccount` 706,000, `StudioPage`
1,350,000, `History` 2,821,000, `Shell` 537,000. `JobClaims`, `StudioPage` and `History`
take two minutes, `JobLiveness` one, the others less. The proofs take a few
minutes in all.
