----------------------------- MODULE StudioPage -----------------------------
(***************************************************************************)
(* The submission flow of the studio page (SuperBCSPage.tsx): a click on   *)
(* Generate signs in if it must, takes a bot-check token, posts the job,   *)
(* polls it until it is over, and gives up after ten minutes; the result   *)
(* can be reset or generated again.                                        *)
(*                                                                         *)
(* JavaScript runs one callback at a time and yields at every await, so an *)
(* action is what runs between two awaits.  A state update is visible to   *)
(* the next callback.  The page stays open, a wallet stays connected and   *)
(* the inputs are acceptable to generate.                                  *)
(***************************************************************************)
EXTENDS Naturals, FiniteSets

CONSTANTS
    Clicks,     \* slots for calls of generate that are under way
    MaxJobs,    \* bound of the model: jobs the server accepts
    Limit       \* 600, the seconds after which the page gives up

ASSUME StudioAssumption == MaxJobs \in Nat /\ Limit \in Nat

Jobs  == 1 .. MaxJobs
NoJob == [id |-> 0, shows |-> 0, set |-> FALSE]

VARIABLES
    phase, job, \* what the page shows; id 0 is a failed submission, and shows
                \* the job whose state the last answer brought (0: none)
    elapsed, ticking,   \* the seconds, and whether their interval runs
    poll,       \* the polling of each job, see Polls
    pollRef,    \* the job whose polling armed the timer kept last, or 0
    click,      \* where each call of generate is
    token,      \* the widget's token: "none", "fresh", or "taken" by a post
    server,     \* the status of each job at the API
    handed,     \* the jobs some daemon was ever handed
    orderly     \* history: so far no two calls of generate overlapped and no job
                \* was left while the API was being asked about it

pageVars == <<phase, job, elapsed, ticking, poll, pollRef, click>>
vars == <<pageVars, token, server, handed, orderly>>

Statuses == {"queued", "claimed", "running", "done", "error"}
Working  == phase \in {"submitting", "queued", "claimed", "running"}

\* A polling asks, then has an answer (a status) on its way, then waits for
\* its timer, and so on until it has ended.
Answers == Statuses
Polls   == {"none", "asking", "waiting", "ended"} \cup Answers
Alive   == {j \in Jobs : poll[j] \notin {"none", "ended"}}

Init ==
    /\ phase = "idle" /\ job = NoJob
    /\ elapsed = 0 /\ ticking = FALSE
    /\ poll = [j \in Jobs |-> "none"] /\ pollRef = 0
    /\ click = [c \in Clicks |-> "idle"]
    /\ token = "none"
    /\ server = [j \in Jobs |-> "none"] /\ handed = {}
    /\ orderly = TRUE

-----------------------------------------------------------------------------
(* Helpers.                                                                *)

\* Slip: stopPolling forgets the timer without clearing it.
NotStopped(p) == p

\* stopPolling: only a timer that has not fired yet can be stopped.
Stopped(p) == [j \in Jobs |-> IF j = pollRef /\ p[j] = "waiting" THEN "ended" ELSE p[j]]

\* No polling waits for an answer.
Unasked == \A j \in Jobs : poll[j] \notin {"asking"} \cup Answers

PhaseFromStatus(s) == IF s \in {"queued", "claimed", "running", "done"} THEN s ELSE "error"

Failed == [id |-> 0, shows |-> 0, set |-> TRUE]

\* Slip: the token is reset after an accepted submission only.
ResetAccepted(accepted) == token' = IF accepted THEN "none" ELSE token

\* The finally of generate: the widget starts a new challenge.
ResetToken(accepted) == token' = "none"

-----------------------------------------------------------------------------
(* Generate.                                                               *)

\* The first await is over: the call leaves the old job behind.
Submitting(c) ==
    /\ click' = [click EXCEPT ![c] = "token"]
    /\ poll' = Stopped(poll) /\ pollRef' = 0
    /\ ticking' = FALSE
    /\ phase' = "submitting" /\ job' = NoJob
    /\ UNCHANGED <<elapsed, token, server, handed>>

\* The Generate button, or the button that generates with a new seed, which
\* is shown with a result.
Clickable(c) == click[c] = "idle" /\ ~Working

\* A call of generate goes straight on if a session of the wallet is stored,
\* which StudioAccount models, and asks for a signature otherwise.  None is
\* stored while an earlier call still asks.
Generate(c) ==
    /\ Clickable(c)
    /\ LET alone == \A d \in Clicks : click[d] = "idle"
       IN  \/ /\ \A d \in Clicks : click[d] # "signing"
              /\ Submitting(c)
              /\ orderly' = (orderly /\ alone /\ Unasked)
           \/ /\ click' = [click EXCEPT ![c] = "signing"]
              /\ orderly' = (orderly /\ alone)
              /\ UNCHANGED <<phase, job, elapsed, ticking, poll, pollRef,
                             token, server, handed>>

SignEnds(c) ==
    /\ click[c] = "signing"
    /\ Submitting(c)
    /\ orderly' = (orderly /\ Unasked)

\* Rejected or failed: generate bails.
SignFails(c) ==
    /\ click[c] = "signing"
    /\ click' = [click EXCEPT ![c] = "idle"]
    /\ UNCHANGED <<phase, job, elapsed, ticking, poll, pollRef,
                   token, server, handed, orderly>>

PostStarts(c) ==
    /\ click[c] = "token" /\ token # "none"
    /\ click' = [click EXCEPT ![c] = "posting"]
    /\ token' = "taken"
    /\ UNCHANGED <<phase, job, elapsed, ticking, poll, pollRef, server, handed, orderly>>

\* The end of a call that did not get its job accepted.
GiveUp(c) ==
    /\ click' = [click EXCEPT ![c] = "idle"]
    /\ phase' = "error" /\ job' = Failed
    /\ ResetToken(FALSE)
    /\ UNCHANGED <<elapsed, ticking, poll, pollRef, server, handed, orderly>>

\* No token came in time.
TokenTimeout(c) == click[c] = "token" /\ token = "none" /\ GiveUp(c)

\* Refused, or the answer was lost.
PostFails(c) == click[c] = "posting" /\ GiveUp(c)

PostAccepted(c) ==
    /\ click[c] = "posting"
    /\ \E j \in Jobs :
          /\ server[j] = "none" /\ \A k \in 1 .. (j - 1) : server[k] # "none"
          /\ server' = [server EXCEPT ![j] = "queued"]
          /\ job' = [id |-> j, shows |-> 0, set |-> TRUE]
          /\ poll' = [poll EXCEPT ![j] = "asking"]
    /\ click' = [click EXCEPT ![c] = "idle"]
    /\ phase' = "queued"
    /\ elapsed' = 0 /\ ticking' = TRUE
    /\ ResetToken(TRUE)
    /\ UNCHANGED <<pollRef, handed, orderly>>

-----------------------------------------------------------------------------
(* Polling.                                                                *)

ServePoll(j) ==
    /\ poll[j] = "asking"
    /\ poll' = [poll EXCEPT ![j] = server[j]]
    /\ UNCHANGED <<phase, job, elapsed, ticking, pollRef, click,
                   token, server, handed, orderly>>

\* An answer arrives, for whatever job the page shows by now.
PollAnswered(j) ==
    /\ poll[j] \in Answers
    /\ job' = IF job.set THEN [job EXCEPT !.shows = j] ELSE job
    /\ phase' = PhaseFromStatus(poll[j])
    /\ IF PhaseFromStatus(poll[j]) \in {"done", "error"}
       THEN /\ poll' = [Stopped(poll) EXCEPT ![j] = "ended"]
            /\ pollRef' = 0 /\ ticking' = FALSE
       ELSE /\ poll' = [poll EXCEPT ![j] = "waiting"]
            /\ pollRef' = j /\ UNCHANGED ticking
    /\ UNCHANGED <<elapsed, click, token, server, handed, orderly>>

\* Slip: a failed poll is not tried again.
PollGivesUp(j) ==
    /\ poll[j] \in Answers \cup {"asking"}
    /\ poll' = [poll EXCEPT ![j] = "ended"]
    /\ UNCHANGED <<phase, job, elapsed, ticking, pollRef, click,
                   token, server, handed, orderly>>

\* The network fails, or the API no longer knows the caller: try later.
PollFails(j) ==
    /\ poll[j] \in Answers \cup {"asking"}
    /\ poll' = [poll EXCEPT ![j] = "waiting"] /\ pollRef' = j
    /\ UNCHANGED <<phase, job, elapsed, ticking, click, token, server, handed, orderly>>

PollTimer(j) ==
    /\ poll[j] = "waiting"
    /\ poll' = [poll EXCEPT ![j] = "asking"]
    /\ UNCHANGED <<phase, job, elapsed, ticking, pollRef, click,
                   token, server, handed, orderly>>

\* Slip: the limit is passed by one.
TickPast ==
    /\ ticking
    /\ IF elapsed > Limit
       THEN phase' = "error" /\ ticking' = FALSE /\ UNCHANGED elapsed
       ELSE elapsed' = elapsed + 1 /\ UNCHANGED <<phase, ticking>>
    /\ UNCHANGED <<job, poll, pollRef, click, token, server, handed, orderly>>

\* Slip: the seconds go on when the limit is reached.
TickForever ==
    /\ ticking
    /\ elapsed' = IF elapsed >= Limit THEN elapsed ELSE elapsed + 1
    /\ UNCHANGED <<phase, job, ticking, poll, pollRef, click,
                   token, server, handed, orderly>>

ElapsedTick ==
    /\ ticking
    /\ IF elapsed >= Limit
       THEN phase' = "error" /\ ticking' = FALSE /\ UNCHANGED elapsed
       ELSE elapsed' = elapsed + 1 /\ UNCHANGED <<phase, ticking>>
    /\ UNCHANGED <<job, poll, pollRef, click, token, server, handed, orderly>>

ResultShown == phase = "done" /\ job.set
ErrorShown  == phase = "error"

\* The reset button, shown with a result or an error.
Reset ==
    /\ ResultShown \/ ErrorShown
    /\ poll' = Stopped(poll) /\ pollRef' = 0
    /\ ticking' = FALSE /\ elapsed' = 0
    /\ phase' = "idle" /\ job' = NoJob
    /\ orderly' = (orderly /\ Unasked)
    /\ UNCHANGED <<click, token, server, handed>>

-----------------------------------------------------------------------------
(* The surroundings.                                                       *)

\* The widget's callback.
TokenSolved ==
    /\ token = "none"
    /\ token' = "fresh"
    /\ UNCHANGED <<pageVars, server, handed, orderly>>

\* Its error and expired callbacks.
TokenExpires ==
    /\ token # "none"
    /\ token' = "none"
    /\ UNCHANGED <<pageVars, server, handed, orderly>>

\* A daemon is handed the job.
Take(j) ==
    /\ server[j] = "queued"
    /\ server' = [server EXCEPT ![j] = "claimed"] /\ handed' = handed \cup {j}
    /\ UNCHANGED <<pageVars, token, orderly>>

\* A claim that is too old is taken back.
Reclaim(j) ==
    /\ server[j] = "claimed"
    /\ server' = [server EXCEPT ![j] = "queued"]
    /\ UNCHANGED <<pageVars, token, handed, orderly>>

\* A result is written.  The job was claimed when the request read it, and may
\* have any status by the time it writes: JobLifecycle models the two steps.
FinalizeVariant(j) ==
    /\ j \in handed
    /\ server' = [server EXCEPT ![j] = "done"]
    /\ UNCHANGED <<pageVars, token, handed, orderly>>

FinalizeFailure(j) ==
    /\ j \in handed
    /\ server' = [server EXCEPT ![j] = "error"]
    /\ UNCHANGED <<pageVars, token, handed, orderly>>

Call(c) ==
    \/ Generate(c) \/ SignEnds(c) \/ SignFails(c) \/ PostStarts(c)
    \/ TokenTimeout(c) \/ PostFails(c) \/ PostAccepted(c)

Polling(j) ==
    ServePoll(j) \/ PollAnswered(j) \/ PollFails(j) \/ PollTimer(j)

Daemon(j) == Take(j) \/ Reclaim(j) \/ FinalizeVariant(j) \/ FinalizeFailure(j)

Next ==
    \/ \E c \in Clicks : Call(c)
    \/ \E j \in Jobs : Polling(j) \/ Daemon(j)
    \/ ElapsedTick \/ Reset
    \/ TokenSolved \/ TokenExpires

Spec == Init /\ [][Next]_vars

\* The wait for a token ends within its time, a post is answered or fails, and
\* the interval runs.  Nothing is assumed of the API, the daemons or the user.
Fairness ==
    /\ \A c \in Clicks : /\ WF_vars(PostStarts(c) \/ TokenTimeout(c))
                         /\ WF_vars(PostFails(c) \/ PostAccepted(c))
    /\ WF_vars(ElapsedTick)

FairSpec == Spec /\ Fairness

-----------------------------------------------------------------------------
(* Properties.                                                             *)

TypeOK ==
    /\ ticking \in BOOLEAN /\ orderly \in BOOLEAN
    /\ phase \in {"idle", "submitting"} \cup Statuses
    /\ job \in [id : 0 .. MaxJobs, shows : 0 .. MaxJobs, set : BOOLEAN]
    /\ elapsed \in 0 .. Limit
    /\ poll \in [Jobs -> Polls]
    /\ pollRef \in 0 .. MaxJobs
    /\ click \in [Clicks -> {"idle", "signing", "token", "posting"}]
    /\ token \in {"none", "fresh", "taken"}
    /\ server \in [Jobs -> {"none"} \cup Statuses] /\ handed \subseteq Jobs

\* The page never shows progress with nothing behind it: whatever clicks and
\* answers overlap, while it shows "submitting" a call of generate is under
\* way, and while it shows a job in progress some polling is alive.
WorkingIsBacked ==
    /\ phase = "submitting" => \E c \in Clicks : click[c] \in {"token", "posting"}
    /\ phase \in {"queued", "claimed", "running"} => Alive # {}

\* As long as calls of generate do not overlap and no job is left while the API
\* is being asked about it, only the job shown is polled, also after it timed
\* out; the answers shown are its own; while it is in progress the seconds run
\* or have run out; and a result shown is an accepted job's and came with an
\* answer about that job.  It may change at the API afterwards, unseen.  (The
\* code does apply the answer about a job that was left: the condition says so.)
ShowsItsOwnJob ==
    orderly => /\ Alive \subseteq {job.id}
               /\ job.shows \in {0, job.id}
               /\ phase \in {"queued", "claimed", "running"} => ticking \/ elapsed >= Limit
               /\ phase = "done" => job.set /\ job.id # 0 /\ job.shows = job.id

\* A token that a post has taken stays in the widget no longer than posts are
\* under way: every end of a submission resets it, however it ends.
SpentTokenIsReset ==
    token = "taken" => \E c \in Clicks : click[c] = "posting"

\* One call of generate at a time takes a token nobody has used.
OrderlyTokenIsFresh ==
    [][\A c \in Clicks : orderly /\ click[c] = "token" /\ click'[c] = "posting"
                         => token = "fresh"]_vars

\* Whatever overlaps, a submission comes to an end on the page: it shows a
\* result or an error at some time, even when neither the API nor a daemon ever
\* answers.  Not claimed is that it stays there: the time-out does not stop the
\* polling, and a late answer takes the page back to the job.
SubmissionEnds == phase = "submitting" ~> phase \in {"done", "error"}

\* "Turnstile tokens are one-shot": no two submissions carry the same token.
TokenIsOneShot ==
    [][\A c \in Clicks : click[c] = "token" /\ click'[c] = "posting"
                         => token = "fresh"]_vars
=============================================================================
