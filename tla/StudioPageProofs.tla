-------------------------- MODULE StudioPageProofs --------------------------
(***************************************************************************)
(* Proofs about StudioPage, for any number of calls of generate and of     *)
(* accepted jobs and any time limit.                                       *)
(***************************************************************************)
EXTENDS StudioPage, TLAPS

InProgress == {"queued", "claimed", "running"}

\* A job that was polled or handed to a daemon has been accepted.
Accepted == \A j \in Jobs : poll[j] # "none" \/ j \in handed => server[j] # "none"

\* What holds as long as the calls of generate do not overlap and no job is left
\* while the API is asked about it: the page is either in a call, or it polls the
\* job it shows, until its seconds run out or beyond.
OneThingAtATime ==
    /\ \A c, d \in Clicks : click[c] # "idle" /\ click[d] # "idle" => c = d
    /\ \A c \in Clicks : click[c] \in {"token", "posting"} => phase = "submitting"
    /\ Alive # {} => /\ phase \in InProgress \cup {"error"}
                     /\ job.set /\ (ticking \/ elapsed >= Limit)
    /\ ticking => phase \in InProgress
    /\ \A j \in Jobs : poll[j] = "waiting" => pollRef = j

PageInv ==
    /\ TypeOK
    /\ WorkingIsBacked
    /\ SpentTokenIsReset
    /\ Accepted
    /\ orderly => OneThingAtATime
    /\ ShowsItsOwnJob

LEMMA InitInv == Init => PageInv
<1> SUFFICES ASSUME Init PROVE PageInv
  OBVIOUS
<1> USE StudioAssumption DEF Init, NoJob, Jobs
<1>1. TypeOK
  <2>1. job \in [id : 0 .. MaxJobs, shows : 0 .. MaxJobs, set : BOOLEAN]
    OBVIOUS
  <2>2. elapsed \in 0 .. Limit /\ pollRef \in 0 .. MaxJobs
    OBVIOUS
  <2>3. poll \in [Jobs -> Polls] /\ server \in [Jobs -> {"none"} \cup Statuses]
    BY DEF Polls
  <2>4. QED
    BY <2>1, <2>2, <2>3 DEF TypeOK
<1>2. WorkingIsBacked /\ SpentTokenIsReset /\ Accepted
  BY DEF WorkingIsBacked, SpentTokenIsReset, Accepted
<1>3. Alive = {}
  BY DEF Alive
<1>4. OneThingAtATime /\ ShowsItsOwnJob
  BY <1>3 DEF OneThingAtATime, ShowsItsOwnJob, InProgress, Working
<1>5. QED
  BY <1>1, <1>2, <1>4 DEF PageInv

-----------------------------------------------------------------------------
(* Stopping the polling.                                                   *)

\* stopPolling revives nothing and leaves what is not waiting as it was.
LEMMA StoppedPolls ==
    ASSUME poll \in [Jobs -> Polls]
    PROVE  /\ Stopped(poll) \in [Jobs -> Polls]
           /\ \A j \in Jobs : Stopped(poll)[j] # poll[j] =>
                  poll[j] = "waiting" /\ Stopped(poll)[j] = "ended"
BY DEF Stopped, Polls

\* An orderly page that does not wait for an answer has nothing left to stop.
LEMMA NothingLeft ==
    ASSUME PageInv, orderly, Unasked
    PROVE  \A j \in Jobs : Stopped(poll)[j] \in {"none", "ended"}
<1> SUFFICES ASSUME NEW j \in Jobs PROVE Stopped(poll)[j] \in {"none", "ended"}
  OBVIOUS
<1>1. poll \in [Jobs -> Polls] /\ poll[j] \in {"none", "ended", "waiting"}
  BY DEF PageInv, TypeOK, Unasked, Polls
<1>2. poll[j] = "waiting" => pollRef = j
  BY DEF PageInv, OneThingAtATime
<1>3. QED
  BY <1>1, <1>2 DEF Stopped

\* The part of generate that leaves the old job behind.
LEMMA SubmittingInv ==
    ASSUME PageInv, NEW c \in Clicks, Submitting(c),
           click[c] \in {"idle", "signing"},
           orderly' => orderly /\ Unasked /\ \A d \in Clicks : click[d] # "idle" => d = c,
           orderly' \in BOOLEAN
    PROVE  PageInv'
<1> USE StudioAssumption DEF PageInv, Submitting
<1>1. TypeOK'
  <2>1. NoJob \in [id : 0 .. MaxJobs, shows : 0 .. MaxJobs, set : BOOLEAN]
    BY DEF NoJob
  <2>2. 0 \in 0 .. MaxJobs
    OBVIOUS
  <2>3. click' \in [Clicks -> {"idle", "signing", "token", "posting"}]
    BY DEF TypeOK
  <2>4. QED
    BY <2>1, <2>2, <2>3, StoppedPolls DEF TypeOK
<1>2. WorkingIsBacked'
  BY DEF WorkingIsBacked, TypeOK
<1>3. SpentTokenIsReset'
  BY DEF SpentTokenIsReset, TypeOK
<1>4. Accepted'
  BY StoppedPolls DEF Accepted, TypeOK
<1>5. ASSUME orderly' PROVE Alive' = {}
  BY <1>5, NothingLeft DEF Alive
<1>6. (orderly => OneThingAtATime)'
  BY <1>5 DEF OneThingAtATime, InProgress, TypeOK, Alive
<1>7. ShowsItsOwnJob'
  BY <1>5 DEF ShowsItsOwnJob, NoJob
<1>8. QED
  BY <1>1, <1>2, <1>3, <1>4, <1>6, <1>7

LEMMA GenerateInv ==
    ASSUME PageInv, NEW c \in Clicks, Generate(c)
    PROVE  PageInv'
<1> USE DEF Generate, Clickable
<1>1. CASE Submitting(c)
  <2>1. /\ orderly' \in BOOLEAN
        /\ orderly' => orderly /\ Unasked /\ \A d \in Clicks : click[d] # "idle" => d = c
    BY <1>1 DEF PageInv, TypeOK, Submitting
  <2>2. QED
    BY <1>1, <2>1, SubmittingInv
<1>2. CASE ~Submitting(c)
  <2> USE <1>2, StudioAssumption DEF PageInv
  <2>1. TypeOK'
    BY DEF TypeOK
  <2>2. WorkingIsBacked' /\ SpentTokenIsReset' /\ Accepted'
    BY DEF WorkingIsBacked, SpentTokenIsReset, Accepted, Working, TypeOK, Alive
  <2>3. (orderly => OneThingAtATime)'
    BY DEF OneThingAtATime, Working, TypeOK, Alive, InProgress
  <2>4. orderly' => orderly
    OBVIOUS
  <2>5. UNCHANGED <<phase, job, elapsed, ticking, server>> /\ Alive' = Alive
    BY DEF Alive
  <2>6. ShowsItsOwnJob'
    BY <2>4, <2>5 DEF ShowsItsOwnJob
  <2>7. QED
    BY <2>1, <2>2, <2>3, <2>6
<1>3. QED
  BY <1>1, <1>2

LEMMA SignEndsInv ==
    ASSUME PageInv, NEW c \in Clicks, SignEnds(c)
    PROVE  PageInv'
<1>1. orderly' => orderly /\ Unasked /\ \A d \in Clicks : click[d] # "idle" => d = c
  BY DEF SignEnds, PageInv, OneThingAtATime
<1>2. orderly' \in BOOLEAN
  BY DEF SignEnds, PageInv, TypeOK
<1>3. QED
  BY <1>1, <1>2, SubmittingInv DEF SignEnds

LEMMA SignFailsInv ==
    ASSUME PageInv, NEW c \in Clicks, SignFails(c)
    PROVE  PageInv'
<1> USE StudioAssumption DEF PageInv, SignFails
<1>1. TypeOK'
  BY DEF TypeOK
<1>2. WorkingIsBacked' /\ SpentTokenIsReset' /\ Accepted'
  BY DEF WorkingIsBacked, SpentTokenIsReset, Accepted, TypeOK, Alive
<1>3. (orderly => OneThingAtATime)'
  BY DEF OneThingAtATime, Working, TypeOK, Alive, InProgress
<1>4. ShowsItsOwnJob'
  BY DEF ShowsItsOwnJob, Alive
<1>5. QED
  BY <1>1, <1>2, <1>3, <1>4

LEMMA PostStartsInv ==
    ASSUME PageInv, NEW c \in Clicks, PostStarts(c)
    PROVE  PageInv'
<1> USE StudioAssumption DEF PageInv, PostStarts
<1>1. TypeOK'
  BY DEF TypeOK
<1>2. WorkingIsBacked' /\ SpentTokenIsReset' /\ Accepted'
  BY DEF WorkingIsBacked, SpentTokenIsReset, Accepted, TypeOK, Alive
<1>3. (orderly => OneThingAtATime)'
  BY DEF OneThingAtATime, Working, TypeOK, Alive, InProgress
<1>4. ShowsItsOwnJob'
  BY DEF ShowsItsOwnJob, Alive
<1>5. QED
  BY <1>1, <1>2, <1>3, <1>4

LEMMA GiveUpInv ==
    ASSUME PageInv, NEW c \in Clicks, GiveUp(c), click[c] \in {"token", "posting"}
    PROVE  PageInv'
<1> USE StudioAssumption DEF PageInv, GiveUp, Failed, ResetToken
<1>1. TypeOK'
  BY DEF TypeOK, Statuses
<1>2. WorkingIsBacked' /\ SpentTokenIsReset' /\ Accepted'
  BY DEF WorkingIsBacked, SpentTokenIsReset, Accepted, TypeOK, Alive
<1>3. (orderly => OneThingAtATime)'
  BY DEF OneThingAtATime, Working, TypeOK, Alive, InProgress
<1>4. ShowsItsOwnJob'
  BY DEF ShowsItsOwnJob, Alive, OneThingAtATime, InProgress
<1>5. QED
  BY <1>1, <1>2, <1>3, <1>4

LEMMA PostAcceptedInv ==
    ASSUME PageInv, NEW c \in Clicks, PostAccepted(c)
    PROVE  PageInv'
<1> USE StudioAssumption DEF PageInv, ResetToken
<1>1. PICK j \in Jobs :
        /\ server[j] = "none"
        /\ server' = [server EXCEPT ![j] = "queued"]
        /\ job' = [id |-> j, shows |-> 0, set |-> TRUE]
        /\ poll' = [poll EXCEPT ![j] = "asking"]
  BY DEF PostAccepted
<1> USE DEF PostAccepted
<1>2. TypeOK'
  BY <1>1 DEF TypeOK, Statuses, Polls, Jobs
<1>3. poll'[j] = "asking" /\ j \in Alive'
  BY <1>1 DEF TypeOK, Alive
<1>4. WorkingIsBacked' /\ SpentTokenIsReset'
  BY <1>3 DEF WorkingIsBacked, SpentTokenIsReset
<1>5. Accepted'
  BY <1>1 DEF Accepted, TypeOK
<1>6. ASSUME orderly' PROVE Alive' = {j}
  <2>1. Alive = {}
    BY <1>6 DEF OneThingAtATime, InProgress
  <2>2. QED
    BY <2>1, <1>1, <1>3 DEF Alive, TypeOK
<1>7. (orderly => OneThingAtATime)'
  BY <1>1, <1>6 DEF OneThingAtATime, Working, TypeOK, InProgress
<1>8. ShowsItsOwnJob'
  BY <1>1, <1>6 DEF ShowsItsOwnJob
<1>9. QED
  BY <1>2, <1>4, <1>5, <1>7, <1>8

-----------------------------------------------------------------------------
(* Polling.                                                                *)

\* A polling that is alive is the only activity of an orderly page.
LEMMA AlivePolling ==
    ASSUME PageInv, orderly, NEW j \in Alive
    PROVE  /\ Alive = {j} /\ job.id = j /\ job.set
           /\ phase \in InProgress \cup {"error"} /\ (ticking \/ elapsed >= Limit)
           /\ \A c \in Clicks : click[c] \notin {"token", "posting"}
<1>1. phase \in InProgress \cup {"error"} /\ job.set /\ (ticking \/ elapsed >= Limit)
  BY DEF PageInv, OneThingAtATime
<1>2. Alive = {j} /\ job.id = j
  BY <1>1 DEF PageInv, ShowsItsOwnJob
<1>3. \A c \in Clicks : click[c] \notin {"token", "posting"}
  BY <1>1 DEF PageInv, OneThingAtATime, InProgress
<1>4. QED
  BY <1>1, <1>2, <1>3

\* A step of a polling that ends nothing and shows nothing.
LEMMA PollingOnInv ==
    ASSUME PageInv, NEW j \in Jobs, j \in Alive,
           NEW p \in Polls \ {"none", "ended"}, poll' = [poll EXCEPT ![j] = p],
           pollRef' \in 0 .. MaxJobs, p = "waiting" => pollRef' = j,
           UNCHANGED <<phase, job, elapsed, ticking, click, token, server, handed, orderly>>
    PROVE  PageInv'
<1> USE DEF PageInv
<1>1. TypeOK'
  BY DEF TypeOK
<1>2. Alive' = Alive
  BY DEF Alive, TypeOK
<1>3. WorkingIsBacked' /\ SpentTokenIsReset' /\ ShowsItsOwnJob'
  BY <1>2 DEF WorkingIsBacked, SpentTokenIsReset, ShowsItsOwnJob
<1>4. Accepted'
  BY DEF Accepted, TypeOK, Alive
<1>5. ASSUME orderly PROVE \A k \in Jobs : poll'[k] = "waiting" => pollRef' = k
  <2>1. Alive = {j}
    BY <1>5, AlivePolling
  <2>2. QED
    BY <2>1 DEF Alive, TypeOK
<1>6. (orderly => OneThingAtATime)'
  BY <1>2, <1>5 DEF OneThingAtATime
<1>7. QED
  BY <1>1, <1>3, <1>4, <1>6

LEMMA PollingInv ==
    ASSUME PageInv, NEW j \in Jobs, ServePoll(j) \/ PollFails(j) \/ PollTimer(j)
    PROVE  PageInv'
<1> USE DEF PageInv
<1>0. pollRef \in 0 .. MaxJobs /\ j \in 0 .. MaxJobs
  BY StudioAssumption DEF TypeOK, Jobs
<1>1. CASE ServePoll(j)
  <2>1. j \in Alive
    BY <1>1 DEF ServePoll, Alive
  <2>2. server[j] \in Statuses
    BY <1>1 DEF ServePoll, Accepted, TypeOK
  <2>3. server[j] \in Polls \ {"none", "ended"} /\ server[j] # "waiting"
    BY <2>2 DEF Polls, Answers, Statuses
  <2>4. QED
    BY <1>0, <1>1, <2>1, <2>3, PollingOnInv DEF ServePoll
<1>2. CASE PollFails(j)
  <2>1. j \in Alive
    BY <1>2 DEF PollFails, Alive, Answers, Statuses
  <2>2. QED
    BY <1>0, <1>2, <2>1, PollingOnInv DEF PollFails, Polls
<1>3. CASE PollTimer(j)
  <2>1. j \in Alive
    BY <1>3 DEF PollTimer, Alive
  <2>2. QED
    BY <1>0, <1>3, <2>1, PollingOnInv DEF PollTimer, Polls
<1>4. QED
  BY <1>1, <1>2, <1>3

LEMMA PollAnsweredInv ==
    ASSUME PageInv, NEW j \in Jobs, PollAnswered(j)
    PROVE  PageInv'
<1> DEFINE over == PhaseFromStatus(poll[j]) \in {"done", "error"}
<1> USE DEF PageInv, PollAnswered
<1>1. j \in Alive /\ j \in 0 .. MaxJobs
  BY StudioAssumption DEF Alive, Answers, Statuses, Jobs
<1>2. phase' = PhaseFromStatus(poll[j]) /\ phase' \in InProgress \cup {"done", "error"}
  BY DEF PhaseFromStatus, Answers, Statuses, InProgress
<1>3. /\ poll' \in [Jobs -> Polls]
      /\ \A k \in Jobs : /\ poll'[k] \in {"none", "ended"} \/ k \in Alive
                         /\ poll'[k] # "none" => poll[k] # "none"
      /\ poll'[j] = IF over THEN "ended" ELSE "waiting"
  <2>1. CASE over
    BY <1>1, <2>1, StoppedPolls DEF TypeOK, Polls, Alive
  <2>2. CASE ~over
    BY <1>1, <2>2 DEF TypeOK, Polls, Alive
  <2>3. QED
    BY <2>1, <2>2
<1>4. TypeOK'
  <2>1. phase' \in {"idle", "submitting"} \cup Statuses
    BY <1>2 DEF InProgress, Statuses
  <2>2. job' \in [id : 0 .. MaxJobs, shows : 0 .. MaxJobs, set : BOOLEAN]
    BY <1>1 DEF TypeOK
  <2>3. pollRef' \in 0 .. MaxJobs
    <3>1. pollRef' \in {0, j}
      BY <1>1
    <3>2. QED
      BY <3>1, StudioAssumption DEF Jobs
  <2>4. ticking' \in BOOLEAN
    <3>1. ticking' \in {FALSE, ticking}
      BY <1>1
    <3>2. QED
      BY <3>1 DEF TypeOK
  <2>5. QED
    BY <1>3, <2>1, <2>2, <2>3, <2>4 DEF TypeOK
<1>5. WorkingIsBacked' /\ SpentTokenIsReset'
  <2>1. phase' \in InProgress => j \in Alive'
    BY <1>2, <1>3 DEF Alive, InProgress
  <2>2. phase' # "submitting"
    BY <1>2 DEF InProgress
  <2>3. QED
    BY <2>1, <2>2 DEF WorkingIsBacked, SpentTokenIsReset, InProgress
<1>6. Accepted'
  BY <1>3 DEF Accepted
<1>7. ASSUME orderly' PROVE OneThingAtATime' /\ ShowsItsOwnJob'
  <2>1. /\ Alive = {j} /\ job.id = j /\ job.set /\ (ticking \/ elapsed >= Limit)
        /\ phase \in InProgress \cup {"error"}
        /\ \A c \in Clicks : click[c] \notin {"token", "posting"}
    BY <1>1, <1>7, AlivePolling
  <2>2. job'.id = j /\ job'.set /\ job'.shows = j
    BY <2>1 DEF TypeOK
  <2>3. Alive' = IF over THEN {} ELSE {j}
    BY <1>3, <2>1 DEF Alive
  <2>4. ~over => phase' \in InProgress /\ pollRef' = j /\ ticking' = ticking
    BY <1>2 DEF InProgress
  <2>5. over => phase' \in {"done", "error"} /\ ~ticking'
    OBVIOUS
  <2>6. OneThingAtATime'
    <3>1. \A k \in Jobs : poll'[k] = "waiting" => pollRef' = k
      BY <2>3, <2>4 DEF Alive
    <3>2. QED
      BY <1>7, <2>1, <2>2, <2>3, <2>4, <2>5, <3>1 DEF OneThingAtATime, InProgress
  <2>7. ShowsItsOwnJob'
    BY <1>1, <2>1, <2>2, <2>3, <2>4, <2>5, StudioAssumption DEF ShowsItsOwnJob, InProgress, Jobs
  <2>8. QED
    BY <2>6, <2>7
<1>8. QED
  BY <1>4, <1>5, <1>6, <1>7 DEF ShowsItsOwnJob

-----------------------------------------------------------------------------
(* The other steps.                                                        *)

LEMMA ElapsedTickInv ==
    ASSUME PageInv, ElapsedTick
    PROVE  PageInv'
<1> USE DEF PageInv, ElapsedTick
<1>1. TypeOK'
  <2>1. elapsed' \in 0 .. Limit
    <3>1. elapsed \in 0 .. Limit
      BY DEF TypeOK
    <3>2. \/ elapsed' = elapsed
          \/ ~(elapsed >= Limit) /\ elapsed' = elapsed + 1
      OBVIOUS
    <3>3. QED
      BY <3>1, <3>2, StudioAssumption
  <2>2. phase' \in {"idle", "submitting"} \cup Statuses
    BY DEF TypeOK, Statuses
  <2>3. QED
    BY <2>1, <2>2 DEF TypeOK
<1>2. Alive' = Alive
  BY DEF Alive
<1>3. WorkingIsBacked' /\ SpentTokenIsReset' /\ Accepted'
  BY <1>2 DEF WorkingIsBacked, SpentTokenIsReset, Accepted
<1>4. (orderly => OneThingAtATime)' /\ ShowsItsOwnJob'
  <2>1. CASE elapsed >= Limit
    BY <1>2, <2>1 DEF OneThingAtATime, ShowsItsOwnJob, InProgress
  <2>2. CASE ~(elapsed >= Limit)
    BY <1>2, <2>2 DEF OneThingAtATime, ShowsItsOwnJob, InProgress
  <2>3. QED
    BY <2>1, <2>2
<1>5. QED
  BY <1>1, <1>3, <1>4

LEMMA ResetInv ==
    ASSUME PageInv, Reset
    PROVE  PageInv'
<1> USE StudioAssumption DEF PageInv, Reset, ResultShown, ErrorShown
<1>1. TypeOK'
  <2>1. NoJob \in [id : 0 .. MaxJobs, shows : 0 .. MaxJobs, set : BOOLEAN]
    BY DEF NoJob
  <2>2. 0 \in 0 .. MaxJobs /\ 0 \in 0 .. Limit
    OBVIOUS
  <2>3. QED
    BY <2>1, <2>2, StoppedPolls DEF TypeOK
<1>2. WorkingIsBacked' /\ SpentTokenIsReset'
  BY DEF WorkingIsBacked, SpentTokenIsReset
<1>3. Accepted'
  BY StoppedPolls DEF Accepted, TypeOK
<1>4. ASSUME orderly' PROVE OneThingAtATime' /\ ShowsItsOwnJob'
  <2>2. Alive' = {}
    BY <1>4, NothingLeft DEF Alive
  <2>3. \A c \in Clicks : click[c] \notin {"token", "posting"}
    BY <1>4 DEF OneThingAtATime
  <2>4. QED
    BY <1>4, <2>2, <2>3 DEF OneThingAtATime, ShowsItsOwnJob, InProgress, Alive, NoJob
<1>5. QED
  BY <1>1, <1>2, <1>3, <1>4 DEF ShowsItsOwnJob

LEMMA SurroundingsInv ==
    ASSUME PageInv, TokenSolved \/ TokenExpires \/ \E j \in Jobs : Daemon(j)
    PROVE  PageInv'
<1> USE DEF PageInv, TokenSolved, TokenExpires, Daemon, Take, Reclaim,
       FinalizeVariant, FinalizeFailure, pageVars
<1>1. TypeOK'
  BY DEF TypeOK, Statuses
<1>2. Alive' = Alive /\ SpentTokenIsReset'
  BY DEF Alive, SpentTokenIsReset
<1>3. WorkingIsBacked' /\ (orderly => OneThingAtATime)'
  BY <1>2 DEF WorkingIsBacked, OneThingAtATime, Working
<1>4. Accepted'
  BY DEF Accepted, TypeOK
<1>5. ShowsItsOwnJob'
  BY <1>2 DEF ShowsItsOwnJob
<1>6. QED
  BY <1>1, <1>2, <1>3, <1>4, <1>5

LEMMA NextInv == PageInv /\ [Next]_vars => PageInv'
<1> SUFFICES ASSUME PageInv, [Next]_vars PROVE PageInv'
  OBVIOUS
<1>1. ASSUME NEW c \in Clicks, Call(c) PROVE PageInv'
  BY <1>1, GenerateInv, SignEndsInv, SignFailsInv, PostStartsInv, GiveUpInv,
     PostAcceptedInv DEF Call, TokenTimeout, PostFails
<1>2. ASSUME NEW j \in Jobs, Polling(j) PROVE PageInv'
  BY <1>2, PollingInv, PollAnsweredInv DEF Polling
<1>3. CASE UNCHANGED vars
  BY <1>3 DEF PageInv, TypeOK, WorkingIsBacked, SpentTokenIsReset, Accepted,
     OneThingAtATime, ShowsItsOwnJob, Alive, Working, vars, pageVars
<1>4. QED
  BY <1>1, <1>2, <1>3, ElapsedTickInv, ResetInv, SurroundingsInv DEF Next

LEMMA PageInvariant == Spec => []PageInv
<1>1. QED
  BY InitInv, NextInv, PTL DEF Spec

-----------------------------------------------------------------------------
(* Theorems.                                                               *)

\* The variables of the page have the types TypeOK states.
THEOREM TypeCorrect == Spec => []TypeOK
<1>1. PageInv => TypeOK
  BY DEF PageInv
<1>2. QED
  BY <1>1, PageInvariant, PTL

\* Progress shown always has a call of generate or a polling behind it.
THEOREM ProgressIsBacked == Spec => []WorkingIsBacked
<1>1. PageInv => WorkingIsBacked
  BY DEF PageInv
<1>2. QED
  BY <1>1, PageInvariant, PTL

\* While calls of generate do not overlap and no job is left while the API is
\* asked about it, the page polls one job, the one it shows, also after the
\* job timed out, and every answer it shows is about that job.
THEOREM ShowsOneJob == Spec => []ShowsItsOwnJob
<1>1. PageInv => ShowsItsOwnJob
  BY DEF PageInv
<1>2. QED
  BY <1>1, PageInvariant, PTL

\* Every end of a submission resets the token it took.
THEOREM TokenIsReset == Spec => []SpentTokenIsReset
<1>1. PageInv => SpentTokenIsReset
  BY DEF PageInv
<1>2. QED
  BY <1>1, PageInvariant, PTL

\* A call of generate that does not overlap with another posts a fresh token.
THEOREM TokenIsFresh == Spec => OrderlyTokenIsFresh
<1>1. ASSUME PageInv, [Next]_vars, NEW c \in Clicks, orderly,
             click[c] = "token", click'[c] = "posting"
      PROVE  token = "fresh"
  <2>1. token # "taken"
    BY <1>1 DEF PageInv, SpentTokenIsReset, OneThingAtATime
  <2>2. token # "none"
    <3>1. \A d \in Clicks : PostStarts(d) => token # "none"
      BY DEF PostStarts
    <3>2. ASSUME NEW d \in Clicks, Call(d), ~PostStarts(d) PROVE click'[c] # "posting"
      BY <1>1, <3>2 DEF Call, Generate, Submitting, SignEnds, SignFails, TokenTimeout,
         PostFails, GiveUp, PostAccepted, PageInv, TypeOK
    <3>3. ASSUME ~\E d \in Clicks : Call(d) PROVE click' = click
      BY <1>1, <3>3 DEF Next, Polling, ServePoll, PollAnswered, PollFails, PollTimer,
         Daemon, Take, Reclaim,
         FinalizeVariant, FinalizeFailure, ElapsedTick, Reset, TokenSolved, TokenExpires, vars, pageVars
    <3>4. QED
      BY <1>1, <3>1, <3>2, <3>3
  <2>3. QED
    BY <1>1, <2>1, <2>2 DEF PageInv, TypeOK
<1>2. PageInv /\ [Next]_vars =>
        [\A c \in Clicks : orderly /\ click[c] = "token" /\ click'[c] = "posting"
                           => token = "fresh"]_vars
  BY <1>1
<1>3. QED
  BY <1>2, PageInvariant, PTL DEF Spec, OrderlyTokenIsFresh
=============================================================================
