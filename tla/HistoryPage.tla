---------------------------- MODULE HistoryPage -----------------------------
(***************************************************************************)
(* The history page (SuperBCSHistoryPage.tsx) with the two requests of the *)
(* API it lives on, GET /history and DELETE /jobs/{id} (public.py).        *)
(*                                                                         *)
(* An action is what runs between two awaits, with the effects that the    *)
(* state changes of it trigger.  A job is its rank in created_at order,     *)
(* which is the order in which submissions began, not the one in which they *)
(* commit and jobs become visible.                                         *)
(* Requests are under way for any time and answered in any order; a list is *)
(* what the API has when its answer arrives.                               *)
(***************************************************************************)
EXTENDS BrowserSession, Lists, SequencesExt

CONSTANTS
    MaxJobs,    \* bound of the model: jobs there ever are
    Owner,      \* the wallet of each job
    PageSize,   \* 24
    MaxDeletes, \* bound of the model: jobs deleted or being deleted
    Loads       \* slots for calls of loadFirst that are under way

Jobs == 1 .. MaxJobs

ASSUME HistoryAssumption ==
    /\ MaxJobs \in Nat \ {0} /\ MaxDeletes \in Nat /\ Loads # {}
    /\ PageSize \in Nat \ {0}
    /\ Owner \in [Jobs -> Wallets]

VARIABLES
    session, me, items, cursor,     \* me is the wallet it speaks of; cursor 0 is null
    loading, authBusy, autoSigned,
    busy,       \* busyJobId, or 0
    signing,    \* wallets whose automatic signature is under way
    first,      \* the calls of loadFirst
    more,       \* the call of onLoadMore
    del,        \* the deletion of each job
    made, deleted,      \* the API: the jobs that are visible, and those deleted
    top,        \* history: what the list could have had when it was begun
    orderly     \* history: no Load more was under way when the list was begun, and
                \* each since was asked for with the list's own session

listVars == <<session, me, items, cursor, loading>>
authVars == <<authBusy, autoSigned, signing>>
apiVars  == <<made, deleted>>
vars == <<sessionVars, listVars, authVars, busy, first, more, del,
          apiVars, top, orderly>>

\* A call that asks with header hdr for the jobs before a cursor (0: any).
IdleCall == [pc |-> "idle", hdr |-> None, before |-> 0]
Asking(hdr, before) == [pc |-> "asking", hdr |-> hdr, before |-> before]

-----------------------------------------------------------------------------
(* GET /history.                                                           *)

\* Slip: the job at the cursor is listed again.
ListedThrough(hdr, before) ==
    {j \in made : Owner[j] = hdr /\ j \notin deleted /\ (before = 0 \/ j <= before)}

Listed(hdr, before) ==
    {j \in made : Owner[j] = hdr /\ j \notin deleted /\ (before = 0 \/ j < before)}

Page(hdr, before) ==
    LET all  == Descending(Listed(hdr, before))
        rows == SubSeq(all, 1, IF Len(all) < PageSize THEN Len(all) ELSE PageSize)
    IN  [rows |-> rows, next |-> IF Len(all) > PageSize THEN Last(rows) ELSE 0]

-----------------------------------------------------------------------------
(* Sessions and signatures.                                                *)

\* The effect that asks for a signature.  It sets authBusy, which it depends
\* on: it is run again and cancels its own request, so that the result is not
\* used and authBusy is not set back.
AutoSign(w, starts) ==
    /\ authBusy' = (authBusy \/ starts)
    /\ signing' = IF starts THEN signing \cup {w} ELSE signing

\* The effect after the session became s: a new session loads its first page.
NewSession(s) ==
    /\ session' = s
    /\ IF s \in {None, session}
       THEN UNCHANGED <<first, loading>>
       ELSE /\ \E l \in Loads : /\ first[l].pc = "idle"
                                /\ first' = [first EXCEPT ![l] = Asking(stored', 0)]
            /\ loading' = TRUE

\* The session is dropped and no wallet change is the cause of it.
DropSession(signedBefore) ==
    /\ ClearSession
    /\ session' = None
    /\ LET starts == wallet # None /\ ~authBusy /\ ~signedBefore
       IN  /\ AutoSign(wallet, starts)
           /\ autoSigned' = (signedBefore \/ starts)

Init ==
    /\ SessionInit
    /\ session = GetSessionFor(wallet)
    /\ me = None /\ items = <<>> /\ cursor = 0
    /\ authBusy = (wallet # None /\ session = None)
    /\ autoSigned = authBusy
    /\ signing = IF authBusy THEN {wallet} ELSE {}
    /\ loading = (session # None)
    /\ \E k \in Loads : first =
          [l \in Loads |-> IF l = k /\ loading THEN Asking(stored, 0) ELSE IdleCall]
    /\ more = IdleCall
    /\ busy = 0 /\ del = [j \in Jobs |-> "none"]
    /\ \E j \in Jobs : made = Jobs \ {j}
    /\ deleted = {} /\ top = {} /\ orderly = TRUE

\* The wallet is connected, changed or disconnected in the top bar.  A session
\* of another wallet is dropped; the signature effect still sees the session of
\* before, unless it was dropped.
WalletChanges(w) ==
    /\ w # wallet
    /\ wallet' = w
    /\ LET s       == SessionAfter(session, w)
           dropped == session # None /\ s = None
           starts  == w # None /\ ~authBusy /\ (dropped \/ (session = None /\ ~autoSigned))
       IN  /\ IF dropped THEN ClearSession ELSE UNCHANGED stored
           /\ NewSession(s)
           /\ AutoSign(w, starts)
           /\ autoSigned' = ((autoSigned /\ ~dropped) \/ starts)
    /\ UNCHANGED <<me, items, cursor, busy, more, del, apiVars, top, orderly>>

\* Slip: the end of the signature sets authBusy back.
SignEndsBusy(w) ==
    /\ w \in signing
    /\ signing' = signing \ {w}
    /\ authBusy' = FALSE
    /\ Persist(w)
    /\ UNCHANGED <<wallet, listVars, autoSigned, busy, first, more, del, apiVars, top, orderly>>

\* The request was cancelled: a new session is stored and not used, an error
\* is not shown.
SignEnds(w) ==
    /\ w \in signing
    /\ signing' = signing \ {w}
    /\ Persist(w)
    /\ UNCHANGED <<wallet, listVars, authBusy, autoSigned, busy, first, more,
                   del, apiVars, top, orderly>>

\* The account bar with its reset button, and in its place what is shown to a
\* wallet without a session: a message, or a button to try again.
AccountShown == wallet # None /\ session # None
WaitingShown == wallet # None /\ session = None /\ authBusy
RetryShown   == wallet # None /\ session = None /\ ~authBusy

ResetSession ==
    /\ AccountShown
    /\ DropSession(FALSE)
    /\ items' = <<>> /\ me' = None /\ cursor' = 0 /\ top' = {}
    /\ orderly' = (more.pc = "idle")
    /\ UNCHANGED <<wallet, loading, busy, first, more, del, apiVars>>

-----------------------------------------------------------------------------
(* The list.                                                               *)

\* Whoever asked, the page is shown, in place of whatever list is shown by now.
FirstAnswered(l) ==
    /\ first[l].pc = "asking" /\ first[l].hdr # None
    /\ LET page == Page(first[l].hdr, 0)
       IN  items' = page.rows /\ cursor' = page.next
    /\ me' = first[l].hdr
    /\ loading' = FALSE
    /\ first' = [first EXCEPT ![l] = IdleCall]
    /\ top' = Listed(first[l].hdr, 0) /\ orderly' = (more.pc = "idle")
    /\ UNCHANGED <<sessionVars, session, authVars, busy, more, del, apiVars>>

\* The session is dropped only when the message has 401 or 403 in it, which
\* the answers of the API itself have not.
FirstFails(l) ==
    /\ first[l].pc # "idle"
    /\ first' = [first EXCEPT ![l] = IdleCall]
    /\ loading' = FALSE
    /\ \/ DropSession(autoSigned)
       \/ UNCHANGED <<stored, session, authVars>>
    /\ UNCHANGED <<wallet, me, items, cursor, busy, more, del, apiVars, top, orderly>>

\* The list with its buttons is shown to a wallet with a session.
ListShown == AccountShown /\ items # <<>>

\* Slip: more is asked for when there is no more.
LoadMoreAnyway ==
    /\ ListShown /\ more.pc = "idle"
    /\ more' = Asking(Header, cursor)
    /\ UNCHANGED <<sessionVars, listVars, authVars, busy, first, del, apiVars, top, orderly>>

\* loadingMore is set as long as the call lasts.
OnLoadMore ==
    /\ ListShown /\ cursor # 0 /\ more.pc = "idle"
    /\ more' = Asking(Header, cursor)
    /\ orderly' = (orderly /\ Header \in {None, me})
    /\ UNCHANGED <<sessionVars, listVars, authVars, busy, first, del, apiVars, top>>

\* The answer is appended to whatever list is shown by now.
MoreAnswered ==
    /\ more.pc = "asking" /\ more.hdr # None
    /\ LET page == Page(more.hdr, more.before)
       IN  items' = items \o page.rows /\ cursor' = page.next
    /\ more' = IdleCall
    /\ UNCHANGED <<sessionVars, session, me, loading, authVars, busy, first, del,
                   apiVars, top, orderly>>

MoreFails ==
    /\ more.pc # "idle"
    /\ more' = IdleCall
    /\ UNCHANGED <<sessionVars, listVars, authVars, busy, first, del, apiVars, top, orderly>>

-----------------------------------------------------------------------------
(* Deletion.  Bound of the model: one deletion of a job at a time.         *)

\* Confirmed; a request that the job's owner did not sign will be refused.
OnDelete(j) ==
    /\ ListShown /\ j \in ToSet(items) /\ busy # j /\ del[j] = "none"
    /\ Cardinality(deleted \cup {k \in Jobs : del[k] # "none"} \cup {j}) <= MaxDeletes
    /\ busy' = j
    /\ del' = [del EXCEPT ![j] = IF Header = Owner[j] THEN "asking" ELSE "failed"]
    /\ UNCHANGED <<sessionVars, listVars, authVars, first, more, apiVars, top, orderly>>

\* delete_job: a job deleted before is not found.
DeleteServed(j) ==
    /\ del[j] = "asking"
    /\ del' = [del EXCEPT ![j] = IF j \in deleted THEN "failed" ELSE "deleted"]
    /\ deleted' = deleted \cup {j}
    /\ UNCHANGED <<sessionVars, listVars, authVars, busy, first, more, made, top, orderly>>

DeleteAnswered(j) ==
    /\ del[j] = "deleted"
    /\ items' = Keep(items, {i \in DOMAIN items : items[i] # j})
    /\ del' = [del EXCEPT ![j] = "none"]
    /\ busy' = 0
    /\ UNCHANGED <<sessionVars, session, me, cursor, loading, authVars, first, more,
                   apiVars, top, orderly>>

\* Slip: a failed deletion leaves its button disabled.
DeleteFailsBusy(j) ==
    /\ del[j] \in {"failed", "asking", "deleted"}
    /\ del' = [del EXCEPT ![j] = "none"]
    /\ UNCHANGED <<sessionVars, listVars, authVars, busy, first, more, apiVars, top, orderly>>

\* Refused, or the request or its answer is lost.
DeleteFails(j) ==
    /\ del[j] \in {"failed", "asking", "deleted"}
    /\ del' = [del EXCEPT ![j] = "none"]
    /\ busy' = 0
    /\ UNCHANGED <<sessionVars, listVars, authVars, first, more, apiVars, top, orderly>>

-----------------------------------------------------------------------------
(* The surroundings.                                                       *)

\* A submission made elsewhere commits.
JobMade ==
    /\ \E j \in Jobs \ made : made' = made \cup {j}
    /\ UNCHANGED <<sessionVars, listVars, authVars, busy, first, more, del, deleted, top, orderly>>

OtherTab ==
    /\ StoredChanges
    /\ UNCHANGED <<listVars, authVars, busy, first, more, del, apiVars, top, orderly>>

Load(l)   == FirstAnswered(l) \/ FirstFails(l)
LoadMore  == OnLoadMore \/ MoreAnswered \/ MoreFails
Delete(j) == OnDelete(j) \/ DeleteServed(j) \/ DeleteAnswered(j) \/ DeleteFails(j)

Next ==
    \/ \E w \in WalletsOrNone : WalletChanges(w)
    \/ \E w \in Wallets : SignEnds(w)
    \/ ResetSession
    \/ \E l \in Loads : Load(l)
    \/ LoadMore
    \/ \E j \in Jobs : Delete(j)
    \/ JobMade \/ OtherTab

Spec == Init /\ [][Next]_vars

-----------------------------------------------------------------------------
(* Properties.                                                             *)

CallType == [pc : {"idle", "asking"}, hdr : WalletsOrNone, before : 0 .. MaxJobs]

TypeOK ==
    /\ SessionTypeOK
    /\ session \in WalletsOrNone /\ me \in WalletsOrNone
    /\ items \in Seq(Jobs) /\ cursor \in 0 .. MaxJobs /\ busy \in 0 .. MaxJobs
    /\ loading \in BOOLEAN /\ authBusy \in BOOLEAN /\ autoSigned \in BOOLEAN
    /\ signing \subseteq Wallets
    /\ first \in [Loads -> CallType]
    /\ more \in CallType /\ (more.pc # "idle" => more.before # 0)
    /\ del \in [Jobs -> {"none", "asking", "deleted", "failed"}]
    /\ made \subseteq Jobs /\ deleted \subseteq made /\ top \subseteq made
    /\ orderly \in BOOLEAN

\* A session in use is the connected wallet's own, through every change of
\* wallet, sign-in and reset.
SessionIsTheWallets == wallet # None /\ session # None => session = wallet

\* If no Load more was under way when the list was begun, by a first page or a
\* reset, and each Load more since was asked for with the list's own session, the
\* pages make up one list: of the wallet whose quota is shown, newest first,
\* nothing twice, and nothing left out that was visible when the list was begun,
\* from the newest job down to the cursor, although jobs become visible and are
\* deleted between two pages; whatever was wrong with the lists before it.  (An
\* answer to Load more is appended to whatever is shown by then, and another
\* session in localStorage is used for it: the condition says so.)
ListIsContinuous ==
    orderly =>
      /\ \A i \in DOMAIN items : Owner[items[i]] = me
      /\ \A i, j \in DOMAIN items : i < j => items[i] > items[j]
      /\ \A j \in top :
            (cursor = 0 \/ j >= cursor) /\ j \notin deleted => j \in ToSet(items)

\* Two signs of waiting are true.  While the page says that it loads the list,
\* a call of loadFirst is under way, and while the button that deletes a job is
\* disabled, a deletion of that job is.  (The sign that a signature is waited
\* for is not, see WaitingMeansSigning.)
WaitsForRequests ==
    /\ loading => \E l \in Loads : first[l].pc # "idle"
    /\ busy # 0 => del[busy] # "none"

\* The button to retry the signature is never shown: the page always believes
\* that a signature is under way.  Next leaves retrySignature out for it.
RetryNeverShown == ~RetryShown

\* "Waiting for signature" is shown while a signature is being asked for.
WaitingMeansSigning == WaitingShown => signing # {}
=============================================================================
