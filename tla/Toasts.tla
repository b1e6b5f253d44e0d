------------------------------- MODULE Toasts -------------------------------
(***************************************************************************)
(* The one toast of the application shell.  The tab store and the share     *)
(* links both set it, and each time start a timer of three seconds that     *)
(* takes away whatever toast is shown when it fires.  The timers have the   *)
(* same delay, so they fire in the order in which they were started.        *)
(***************************************************************************)
EXTENDS Integers, Sequences

CONSTANTS
    Messages,   \* the texts a toast may have
    NoToast,    \* null
    MaxTimers   \* bound of the model: timers running at once

ASSUME ToastAssumption == NoToast \notin Messages /\ MaxTimers \in Nat \ {0}

VARIABLES
    toast,      \* the text shown
    timers      \* the running timers, oldest first, each with its text

toastVars == <<toast, timers>>

ToastInit == toast = NoToast /\ timers = <<>>

\* Slip: the toast is set and its timer forgotten.
SayOnly(m) ==
    /\ Len(timers) < MaxTimers
    /\ toast' = m
    /\ timers' = timers

Say(m) ==
    /\ Len(timers) < MaxTimers
    /\ toast' = m
    /\ timers' = Append(timers, m)

\* The oldest timer fires: clearToast.
ClearToast ==
    /\ timers # <<>>
    /\ toast' = NoToast
    /\ timers' = Tail(timers)

ToastTypeOK ==
    /\ toast \in Messages \cup {NoToast}
    /\ timers \in Seq(Messages)

\* A toast that is shown has its timer, the youngest one: no toast stays for
\* ever, whoever set it and however many were set before.
ToastHasTimer ==
    toast # NoToast => timers # <<>> /\ timers[Len(timers)] = toast
=============================================================================
