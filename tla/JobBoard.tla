------------------------------ MODULE JobBoard ------------------------------
(***************************************************************************)
(* What the job table promises to the people who submit jobs, without      *)
(* transactions, locks, daemons or clocks: a submitted job waits, is       *)
(* rendered, may go back to waiting, and once it is over it stays over,    *)
(* with a video or an error; at any moment at most one job is newly put    *)
(* into rendering.  JobLifecycle implements this specification.            *)
(***************************************************************************)
CONSTANT Jobs

VARIABLES phase,    \* where each job is
          video,    \* whether the job has a video to show
          hidden    \* whether its owner has deleted it

vars == <<phase, video, hidden>>

Phases == {"absent", "waiting", "rendering", "done", "error"}
Over   == {"done", "error"}

Init ==
    /\ phase  = [j \in Jobs |-> "absent"]
    /\ video  = [j \in Jobs |-> FALSE]
    /\ hidden = [j \in Jobs |-> FALSE]

Post(j) ==
    /\ phase[j] = "absent"
    /\ phase' = [phase EXCEPT ![j] = "waiting"]
    /\ UNCHANGED <<video, hidden>>

\* Give the jobs of back up and render j, a waiting job or one of those.
Assign(back, j) ==
    /\ \A k \in back : phase[k] = "rendering"
    /\ j \in back \/ phase[j] = "waiting"
    /\ phase' = [k \in Jobs |-> IF k = j THEN "rendering"
                                ELSE IF k \in back THEN "waiting"
                                ELSE phase[k]]
    /\ UNCHANGED <<video, hidden>>

\* A video arrives; a late one also ends a job that waits again, and a second
\* one replaces the first.
Deliver(j) ==
    /\ phase[j] # "absent"
    /\ phase' = [phase EXCEPT ![j] = "done"]
    /\ video' = [video EXCEPT ![j] = TRUE]
    /\ UNCHANGED hidden

\* The render is reported as failed.
Fail(j) ==
    /\ phase[j] # "absent"
    /\ phase' = [phase EXCEPT ![j] = "error"]
    /\ UNCHANGED <<video, hidden>>

Hide(j) ==
    /\ phase[j] # "absent"
    /\ hidden' = [hidden EXCEPT ![j] = TRUE]
    /\ UNCHANGED <<phase, video>>

Next ==
    \E j \in Jobs :
       \/ Post(j)
       \/ \E back \in SUBSET Jobs : Assign(back, j)
       \/ Deliver(j)
       \/ Fail(j)
       \/ Hide(j)

Spec == Init /\ [][Next]_vars
=============================================================================
