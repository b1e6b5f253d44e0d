--------------------------- MODULE MCJobLifecycle ---------------------------
(* JobLifecycle on small instances: jobs 1 and 2, job 1 the older.         *)
EXTENDS JobLifecycle, TLC

\* Slots, daemons and media ids are interchangeable; jobs are ordered.
Symmetric ==
    Permutations(Workers) \cup Permutations(Claims) \cup Permutations(Posts)
    \cup Permutations(Media)
=============================================================================
