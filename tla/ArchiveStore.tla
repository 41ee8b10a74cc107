---------------------------- MODULE ArchiveStore ----------------------------
(***************************************************************************)
(* What the builds rely on of DL_DIR: an archive is either there and the   *)
(* one the package asked for, or not there, and a build is served from it  *)
(* or not at all.  Fetching takes no time and nobody is in the middle of   *)
(* it.                                                                     *)
(***************************************************************************)
CONSTANTS
    Job,    \* the builds
    None    \* no archive

VARIABLES
    stored,  \* "good" or None
    served   \* the builds that have unpacked the archive

vars == <<stored, served>>

Init == stored = None /\ served = {}

Fetch == stored = None /\ stored' = "good" /\ UNCHANGED served

\* The archive is removed, to be fetched again.
Drop == stored = "good" /\ stored' = None /\ UNCHANGED served

Serve(j) ==
    /\ stored = "good"
    /\ served' = served \cup {j}
    /\ UNCHANGED stored

\* A build that was served before finds nothing when it starts over.
Miss(j) ==
    /\ stored = None
    /\ served' = served \ {j}
    /\ UNCHANGED stored

Next == Fetch \/ Drop \/ \E j \in Job : Serve(j) \/ Miss(j)

Spec == Init /\ [][Next]_vars
=============================================================================
