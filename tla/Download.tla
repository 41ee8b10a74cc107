------------------------------ MODULE Download ------------------------------
(* Fetching one source archive: the rule for DL_DIR/FILE of download.mk,    *)
(* which several makes may run at once (a package and its host build share  *)
(* the archive), the lock around it (locked, rules.mk) and the passes over  *)
(* the mirrors of scripts/download.pl; then the unpacking, outside the lock.*)
EXTENDS Naturals, FiniteSets

CONSTANTS
    Job,             \* the makes that need the archive
    Mirrors,         \* how many mirrors a pass has
    None,            \* no such file, or nobody
    HashKnown,       \* the package states a digest of a length hash_cmd knows
    WriteMayFail,    \* writing an archive may fail half way
    MaxStarts        \* bound: how often a job is started

ASSUME DownloadAssumption ==
    /\ Mirrors \in Nat \ {0}
    /\ None \notin Job \cup {"good", "bad", "short"}
    /\ {HashKnown, WriteMayFail} \subseteq BOOLEAN

VARIABLES
    target,     \* FILE: "good", "bad", "short" or None
    dl,         \* FILE.dl
    hash,       \* FILE.hash: "match", "differ", "empty" or None
    lock,       \* who holds TMP_DIR/.FILE.flock
    pc,         \* pc[j]: what job j does next
    tried,      \* tried[j]: mirrors used up
    status,     \* status[j]: the exit status of wget is 0
    got,        \* got[j]: what j unpacked, or None
    starts

vars == <<target, dl, hash, lock, pc, tried, status, got, starts>>

Content == {"good", "bad", "short"}
Steps == {"idle", "lock", "mirror", "fetch", "status", "check", "unlink", "move",
          "cleanup", "there", "unpack", "unpacked", "failed"}

TypeOK ==
    /\ target \in Content \cup {None} /\ dl \in Content \cup {None}
    /\ hash \in {"match", "differ", "empty", None}
    /\ lock \in Job \cup {None}
    /\ pc \in [Job -> Steps]
    /\ tried \in [Job -> 0..Mirrors]
    /\ got \in [Job -> Content \cup {None}]

Init ==
    /\ target = None /\ dl = None /\ hash = None
    /\ lock = None
    /\ pc = [j \in Job |-> "idle"]
    /\ tried = [j \in Job |-> 0]
    /\ status = [j \in Job |-> TRUE]
    /\ got = [j \in Job |-> None]
    /\ starts = [j \in Job |-> 0]

Goto(j, step) == pc' = [pc EXCEPT ![j] = step]

\* What reaches the disk of a stream with this content.
Written(c) == {c} \cup IF WriteMayFail THEN {"short"} ELSE {}

\* What ends up in .hash of a file (or stream) w: its digest, or nothing when
\* the command that makes it fails.
Hashed(w) ==
    IF ~HashKnown THEN {hash}
    ELSE IF w = None THEN {"empty"}
    ELSE {"empty", IF w = "good" THEN "match" ELSE "differ"}

(* Bug: a job that gives up keeps the lock. *)
ReleaseServed(j) == lock' = IF lock = j /\ target # None THEN None ELSE lock

\* flock ends with the commands it runs.
Release(j) == lock' = IF lock = j THEN None ELSE lock

-----------------------------------------------------------------------------
\* make: the rule runs when the archive is not there.
Start(j) ==
    /\ pc[j] \in {"idle", "failed"} /\ starts[j] < MaxStarts
    /\ starts' = [starts EXCEPT ![j] = @ + 1]
    /\ tried' = [tried EXCEPT ![j] = 0]
    /\ Goto(j, IF target = None THEN "lock" ELSE "unpack")
    /\ UNCHANGED <<target, dl, hash, lock, status, got>>

(* Bug: every job takes a lock of its own. *)
AcquireAny(j) ==
    /\ pc[j] = "lock"
    /\ lock' = j
    /\ Goto(j, "mirror")
    /\ UNCHANGED <<target, dl, hash, tried, status, got, starts>>

\* flock .FILE.flock -c '...'
Acquire(j) ==
    /\ pc[j] = "lock" /\ lock = None
    /\ lock' = j
    /\ Goto(j, "mirror")
    /\ UNCHANGED <<target, dl, hash, tried, status, got, starts>>

\* shift @mirrors or die
NextMirror(j) ==
    /\ pc[j] = "mirror"
    /\ IF tried[j] < Mirrors
       THEN /\ tried' = [tried EXCEPT ![j] = @ + 1]
            /\ Goto(j, "fetch")
            /\ UNCHANGED lock
       ELSE /\ Goto(j, "failed")
            /\ Release(j)
            /\ UNCHANGED tried
    /\ UNCHANGED <<target, dl, hash, status, got, starts>>

\* die: the rule fails, flock ends and the files stay.
Dies(j) == Goto(j, "failed") /\ Release(j)

\* A file:// mirror without the archive (or with two of that name), or one
\* that is no directory, after which FILE.dl and FILE.hash are removed.
LocalMisses(j) ==
    /\ pc[j] = "fetch"
    /\ UNCHANGED <<dl, hash>> \/ (dl' = None /\ hash' = None)
    /\ Goto(j, "there")
    /\ UNCHANGED <<target, lock, tried, status, got, starts>>

\* A file:// mirror with it: what was copied is read again for the digest.
\* Nobody asks whether the copy went well: what was in FILE.dl may still be
\* there, or nothing; a digest command that fails ends the attempt.
LocalCopy(j) ==
    /\ pc[j] = "fetch"
    /\ \E c \in {"good", "bad"} : dl' \in Written(c) \cup {dl}
    /\ hash' \in Hashed(dl')
    /\ status' = [status EXCEPT ![j] = TRUE]
    /\ Goto(j, "check") \/ (HashKnown /\ hash' = "empty" /\ Goto(j, "there"))
    /\ UNCHANGED <<target, lock, tried, got, starts>>

\* wget, the digest command or FILE.dl cannot be opened, or the digest command
\* ends before its input does (SIGPIPE).
FetchDies(j) ==
    /\ pc[j] \in {"fetch", "status"}
    /\ hash' \in {hash} \cup IF HashKnown THEN {"empty"} ELSE {}
    /\ Dies(j)
    /\ UNCHANGED <<target, dl, tried, status, got, starts>>

\* The pipes are opened: .hash and .dl are emptied.
WgetOpen(j) ==
    /\ pc[j] = "fetch"
    /\ dl' = "short"
    /\ hash' = IF HashKnown THEN "empty" ELSE hash
    /\ Goto(j, "status")
    /\ UNCHANGED <<target, lock, tried, status, got, starts>>

\* The stream goes to the digest and to .dl.  Of the status of wget only the
\* high byte is looked at: a wget that was killed by a signal counts as done.
WgetEnd(j) ==
    /\ pc[j] = "status"
    /\ \E c \in Content, w \in Content, ok \in BOOLEAN :
          /\ w \in Written(c)
          /\ c # "short" => ok
          /\ dl' = w
          /\ hash' \in Hashed(c)
          /\ status' = [status EXCEPT ![j] = ok]
    /\ Goto(j, "check")
    /\ UNCHANGED <<target, lock, tried, got, starts>>

(* Bug: any digest will do. *)
AcceptedAny == HashKnown => hash # "empty"

\* FILE.hash says nothing.
Unhashed == HashKnown /\ hash \notin {"match", "differ"}

\* The digest of a known length is compared; any other is no digest at all.
Accepted == HashKnown => hash = "match"

Check(j) ==
    /\ pc[j] = "check"
    /\ status[j] => ~Unhashed
    /\ Goto(j, IF status[j] /\ Accepted THEN "unlink" ELSE "cleanup")
    /\ UNCHANGED <<target, dl, hash, lock, tried, status, got, starts>>

\* There is nothing to compare the digest with.
CheckDies(j) ==
    /\ pc[j] = "check" /\ status[j] /\ Unhashed
    /\ Dies(j)
    /\ UNCHANGED <<target, dl, hash, tried, status, got, starts>>

Unlink(j) ==
    /\ pc[j] = "unlink"
    /\ target' = None
    /\ Goto(j, "move")
    /\ UNCHANGED <<dl, hash, lock, tried, status, got, starts>>

Move(j) ==
    /\ pc[j] = "move"
    /\ target' = IF dl = None THEN target ELSE dl
    /\ dl' = None
    /\ Goto(j, "cleanup")
    /\ UNCHANGED <<hash, lock, tried, status, got, starts>>

Cleanup(j) ==
    /\ pc[j] = "cleanup"
    /\ dl' = None /\ hash' = None
    /\ Goto(j, "there")
    /\ UNCHANGED <<target, lock, tried, status, got, starts>>

(* Bug: only a download of its own ends the loop. *)
IsThereOwn(j) ==
    /\ pc[j] = "there"
    /\ IF target # None /\ status[j]
       THEN Goto(j, "unpack") /\ Release(j)
       ELSE Goto(j, "mirror") /\ UNCHANGED lock
    /\ UNCHANGED <<target, dl, hash, tried, status, got, starts>>

\* -f target, whoever put it there, ends the loop over the mirrors.
IsThere(j) ==
    /\ pc[j] = "there"
    /\ IF target # None
       THEN Goto(j, "unpack") /\ Release(j)
       ELSE Goto(j, "mirror") /\ UNCHANGED lock
    /\ UNCHANGED <<target, dl, hash, tried, status, got, starts>>

(* Bug: an archive that is still being fetched will do. *)
UnpackAnyway(j) ==
    /\ pc[j] = "unpack"
    /\ got' = [got EXCEPT ![j] = IF target = None THEN dl ELSE target]
    /\ Goto(j, IF got'[j] = None THEN "failed" ELSE "unpacked")
    /\ UNCHANGED <<target, dl, hash, lock, tried, status, starts>>

\* Build/Prepare reads the archive; the lock is no longer held.
Unpack(j) ==
    /\ pc[j] = "unpack"
    /\ got' = [got EXCEPT ![j] = target]
    /\ Goto(j, IF target = None THEN "failed" ELSE "unpacked")
    /\ UNCHANGED <<target, dl, hash, lock, tried, status, starts>>

\* An interrupt ends the job where it is, and flock with it.  FILE.dl and
\* FILE.hash stay (download.pl installs its handler only after its loop), but
\* make may remove FILE, which was not there when its rule began.
Kill(j) ==
    /\ pc[j] \notin {"idle", "unpacked", "failed"}
    /\ starts[j] < MaxStarts
    /\ target' = target \/ (pc[j] # "unpack" /\ target' = None)
    /\ Release(j)
    /\ Goto(j, "idle")
    /\ UNCHANGED <<dl, hash, tried, status, got, starts>>

Step(j) ==
    \/ Acquire(j) \/ NextMirror(j) \/ LocalMisses(j) \/ LocalCopy(j) \/ FetchDies(j)
    \/ WgetOpen(j) \/ WgetEnd(j) \/ Check(j) \/ CheckDies(j) \/ Unlink(j) \/ Move(j)
    \/ Cleanup(j) \/ IsThere(j) \/ Unpack(j)

Next == \E j \in Job : Start(j) \/ Step(j) \/ Kill(j)

\* A process that can run does; nobody has to start or to interrupt a make.
Spec == Init /\ [][Next]_vars /\ \A j \in Job : WF_vars(Step(j))

-----------------------------------------------------------------------------
(* Properties.                                                              *)

\* CheckedIsMoved: from the comparison of the digest to the move, FILE.dl is
\* the archive that was asked for, whatever the other makes do meanwhile.
CheckedIsMoved ==
    \A j \in Job : HashKnown /\ pc[j] \in {"unlink", "move"} => dl = "good"

\* OnlyGood: nothing but the archive with the stated digest is ever unpacked
\* or left in DL_DIR for later builds, which do not check it again.
OnlyGood ==
    HashKnown => /\ target \in {"good", None}
                 /\ \A j \in Job : got[j] \in {"good", None}

\* NotInVain: a job that finds no more mirrors does so only when the archive
\* is not there: one fetched by another make is used.
NotInVain ==
    [][\A j \in Job : pc[j] = "mirror" /\ pc'[j] = "failed" => target = None]_vars

\* Ends: every make that was started is served, fails or is interrupted.
Ends ==
    \A j \in Job : pc[j] = "lock" ~> pc[j] \in {"idle", "unpacked", "failed"}

\* Store: all the makes see of DL_DIR is a store that holds the archive that was
\* asked for or nothing, and every make is served from it: the steps in between,
\* the failures and the interrupts of others cannot be told.
Store == INSTANCE ArchiveStore WITH
             stored <- target, served <- {j \in Job : got[j] # None}
StoreSpec == Store!Spec
=============================================================================
