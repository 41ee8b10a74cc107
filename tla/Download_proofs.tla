--------------------------- MODULE Download_proofs ---------------------------
(* Under the lock only the archive with the stated digest is kept and       *)
(* unpacked, for any number of jobs and mirrors, if writes do not fail.     *)
EXTENDS Download, TLAPS

\* The steps a job takes while it holds the lock.
Inside == {"mirror", "fetch", "status", "check", "unlink", "move", "cleanup", "there"}

HoldsLock == \A j \in Job : pc[j] \in Inside => lock = j

\* Where the digest is looked at, it is that of FILE.dl.
DigestOfFile ==
    HashKnown => \A j \in Job :
        pc[j] = "check" /\ hash = "match" => dl = "good"

IInv == TypeOK /\ HoldsLock /\ DigestOfFile /\ CheckedIsMoved /\ OnlyGood

-----------------------------------------------------------------------------
LEMMA InitIInv == Init => IInv
BY DownloadAssumption DEF Init, IInv, TypeOK, HoldsLock, DigestOfFile, CheckedIsMoved,
   OnlyGood, Inside, Steps, Content

\* With writes that do not fail, the file is what the stream was.
LEMMA WrittenWhole ==
    ASSUME ~WriteMayFail, NEW c, NEW w \in Written(c) PROVE w = c
BY DEF Written

\* Every step keeps the invariant.
LEMMA StepIInv ==
    ASSUME ~WriteMayFail, IInv, [Next]_vars PROVE IInv'
<1> USE DownloadAssumption DEF IInv, Goto, Inside
<1>1. ASSUME NEW j \in Job, Start(j) PROVE IInv'
  <2>1. TypeOK'
    BY <1>1 DEF Start, TypeOK, Steps, Content
  <2>2. HoldsLock'
    BY <1>1 DEF Start, HoldsLock, TypeOK
  <2>3. (DigestOfFile /\ CheckedIsMoved /\ OnlyGood)'
    BY <1>1 DEF Start, DigestOfFile, CheckedIsMoved, OnlyGood, TypeOK
  <2> QED BY <2>1, <2>2, <2>3
<1>2. ASSUME NEW j \in Job, Acquire(j) PROVE IInv'
  <2>1. TypeOK'
    BY <1>2 DEF Acquire, TypeOK, Steps, Content
  <2>2. HoldsLock'
    BY <1>2 DEF Acquire, HoldsLock, TypeOK
  <2>3. (DigestOfFile /\ CheckedIsMoved /\ OnlyGood)'
    BY <1>2 DEF Acquire, DigestOfFile, CheckedIsMoved, OnlyGood, TypeOK
  <2> QED BY <2>1, <2>2, <2>3
<1>3. ASSUME NEW j \in Job, NextMirror(j) PROVE IInv'
  <2>1. TypeOK'
    BY <1>3 DEF NextMirror, Release, TypeOK, Steps, Content
  <2>2. HoldsLock'
    BY <1>3 DEF NextMirror, Release, HoldsLock, TypeOK
  <2>3. (DigestOfFile /\ CheckedIsMoved /\ OnlyGood)'
    BY <1>3 DEF NextMirror, DigestOfFile, CheckedIsMoved, OnlyGood, TypeOK
  <2> QED BY <2>1, <2>2, <2>3
<1>4. ASSUME NEW j \in Job, LocalMisses(j) PROVE IInv'
  <2>1. TypeOK' /\ HoldsLock'
    BY <1>4 DEF LocalMisses, TypeOK, HoldsLock, Steps, Content
  <2>2. (DigestOfFile /\ CheckedIsMoved /\ OnlyGood)'
    BY <1>4 DEF LocalMisses, DigestOfFile, CheckedIsMoved, OnlyGood, HoldsLock, TypeOK
  <2> QED BY <2>1, <2>2
<1>5. ASSUME NEW j \in Job, LocalCopy(j) PROVE IInv'
  <2>1. dl' \in Content \cup {None} /\ hash' \in Hashed(dl')
    BY <1>5 DEF LocalCopy, Written, TypeOK, Content
  <2>2. hash' \in {"match", "differ", "empty", None}
    BY <2>1 DEF Hashed, TypeOK
  <2>3. TypeOK' /\ HoldsLock'
    BY <1>5, <2>1, <2>2 DEF LocalCopy, TypeOK, HoldsLock, Steps
  <2>4. HashKnown /\ hash' = "match" => dl' = "good"
    BY <2>1 DEF Hashed, Content
  <2>5. DigestOfFile'
    BY <2>4 DEF DigestOfFile
  <2>6. (CheckedIsMoved /\ OnlyGood)'
    BY <1>5 DEF LocalCopy, CheckedIsMoved, OnlyGood, HoldsLock, TypeOK
  <2> QED BY <2>3, <2>5, <2>6
<1>6. ASSUME NEW j \in Job, WgetOpen(j) PROVE IInv'
  <2>1. TypeOK' /\ HoldsLock'
    BY <1>6 DEF WgetOpen, TypeOK, HoldsLock, Steps, Content
  <2>2. (DigestOfFile /\ CheckedIsMoved /\ OnlyGood)'
    BY <1>6 DEF WgetOpen, DigestOfFile, CheckedIsMoved, OnlyGood, HoldsLock, TypeOK
  <2> QED BY <2>1, <2>2
<1>7. ASSUME NEW j \in Job, WgetEnd(j) PROVE IInv'
  <2>1. PICK c \in Content, w \in Content, ok \in BOOLEAN :
            /\ w \in Written(c)
            /\ dl' = w
            /\ hash' \in Hashed(c)
            /\ status' = [status EXCEPT ![j] = ok]
    BY <1>7 DEF WgetEnd
  <2>2. w = c
    BY <2>1, WrittenWhole
  <2>3. TypeOK' /\ HoldsLock'
    BY <1>7, <2>1 DEF WgetEnd, TypeOK, HoldsLock, Steps, Content, Hashed
  <2>4. DigestOfFile'
    BY <1>7, <2>1, <2>2 DEF WgetEnd, DigestOfFile, Hashed, TypeOK, Content
  <2>5. (CheckedIsMoved /\ OnlyGood)'
    BY <1>7 DEF WgetEnd, CheckedIsMoved, OnlyGood, HoldsLock, TypeOK
  <2> QED BY <2>3, <2>4, <2>5
<1>8. ASSUME NEW j \in Job, Check(j) PROVE IInv'
  <2>1. TypeOK' /\ HoldsLock'
    BY <1>8 DEF Check, TypeOK, HoldsLock, Steps, Content
  <2>2. (DigestOfFile /\ CheckedIsMoved /\ OnlyGood)'
    BY <1>8 DEF Check, Accepted, DigestOfFile, CheckedIsMoved, OnlyGood, TypeOK
  <2> QED BY <2>1, <2>2
<1>9. ASSUME NEW j \in Job, Unlink(j) PROVE IInv'
  <2>1. TypeOK' /\ HoldsLock'
    BY <1>9 DEF Unlink, TypeOK, HoldsLock, Steps, Content
  <2>2. (DigestOfFile /\ CheckedIsMoved /\ OnlyGood)'
    BY <1>9 DEF Unlink, DigestOfFile, CheckedIsMoved, OnlyGood, TypeOK
  <2> QED BY <2>1, <2>2
<1>10. ASSUME NEW j \in Job, Move(j) PROVE IInv'
  <2>1. TypeOK' /\ HoldsLock'
    BY <1>10 DEF Move, TypeOK, HoldsLock, Steps, Content
  <2>2. (DigestOfFile /\ CheckedIsMoved /\ OnlyGood)'
    BY <1>10 DEF Move, DigestOfFile, CheckedIsMoved, OnlyGood, HoldsLock, TypeOK
  <2> QED BY <2>1, <2>2
<1>11. ASSUME NEW j \in Job, Cleanup(j) PROVE IInv'
  <2>1. TypeOK' /\ HoldsLock'
    BY <1>11 DEF Cleanup, TypeOK, HoldsLock, Steps, Content
  <2>2. (DigestOfFile /\ CheckedIsMoved /\ OnlyGood)'
    BY <1>11 DEF Cleanup, DigestOfFile, CheckedIsMoved, OnlyGood, HoldsLock, TypeOK
  <2> QED BY <2>1, <2>2
<1>12. ASSUME NEW j \in Job, IsThere(j) PROVE IInv'
  <2>1. TypeOK'
    BY <1>12 DEF IsThere, Release, TypeOK, Steps, Content
  <2>2. HoldsLock'
    BY <1>12 DEF IsThere, Release, HoldsLock, TypeOK
  <2>3. (DigestOfFile /\ CheckedIsMoved /\ OnlyGood)'
    BY <1>12 DEF IsThere, DigestOfFile, CheckedIsMoved, OnlyGood, TypeOK
  <2> QED BY <2>1, <2>2, <2>3
<1>13. ASSUME NEW j \in Job, Unpack(j) PROVE IInv'
  <2>1. TypeOK' /\ HoldsLock'
    BY <1>13 DEF Unpack, TypeOK, HoldsLock, Steps, Content
  <2>2. (DigestOfFile /\ CheckedIsMoved /\ OnlyGood)'
    BY <1>13 DEF Unpack, DigestOfFile, CheckedIsMoved, OnlyGood, TypeOK
  <2> QED BY <2>1, <2>2
<1>14. ASSUME NEW j \in Job, Kill(j) PROVE IInv'
  <2>1. TypeOK'
    BY <1>14 DEF Kill, Release, TypeOK, Steps, Content
  <2>2. HoldsLock'
    BY <1>14 DEF Kill, Release, HoldsLock, TypeOK
  <2>3. (DigestOfFile /\ CheckedIsMoved /\ OnlyGood)'
    BY <1>14 DEF Kill, DigestOfFile, CheckedIsMoved, OnlyGood, TypeOK
  <2> QED BY <2>1, <2>2, <2>3
<1>15. ASSUME NEW j \in Job, FetchDies(j) \/ CheckDies(j) PROVE IInv'
  <2>1. TypeOK'
    BY <1>15 DEF FetchDies, CheckDies, Dies, Release, TypeOK, Steps, Content
  <2>2. HoldsLock'
    BY <1>15 DEF FetchDies, CheckDies, Dies, Release, HoldsLock, TypeOK
  <2>3. (CheckedIsMoved /\ OnlyGood)'
    BY <1>15 DEF FetchDies, CheckDies, Dies, CheckedIsMoved, OnlyGood, TypeOK
  <2>4. DigestOfFile'
    BY <1>15 DEF FetchDies, CheckDies, Dies, DigestOfFile, TypeOK
  <2> QED BY <2>1, <2>2, <2>3, <2>4
<1>16. CASE UNCHANGED vars
  BY <1>16 DEF vars, TypeOK, HoldsLock, DigestOfFile, CheckedIsMoved, OnlyGood
<1> QED
  BY <1>1, <1>2, <1>3, <1>4, <1>5, <1>6, <1>7, <1>8, <1>9, <1>10, <1>11, <1>12,
     <1>13, <1>14, <1>15, <1>16 DEF Next, Step

\* From the comparison of its digest to the move into place, FILE.dl stays the
\* archive that was asked for, with any number of makes about and any of them
\* interrupted anywhere.
THEOREM CheckedIsMovedKept ==
    ASSUME ~WriteMayFail PROVE Spec => []CheckedIsMoved
<1>1. Init => IInv
  BY InitIInv
<1>2. IInv /\ [Next]_vars => IInv'
  BY StepIInv
<1>3. IInv => CheckedIsMoved
  BY DEF IInv
<1> QED
  BY <1>1, <1>2, <1>3, PTL DEF Spec

\* What OnlyGood says of two jobs and two mirrors holds of any number of them:
\* whatever the mirrors send and wherever a job is interrupted, DL_DIR never
\* holds, and no job ever unpacks, an archive other than the one asked for.
THEOREM OnlyGoodKept ==
    ASSUME ~WriteMayFail PROVE Spec => [](CheckedIsMoved /\ OnlyGood)
<1>1. Init => IInv
  BY InitIInv
<1>2. IInv /\ [Next]_vars => IInv'
  BY StepIInv
<1>3. IInv => CheckedIsMoved /\ OnlyGood
  BY DEF IInv
<1> QED
  BY <1>1, <1>2, <1>3, PTL DEF Spec

-----------------------------------------------------------------------------
\* The builds that unpacked an archive, as the abstract store counts them.
Served == {j \in Job : got[j] # None}

\* Unlinking, moving into place, unpacking and an interrupt that takes the
\* archive away are the steps of the store; no other step of a job can be told
\* from nothing.
LEMMA StepStore ==
    ASSUME HashKnown, IInv, IInv', [Next]_vars PROVE [Store!Next]_(Store!vars)
<1> USE DownloadAssumption DEF IInv, OnlyGood, Store!vars
<1>1. ASSUME UNCHANGED <<target, got>> PROVE UNCHANGED Store!vars
  BY <1>1
<1>2. ASSUME NEW j \in Job, Unlink(j) PROVE [Store!Next]_(Store!vars)
  <2>1. CASE target = None
    BY <1>1, <1>2, <2>1 DEF Unlink
  <2>2. CASE target = "good"
    BY <1>2, <2>2 DEF Unlink, Store!Next, Store!Drop
  <2> QED BY <2>1, <2>2
<1>3. ASSUME NEW j \in Job, Move(j) PROVE [Store!Next]_(Store!vars)
  <2>1. CASE target' = target
    BY <1>1, <1>3, <2>1 DEF Move
  <2>2. CASE target = None /\ target' = "good"
    BY <1>3, <2>2 DEF Move, Store!Next, Store!Fetch
  <2>3. target' = "good" \/ target' = target
    BY <1>3 DEF Move, CheckedIsMoved
  <2> QED BY <2>1, <2>2, <2>3
<1>4. ASSUME NEW j \in Job, Unpack(j) PROVE [Store!Next]_(Store!vars)
  <2>1. got' = [got EXCEPT ![j] = target] /\ target' = target
    BY <1>4 DEF Unpack
  <2>2. CASE target = "good"
    <3>1. Served' = Served \cup {j}
      BY <2>1, <2>2 DEF Served, TypeOK, Content
    <3> QED BY <2>1, <2>2, <3>1 DEF Served, Store!Next, Store!Serve
  <2>3. CASE target = None
    <3>1. Served' = Served \ {j}
      BY <2>1, <2>3 DEF Served, TypeOK
    <3> QED BY <2>1, <2>3, <3>1 DEF Served, Store!Next, Store!Miss
  <2> QED BY <2>2, <2>3
<1>5. ASSUME NEW j \in Job,
             \/ Start(j) \/ Acquire(j) \/ NextMirror(j) \/ LocalMisses(j) \/ LocalCopy(j)
             \/ WgetOpen(j) \/ WgetEnd(j) \/ FetchDies(j) \/ Check(j) \/ CheckDies(j)
             \/ Cleanup(j) \/ IsThere(j)
      PROVE UNCHANGED <<target, got>>
  BY <1>5 DEF Start, Acquire, NextMirror, LocalMisses, LocalCopy, WgetOpen, WgetEnd, FetchDies,
     Check, CheckDies, Cleanup, IsThere
<1>6. ASSUME NEW j \in Job, Kill(j) PROVE [Store!Next]_(Store!vars)
  <2>1. CASE target' = target
    BY <1>1, <1>6, <2>1 DEF Kill
  <2>2. CASE target = "good" /\ target' = None
    BY <1>6, <2>2 DEF Kill, Store!Next, Store!Drop
  <2> QED BY <1>6, <2>1, <2>2 DEF Kill
<1>7. CASE UNCHANGED vars
  BY <1>1, <1>7 DEF vars
<1> QED
  BY <1>1, <1>2, <1>3, <1>4, <1>5, <1>6, <1>7 DEF Next, Step

\* With a digest that is known and writes that do not fail, the whole of locks,
\* mirrors, checks and interrupts implements a store that is served from at once.
THEOREM ImplementsStore ==
    ASSUME HashKnown, ~WriteMayFail PROVE Spec => StoreSpec
<1>1. Init => IInv /\ Store!Init
  BY InitIInv DEF Init, Store!Init
<1>2. IInv /\ [Next]_vars => IInv'
  BY StepIInv
<1>3. IInv /\ IInv' /\ [Next]_vars => [Store!Next]_(Store!vars)
  BY StepStore
<1> QED
  BY <1>1, <1>2, <1>3, PTL DEF Spec, StoreSpec, Store!Spec

-----------------------------------------------------------------------------
(* No job gives up on an archive that is there.                             *)

\* A job comes to the lock with all mirrors before it, and back from a mirror
\* only when that has left no archive.
MirrorInv ==
    \A j \in Job : /\ pc[j] = "lock" => tried[j] = 0
                   /\ pc[j] = "mirror" /\ tried[j] # 0 => target = None

VainInv == TypeOK /\ HoldsLock /\ MirrorInv

\* Whoever is inside is alone there.
LEMMA Alone ==
    ASSUME TypeOK, HoldsLock, NEW i \in Job, NEW j \in Job,
           pc[i] \in Inside, pc[j] \in Inside
    PROVE  i = j
BY DEF HoldsLock

\* Every step keeps it, whether writes fail or not.
LEMMA StepVainInv ==
    ASSUME VainInv, [Next]_vars PROVE VainInv'
<1> USE DownloadAssumption DEF VainInv, Goto, Inside
<1>1. ASSUME NEW j \in Job, Start(j) PROVE VainInv'
  BY <1>1 DEF Start, TypeOK, HoldsLock, MirrorInv, Steps, Content
<1>2. ASSUME NEW j \in Job, Acquire(j) PROVE VainInv'
  BY <1>2 DEF Acquire, TypeOK, HoldsLock, MirrorInv, Steps, Content
<1>3. ASSUME NEW j \in Job, NextMirror(j) PROVE VainInv'
  <2>1. TypeOK'
    BY <1>3 DEF NextMirror, Release, TypeOK, Steps, Content
  <2>2. HoldsLock'
    BY <1>3 DEF NextMirror, Release, HoldsLock, TypeOK
  <2>3. MirrorInv'
    BY <1>3 DEF NextMirror, MirrorInv, TypeOK
  <2> QED BY <2>1, <2>2, <2>3
<1>4. ASSUME NEW j \in Job, LocalMisses(j) \/ WgetOpen(j) \/ Check(j) \/ Cleanup(j)
      PROVE  VainInv'
  BY <1>4 DEF LocalMisses, WgetOpen, Check, Cleanup, TypeOK, HoldsLock, MirrorInv, Steps, Content
<1>5. ASSUME NEW j \in Job, LocalCopy(j) PROVE VainInv'
  <2>1. dl' \in Content \cup {None} /\ hash' \in {"match", "differ", "empty", None}
    BY <1>5 DEF LocalCopy, Written, Hashed, TypeOK, Content
  <2> QED BY <1>5, <2>1 DEF LocalCopy, TypeOK, HoldsLock, MirrorInv, Steps
<1>6. ASSUME NEW j \in Job, WgetEnd(j) PROVE VainInv'
  <2>1. dl' \in Content \cup {None} /\ hash' \in {"match", "differ", "empty", None}
    BY <1>6 DEF WgetEnd, Hashed, TypeOK
  <2> QED BY <1>6, <2>1 DEF WgetEnd, TypeOK, HoldsLock, MirrorInv, Steps
<1>7. ASSUME NEW j \in Job, Unlink(j) PROVE VainInv'
  BY <1>7 DEF Unlink, TypeOK, HoldsLock, MirrorInv, Steps, Content
<1>8. ASSUME NEW j \in Job, Move(j) PROVE VainInv'
  <2>1. TypeOK' /\ HoldsLock'
    BY <1>8 DEF Move, TypeOK, HoldsLock, Steps, Content
  <2>2. \A i \in Job : pc[i] = "mirror" => i = j
    BY <1>8, Alone DEF Move
  <2>3. MirrorInv'
    BY <1>8, <2>2 DEF Move, MirrorInv, TypeOK
  <2> QED BY <2>1, <2>3
<1>9. ASSUME NEW j \in Job, IsThere(j) PROVE VainInv'
  <2>1. TypeOK'
    BY <1>9 DEF IsThere, Release, TypeOK, Steps, Content
  <2>2. HoldsLock'
    BY <1>9 DEF IsThere, Release, HoldsLock, TypeOK
  <2>3. MirrorInv'
    BY <1>9 DEF IsThere, MirrorInv, TypeOK
  <2> QED BY <2>1, <2>2, <2>3
<1>10. ASSUME NEW j \in Job, Unpack(j) PROVE VainInv'
  BY <1>10 DEF Unpack, TypeOK, HoldsLock, MirrorInv, Steps, Content
<1>11. ASSUME NEW j \in Job, Kill(j) PROVE VainInv'
  <2>1. TypeOK'
    BY <1>11 DEF Kill, Release, TypeOK, Steps, Content
  <2>2. HoldsLock'
    BY <1>11 DEF Kill, Release, HoldsLock, TypeOK
  <2>3. MirrorInv'
    BY <1>11 DEF Kill, MirrorInv, TypeOK
  <2> QED BY <2>1, <2>2, <2>3
<1>12. ASSUME NEW j \in Job, FetchDies(j) \/ CheckDies(j) PROVE VainInv'
  <2>1. TypeOK'
    BY <1>12 DEF FetchDies, CheckDies, Dies, Release, TypeOK, Steps, Content
  <2>2. HoldsLock'
    BY <1>12 DEF FetchDies, CheckDies, Dies, Release, HoldsLock, TypeOK
  <2>3. MirrorInv'
    BY <1>12 DEF FetchDies, CheckDies, Dies, MirrorInv, TypeOK
  <2> QED BY <2>1, <2>2, <2>3
<1>13. CASE UNCHANGED vars
  BY <1>13 DEF vars, TypeOK, HoldsLock, MirrorInv
<1> QED
  BY <1>1, <1>2, <1>3, <1>4, <1>5, <1>6, <1>7, <1>8, <1>9, <1>10, <1>11, <1>12, <1>13
  DEF Next, Step

\* Only a job that has tried every mirror gives up at the mirrors.
LEMMA StepNotInVain ==
    ASSUME VainInv, [Next]_vars, NEW j \in Job, pc[j] = "mirror", pc'[j] = "failed"
    PROVE  target = None
<1>1. tried[j] # 0
  BY DownloadAssumption
  DEF VainInv, TypeOK, Next, Step, Start, Acquire, NextMirror, LocalMisses, LocalCopy, WgetOpen,
      WgetEnd, FetchDies, Check, CheckDies, Dies, Unlink, Move, Cleanup, IsThere, Unpack, Kill, Goto, vars
<1> QED
  BY <1>1 DEF VainInv, MirrorInv

\* A make gives up only when the archive is not there: whichever make fetched
\* it, and even when what it fetched was cut short by a full disk.
THEOREM NotInVainKept == Spec => NotInVain
<1>1. Init => VainInv
  BY DownloadAssumption DEF Init, VainInv, TypeOK, HoldsLock, MirrorInv, Inside, Steps, Content
<1>2. VainInv /\ [Next]_vars => VainInv'
  BY StepVainInv
<1>3. VainInv /\ [Next]_vars =>
        [\A j \in Job : pc[j] = "mirror" /\ pc'[j] = "failed" => target = None]_vars
  BY StepNotInVain
<1> QED
  BY <1>1, <1>2, <1>3, PTL DEF Spec, NotInVain
=============================================================================
