-------------------------- MODULE Sysupgrade_proofs --------------------------
(* What an upgrade keeps, for any set of files and any number of upgrades   *)
(* and power cuts.                                                          *)
EXTENDS Sysupgrade, TLAPS

\* Edits are only made where no archive is left, neither in what runs nor in
\* what a power cut may leave, so nothing can be unpacked over them.
EditsSafe == ~EditsBeforeDone =>
    /\ edited # {} => \A s \in maybe :
          s.tgz = None /\ \A f \in edited : s.conf[f] = "edited"
    /\ at = "up" => live.tgz = None
    /\ at \in {"move", "unlink", "unpack", "remove", "sync"} => edited = {}
    /\ "full" \notin fault /\ at \in {"unpack", "remove", "sync", "boot"} => live.tgz = None

EInv == TypeOK /\ EditsSafe

\* The archive in /tmp is what this run is to keep from when it is made until
\* it is flashed, where nothing but a cut may go wrong.
ArchiveReady ==
    fault \subseteq {"cut", "early"} =>
    /\ ~ram
    /\ at = "asked" /\ keep => asked = live.conf
    /\ at \in {"saved", "killed", "flash"} /\ keep => asked # None /\ tmptgz = asked

AInv == TypeOK /\ ArchiveReady /\ ArchiveAsked

\* An overlay from which the boot gets what was promised: it has the files, or
\* the archive they are in.
Holds(s) ==
    IF s.tgz = None THEN \A f \in File \ edited : s.conf[f] = want[f]
    ELSE s.tgz = want

\* Wherever power may fail each state it may leave is such an overlay, and
\* while the archive is unpacked the files not yet written are in /tmp.
Promised ==
    fault \subseteq {"early"} =>
    /\ want # None => (~Restoring => \A s \in maybe : Holds(s))
    /\ at \in {"unlink", "unpack"} /\ want # None =>
          /\ tmptgz = want
          /\ \A f \in File \ todo : live.conf[f] = want[f]
    /\ at = "unlink" /\ want # None => todo = File
    /\ at \in {"unpack", "remove", "sync", "boot"} => live.tgz = None
    /\ at \in {"remove", "sync"} /\ want # None => \A f \in File : live.conf[f] = want[f]

CInv == EInv /\ AInv /\ Promised

-----------------------------------------------------------------------------
\* What tar leaves of an archive is an archive; with room, all of it.
LEMMA PackedArchive ==
    ASSUME NEW arch \in Archive, NEW t \in Packed(arch)
    PROVE  t \in Archive /\ ("full" \notin fault => t = arch)
BY DEF Packed, Archive

\* The configuration of a fresh image, and an archive given by the user.
LEMMA Made ==
    /\ [f \in File |-> "default"] \in Files
    /\ [f \in File |-> "other"] \in Files
    /\ Files \subseteq Archive
    /\ \A c \in Files : c # None /\ \A f \in File : c[f] # Absent
BY UpgradeAssumption DEF Files, Archive, Value

\* Every step keeps the types.
LEMMA StepTypeOK ==
    ASSUME TypeOK, [Next]_vars PROVE TypeOK'
<1>0. fault' = fault BY DEF Next, vars
<1> USE <1>0, UpgradeAssumption DEF TypeOK, Overlay, Files, Archive, Value, Steps, Packed, Given, Write, Sync, owed
<1>1. CASE Test BY <1>1 DEF Test
<1>2. CASE Ask BY <1>2 DEF Ask
<1>3. CASE SaveConfig BY <1>3 DEF SaveConfig
<1>4. CASE TakeGiven BY <1>4 DEF TakeGiven
<1>5. CASE SaveNothing BY <1>5 DEF SaveNothing
<1>6. CASE KillAndSwitch BY <1>6 DEF KillAndSwitch
<1>7. CASE FlashBegin BY <1>7 DEF FlashBegin
<1>8. CASE FlashEnd BY <1>8 DEF FlashEnd
<1>9. CASE PowerCut
  <2>1. CASE at # "flash" BY <1>9, <2>1 DEF PowerCut
  <2>2. CASE at = "flash"
    <3>1. live' \in Overlay /\ maybe' = {live'} BY <1>9, <2>2, Made DEF PowerCut
    <3>2. /\ tmptgz' = None /\ todo' = {} /\ edited' = {} /\ at' = "off"
          /\ asked' = None /\ want' = None /\ keep' = FALSE /\ ram' = ram
          /\ firmware' \in {"broken", "new"}
      BY <1>9, <2>2 DEF PowerCut
    <3> QED BY <3>1, <3>2
  <2> QED BY <2>1, <2>2
<1>10. CASE PowerOn BY <1>10 DEF PowerOn
<1>11. CASE MountRoot BY <1>11 DEF MountRoot
<1>12. CASE MoveCopy
  <2>1. live.tgz \in Archive BY <1>12 DEF MoveCopy
  <2>2. tmptgz' \in Archive BY <1>12, <2>1, PackedArchive DEF MoveCopy
  <2> QED BY <1>12, <2>1, <2>2 DEF MoveCopy
<1>13. CASE MoveUnlink BY <1>13 DEF MoveUnlink
<1>14. CASE Unpack
  <2>1. CASE todo = {} BY <1>14, <2>1 DEF Unpack
  <2>2. ASSUME NEW f \in todo, Write([live EXCEPT !.conf[f] = tmptgz[f]]),
               todo' = todo \ {f}, UNCHANGED at
        PROVE  TypeOK'
    <3>1. f \in File /\ tmptgz \in Archive /\ tmptgz[f] # Absent BY <2>2
    <3>2. tmptgz[f] \in Value BY <3>1
    <3>3. live \in Overlay BY DEF TypeOK
    <3>4. live' \in Overlay BY <2>2, <3>1, <3>2, <3>3
    <3> QED BY <1>14, <2>2, <3>4 DEF Unpack
  <2> QED BY <1>14, <2>1, <2>2 DEF Unpack
<1>15. CASE RemoveTmp BY <1>15 DEF RemoveTmp
<1>16. CASE SyncRestored BY <1>16 DEF SyncRestored
<1>17. CASE Done BY <1>17 DEF Done
<1>18. ASSUME NEW f \in File, UserEdit(f) PROVE TypeOK' BY <1>18 DEF UserEdit
<1>19. CASE UNCHANGED vars BY <1>19 DEF vars
<1> QED BY <1>1, <1>2, <1>3, <1>4, <1>5, <1>6, <1>7, <1>8, <1>9, <1>10, <1>11, <1>12, <1>13, <1>14, <1>15, <1>16, <1>17, <1>18, <1>19 DEF Next

\* Every step keeps the edits safe.
LEMMA StepEdits ==
    ASSUME EInv, [Next]_vars PROVE EditsSafe'
<1>0. fault' = fault BY DEF Next, vars
<1> USE <1>0, UpgradeAssumption DEF EInv, EditsSafe, EditsBeforeDone, TypeOK, Overlay, Files, Archive, Packed, Given, Write, Sync, owed
<1>1. CASE Test BY <1>1 DEF Test
<1>2. CASE Ask BY <1>2 DEF Ask
<1>3. CASE SaveConfig BY <1>3 DEF SaveConfig
<1>4. CASE TakeGiven BY <1>4 DEF TakeGiven
<1>5. CASE SaveNothing BY <1>5 DEF SaveNothing
<1>6. CASE KillAndSwitch BY <1>6 DEF KillAndSwitch
<1>7. CASE FlashBegin BY <1>7 DEF FlashBegin
<1>8. CASE FlashEnd BY <1>8 DEF FlashEnd
<1>9. CASE PowerCut BY <1>9 DEF PowerCut
<1>10. CASE PowerOn BY <1>10 DEF PowerOn
<1>11. CASE MountRoot BY <1>11 DEF MountRoot
<1>12. CASE MoveCopy BY <1>12 DEF MoveCopy
<1>13. CASE MoveUnlink BY <1>13 DEF MoveUnlink
<1>14. CASE Unpack BY <1>14 DEF Unpack
<1>15. CASE RemoveTmp BY <1>15 DEF RemoveTmp
<1>16. CASE SyncRestored BY <1>16 DEF SyncRestored
<1>17. CASE Done BY <1>17 DEF Done
<1>18. ASSUME NEW f \in File, UserEdit(f) PROVE EditsSafe' BY <1>18 DEF UserEdit
<1>19. CASE UNCHANGED vars BY <1>19 DEF vars
<1> QED BY <1>1, <1>2, <1>3, <1>4, <1>5, <1>6, <1>7, <1>8, <1>9, <1>10, <1>11, <1>12, <1>13, <1>14, <1>15, <1>16, <1>17, <1>18, <1>19 DEF Next

\* Every step keeps the archive the one asked for.
LEMMA StepArchive ==
    ASSUME AInv, [Next]_vars PROVE (ArchiveReady /\ ArchiveAsked)'
<1>0. fault' = fault BY DEF Next, vars
<1> USE <1>0, UpgradeAssumption DEF AInv, ArchiveReady, ArchiveAsked, TypeOK, Overlay, Files, Archive, Packed, Given, Write, Sync, owed
<1>1. CASE Test BY <1>1 DEF Test
<1>2. CASE Ask BY <1>2 DEF Ask
<1>3. CASE SaveConfig BY <1>3 DEF SaveConfig
<1>4. CASE TakeGiven BY <1>4, Made DEF TakeGiven
<1>5. CASE SaveNothing BY <1>5 DEF SaveNothing
<1>6. CASE KillAndSwitch BY <1>6 DEF KillAndSwitch
<1>7. CASE FlashBegin BY <1>7 DEF FlashBegin
<1>8. CASE FlashEnd BY <1>8 DEF FlashEnd
<1>9. CASE PowerCut BY <1>9 DEF PowerCut
<1>10. CASE PowerOn BY <1>10 DEF PowerOn
<1>11. CASE MountRoot BY <1>11 DEF MountRoot
<1>12. CASE MoveCopy BY <1>12 DEF MoveCopy
<1>13. CASE MoveUnlink BY <1>13 DEF MoveUnlink
<1>14. CASE Unpack BY <1>14 DEF Unpack
<1>15. CASE RemoveTmp BY <1>15 DEF RemoveTmp
<1>16. CASE SyncRestored BY <1>16 DEF SyncRestored
<1>17. CASE Done BY <1>17 DEF Done
<1>18. ASSUME NEW f \in File, UserEdit(f) PROVE (ArchiveReady /\ ArchiveAsked)' BY <1>18 DEF UserEdit
<1>19. CASE UNCHANGED vars BY <1>19 DEF vars
<1> QED BY <1>1, <1>2, <1>3, <1>4, <1>5, <1>6, <1>7, <1>8, <1>9, <1>10, <1>11, <1>12, <1>13, <1>14, <1>15, <1>16, <1>17, <1>18, <1>19 DEF Next

\* Every step keeps the promise.
LEMMA StepPromised ==
    ASSUME CInv, [Next]_vars PROVE Promised'
<1>0. fault' = fault BY DEF Next, vars
<1> USE <1>0, UpgradeAssumption DEF CInv, EInv, EditsSafe, EditsBeforeDone, AInv, ArchiveReady, Promised, Holds, Restoring, TypeOK, Overlay, Files, Archive, Packed, Given, Write, Sync, owed
<1>1. CASE Test BY <1>1 DEF Test
<1>2. CASE Ask BY <1>2 DEF Ask
<1>3. CASE SaveConfig BY <1>3 DEF SaveConfig
<1>4. CASE TakeGiven BY <1>4 DEF TakeGiven
<1>5. CASE SaveNothing BY <1>5 DEF SaveNothing
<1>6. CASE KillAndSwitch BY <1>6 DEF KillAndSwitch
<1>7. CASE FlashBegin BY <1>7 DEF FlashBegin
<1>8. CASE FlashEnd BY <1>8 DEF FlashEnd
<1>9. CASE PowerCut BY <1>9 DEF PowerCut
<1>10. CASE PowerOn BY <1>10 DEF PowerOn
<1>11. CASE MountRoot BY <1>11 DEF MountRoot
<1>12. CASE MoveCopy
  <2>1. CASE ~(fault \subseteq {"early"}) BY <2>1
  <2>2. CASE fault \subseteq {"early"}
    <3>1. live.tgz \in Archive /\ (want # None => live.tgz = want) BY <1>12, <2>2 DEF MoveCopy
    <3>2. tmptgz' = live.tgz BY <1>12, <2>2, <3>1, PackedArchive DEF MoveCopy
    <3>3. want # None => todo' = File BY <1>12, <3>1, <3>2, Made DEF MoveCopy
    <3> QED BY <1>12, <2>2, <3>1, <3>2, <3>3 DEF MoveCopy
  <2> QED BY <2>1, <2>2
<1>13. CASE MoveUnlink BY <1>13 DEF MoveUnlink
<1>14. CASE Unpack BY <1>14 DEF Unpack
<1>15. CASE RemoveTmp BY <1>15 DEF RemoveTmp
<1>16. CASE SyncRestored BY <1>16 DEF SyncRestored
<1>17. CASE Done BY <1>17 DEF Done
<1>18. ASSUME NEW f \in File, UserEdit(f) PROVE Promised' BY <1>18 DEF UserEdit
<1>19. CASE UNCHANGED vars BY <1>19 DEF vars
<1> QED BY <1>1, <1>2, <1>3, <1>4, <1>5, <1>6, <1>7, <1>8, <1>9, <1>10, <1>11, <1>12, <1>13, <1>14, <1>15, <1>16, <1>17, <1>18, <1>19 DEF Next

\* It starts from flash unless ramdisks are allowed, with nothing to restore.
LEMMA Starts ==
    Init => TypeOK /\ ("ramdisk" \notin fault => ~ram)
<1> SUFFICES ASSUME Init PROVE TypeOK /\ ("ramdisk" \notin fault => ~ram)
  OBVIOUS
<1>1. ram \in BOOLEAN /\ ("ramdisk" \notin fault => ~ram)
  <2>2. CASE ram = FALSE BY <2>2
  <2>3. CASE ram = ("ramdisk" \in fault)
    <3>1. ram \in BOOLEAN
      <4>1. CASE "ramdisk" \in fault BY <2>3, <4>1
      <4>2. CASE "ramdisk" \notin fault BY <2>3, <4>2
      <4> QED BY <4>1, <4>2
    <3>2. "ramdisk" \notin fault => ~ram BY <2>3, Zenon
    <3> QED BY <3>1, <3>2
  <2> QED BY <2>2, <2>3 DEF Init
<1>2. live \in Overlay /\ maybe = {live}
  BY DEF Init, Overlay, Files, Value
<1> QED BY <1>1, <1>2 DEF Init, TypeOK, Steps

-----------------------------------------------------------------------------
\* Types, for any files and any faults.
THEOREM TypeCorrect == Spec => []TypeOK
BY Starts, StepTypeOK, PTL DEF Spec

\* Whatever power cuts an upgrade meets, from flash or from a ramdisk, an archive
\* never takes back what was changed after it; nor where /tmp is full, if changes
\* wait for init.d/done.
THEOREM EditsNeverUndone == Spec => []EditsStay
<1>1. Init => EditsSafe
  BY DEF Init, EditsSafe
<1>2. EInv => EditsStay
  BY DEF EInv, TypeOK, EditsSafe, EditsStay
<1> QED BY <1>1, <1>2, TypeCorrect, StepEdits, PTL DEF Spec, EInv

\* From flash and with room in /tmp, only the configuration this run was asked
\* to keep is appended to an image.
THEOREM ArchiveIsAsked == Spec => []ArchiveAsked
<1>1. Init => ArchiveReady /\ ArchiveAsked
  BY Starts DEF Init, ArchiveReady, ArchiveAsked
<1> QED BY <1>1, TypeCorrect, StepArchive, PTL DEF Spec, AInv

\* With power while the archive is unpacked as well, a device that is up after
\* whole upgrades, however many, has the files it was to keep.
THEOREM ConfigIsKept == Spec => []ConfigKept
<1>1. Init => ArchiveReady /\ ArchiveAsked
  BY Starts DEF Init, ArchiveReady, ArchiveAsked
<1>2. CInv => ConfigKept
  BY DEF CInv, EInv, EditsSafe, EditsBeforeDone, TypeOK, Promised, Restoring, Holds, ConfigKept
<1>3. CInv /\ [Next]_vars => CInv'
  BY StepTypeOK, StepEdits, StepArchive, StepPromised DEF CInv, EInv, AInv
<1>4. Init => EditsSafe /\ Promised
  BY DEF Init, EditsSafe, Promised
<1>5. Init => CInv
  BY <1>1, <1>4, Starts DEF CInv, EInv, AInv
<1> QED BY <1>2, <1>3, <1>5, PTL DEF Spec
=============================================================================
