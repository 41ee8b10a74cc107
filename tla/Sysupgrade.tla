----------------------------- MODULE Sysupgrade -----------------------------
(* Upgrading the firmware of a device with its configuration kept:          *)
(* /sbin/sysupgrade and lib/upgrade/common.sh save the files of /etc into   *)
(* an archive in /tmp, flash the image with the archive appended, and on    *)
(* the next boot lib/preinit/80_mount_root unpacks it again; etc/init.d/done*)
(* removes what is left.  Power may fail at any step.                       *)
(*                                                                          *)
(* What the overlay file system holds after a power cut is any of the       *)
(* states it went through since the last sync (writes reach it in order).   *)
EXTENDS FiniteSets

CONSTANTS
    File,              \* the files that are kept
    Absent,            \* the value, in an archive, of a file it lacks
    None,              \* no archive
    Fault              \* what may go wrong beside power cuts while nothing is restored:
                       \* "ramdisk", sysupgrade runs from a ramdisk (initramfs), "cut",
                       \* power fails while the archive is unpacked, "full", /tmp fills,
                       \* "early", files are changed before init.d/done has run

VARIABLES
    at,         \* where the device is: a step of sysupgrade or of the boot
    ram,        \* it runs from a ramdisk: the root has no type
    live,       \* the overlay as the running system sees it: files and archive
    maybe,      \* the states of it a power cut may leave
    tmptgz,     \* /tmp/sysupgrade.tgz
    firmware,   \* "old", "new" or "broken"
    keep,       \* SAVE_CONFIG
    todo,       \* files of the archive not yet unpacked
    \* what is owed to the user:
    asked,      \* the files this run of sysupgrade has to keep
    want,       \* the files a completed upgrade has promised, or None
    edited,     \* files the user has changed, and synced, since
    fault       \* the faults this device may meet; it never changes

vars == <<at, ram, live, maybe, tmptgz, firmware, keep, todo, asked, want, edited, fault>>
owed == <<asked, want, edited>>

Value == {"default", "mine", "other", "edited"}
Files == [File -> Value]
Archive == [File -> Value \cup {Absent}]
Overlay == [conf : Files, tgz : Archive \cup {None}]
Steps == {"up", "asked", "saved", "killed", "flash", "flashed", "dead",
          "off", "mount", "move", "unlink", "unpack", "remove", "sync", "boot"}

ASSUME UpgradeAssumption ==
    /\ Fault \subseteq {"ramdisk", "cut", "full", "early"}
    /\ Absent \notin Value /\ None \notin Archive

\* Type of the variables; what runs is one of the states a cut may leave, and
\* what is to be unpacked is in the archive in /tmp.
TypeOK ==
    /\ at \in Steps
    /\ live \in maybe /\ \A s \in maybe : s \in Overlay
    /\ tmptgz \in Archive \cup {None}
    /\ firmware \in {"old", "new", "broken"}
    /\ {ram, keep} \subseteq BOOLEAN
    /\ todo \subseteq File /\ edited \subseteq File
    /\ at = "move" => live.tgz # None
    /\ at \notin {"unlink", "unpack"} => todo = {}
    /\ todo # {} => tmptgz # None /\ \A f \in todo : tmptgz[f] # Absent
    /\ asked \in Files \cup {None} /\ want \in Files \cup {None}
    /\ fault \subseteq Fault

Init ==
    /\ fault \in SUBSET Fault
    /\ at = "up" /\ ram \in {FALSE, "ramdisk" \in fault}
    /\ live = [conf |-> [f \in File |-> "mine"], tgz |-> None]
    /\ maybe = {live}
    /\ tmptgz = None
    /\ firmware = "old"
    /\ keep = FALSE /\ todo = {}
    /\ asked = None /\ want = None /\ edited = {}

Write(new) == live' = new /\ maybe' = maybe \cup {new}
Sync == maybe' = {live} /\ UNCHANGED live

\* What is written of an archive: all of it, or less when /tmp is full.
Packed(arch) ==
    {arch} \cup IF "full" \in fault
                THEN {[f \in File |-> IF f \in some THEN arch[f] ELSE Absent] :
                         some \in SUBSET File}
                ELSE {}

-----------------------------------------------------------------------------
\* An archive given by the user.
Given == [f \in File |-> "other"]

\* sysupgrade -T -f archive: the archive is copied to /tmp and stays there.
Test ==
    /\ at = "up"
    /\ tmptgz' \in Packed(Given)
    /\ UNCHANGED <<at, ram, live, maybe, firmware, keep, todo, owed>>

\* sysupgrade image: the image check has passed, or --force was given.
\* -n keeps nothing, -f takes the archive given.
Ask ==
    /\ at = "up"
    /\ at' = "asked"
    /\ keep' \in BOOLEAN
    /\ asked' = IF keep' /\ ~ram THEN live.conf ELSE None
    /\ UNCHANGED <<ram, live, maybe, tmptgz, firmware, todo, want, edited>>

(* Bug: an archive that is there is taken to be the one wanted. *)
SaveConfigOnce ==
    /\ at = "asked" /\ keep
    /\ IF ram \/ tmptgz # None THEN UNCHANGED tmptgz ELSE tmptgz' \in Packed(live.conf)
    /\ at' = "saved"
    /\ UNCHANGED <<ram, live, maybe, firmware, keep, todo, owed>>

\* do_save_conffiles: from a ramdisk it says that it cannot and returns 0;
\* the status of tar is not looked at.
SaveConfig ==
    /\ at = "asked" /\ keep
    /\ IF ram THEN UNCHANGED tmptgz ELSE tmptgz' \in Packed(live.conf)
    /\ at' = "saved"
    /\ UNCHANGED <<ram, live, maybe, firmware, keep, todo, owed>>

\* The copy is not checked either.
TakeGiven ==
    /\ at = "asked" /\ keep
    /\ tmptgz' \in Packed(Given)
    /\ asked' = Given
    /\ at' = "saved"
    /\ UNCHANGED <<ram, live, maybe, firmware, keep, todo, want, edited>>

SaveNothing ==
    /\ at = "asked" /\ ~keep
    /\ at' = "saved"
    /\ UNCHANGED <<ram, live, maybe, tmptgz, firmware, keep, todo, owed>>

\* The processes are killed and the root is moved into a ramdisk; if that fails
\* only a reboot helps.
KillAndSwitch ==
    /\ at = "saved"
    /\ at' \in IF ram THEN {"killed"} ELSE {"killed", "dead"}
    /\ UNCHANGED <<ram, live, maybe, tmptgz, firmware, keep, todo, owed>>

\* default_do_upgrade: sync, then mtd begins to write.
FlashBegin ==
    /\ at = "killed"
    /\ Sync
    /\ firmware' = "broken"
    /\ at' = "flash"
    /\ UNCHANGED <<ram, tmptgz, keep, todo, owed>>

\* mtd is done: the image is new, the overlay is empty but for the archive.
FlashEnd ==
    /\ at = "flash"
    /\ firmware' = "new"
    /\ live' = [conf |-> [f \in File |-> "default"], tgz |-> IF keep THEN tmptgz ELSE None]
    /\ maybe' = {live'}
    /\ want' = IF keep /\ asked # None THEN asked ELSE [f \in File |-> "default"]
    /\ edited' = {}
    /\ at' = "flashed"
    /\ UNCHANGED <<ram, tmptgz, keep, todo, asked>>

Restoring == at \in {"unlink", "unpack", "remove", "sync"}

\* reboot -f, or a power cut: /tmp is lost, the overlay is as it was at some
\* moment since the last sync.  Cut before mtd has appended the archive the new
\* image starts with the defaults.
PowerCut ==
    /\ at # "off"
    /\ Restoring => "cut" \in fault
    /\ \/ at # "flash" /\ live' \in maybe /\ UNCHANGED <<firmware, want, edited>>
       \/ /\ at = "flash"
          /\ live' = [conf |-> [f \in File |-> "default"], tgz |-> None]
          /\ firmware' \in {"broken", "new"}
          /\ want' = None /\ edited' = {}
    /\ maybe' = {live'}
    /\ tmptgz' = None
    /\ todo' = {}
    /\ at' = "off"
    /\ asked' = None /\ keep' = FALSE
    /\ UNCHANGED ram

-----------------------------------------------------------------------------
\* Preinit of a whole image, from flash.
PowerOn ==
    /\ at = "off" /\ firmware # "broken"
    /\ at' = "mount" /\ ram' = FALSE
    /\ UNCHANGED <<live, maybe, tmptgz, firmware, keep, todo, owed>>

\* do_mount_root
MountRoot ==
    /\ at = "mount"
    /\ at' = IF live.tgz = None THEN "boot" ELSE "move"
    /\ UNCHANGED <<ram, live, maybe, tmptgz, firmware, keep, todo, owed>>

\* mv sysupgrade.tgz /tmp is a copy between file systems ...
MoveCopy ==
    /\ at = "move"
    /\ tmptgz' \in Packed(live.tgz)
    /\ at' = IF tmptgz' = live.tgz THEN "unlink" ELSE "unpack"
    /\ todo' = {f \in File : tmptgz'[f] # Absent}
    /\ UNCHANGED <<ram, live, maybe, firmware, keep, owed>>

\* ... and a removal, if the copy is whole.
MoveUnlink ==
    /\ at = "unlink"
    /\ Write([live EXCEPT !.tgz = None])
    /\ at' = "unpack"
    /\ UNCHANGED <<ram, tmptgz, firmware, keep, todo, owed>>

\* tar xzf writes file by file.
Unpack ==
    /\ at = "unpack"
    /\ IF todo = {}
       THEN at' = "remove" /\ UNCHANGED <<live, maybe, todo>>
       ELSE \E f \in todo :
               /\ Write([live EXCEPT !.conf[f] = tmptgz[f]])
               /\ todo' = todo \ {f}
               /\ UNCHANGED at
    /\ UNCHANGED <<ram, tmptgz, firmware, keep, owed>>

RemoveTmp ==
    /\ at = "remove"
    /\ tmptgz' = None
    /\ at' = "sync"
    /\ UNCHANGED <<ram, live, maybe, firmware, keep, todo, owed>>

(* Bug: the restored files are not synced. *)
SyncRestoredNot ==
    /\ at = "sync"
    /\ at' = "boot"
    /\ UNCHANGED <<ram, live, maybe, tmptgz, firmware, keep, todo, owed>>

SyncRestored ==
    /\ at = "sync"
    /\ Sync
    /\ at' = "boot"
    /\ UNCHANGED <<ram, tmptgz, firmware, keep, todo, owed>>

(* Bug: an archive that could not be moved is left. *)
DoneLeaves ==
    /\ at = "boot"
    /\ at' = "up"
    /\ UNCHANGED <<ram, live, maybe, tmptgz, firmware, keep, todo, owed>>

\* init.d/done, the last script of the boot
Done ==
    /\ at = "boot"
    /\ Write([live EXCEPT !.tgz = None])
    /\ at' = "up"
    /\ UNCHANGED <<ram, tmptgz, firmware, keep, todo, owed>>

\* The user, or a script of the boot that comes before init.d/done, changes a
\* file of the upgraded device and it reaches the flash.
UserEdit(f) ==
    /\ at = "up" \/ (at = "boot" /\ "early" \in fault)
    /\ firmware = "new"
    /\ live' = [live EXCEPT !.conf[f] = "edited"]
    /\ maybe' = {live'}
    /\ edited' = edited \cup {f}
    /\ UNCHANGED <<at, ram, tmptgz, firmware, keep, todo, asked, want>>

Next ==
    /\ \/ Test \/ Ask \/ SaveConfig \/ TakeGiven \/ SaveNothing \/ KillAndSwitch
       \/ FlashBegin \/ FlashEnd \/ PowerCut
       \/ PowerOn \/ MountRoot \/ MoveCopy \/ MoveUnlink \/ Unpack \/ RemoveTmp
       \/ SyncRestored \/ Done
       \/ \E f \in File : UserEdit(f)
    /\ UNCHANGED fault

\* The device boots by itself when it has power.
Spec == Init /\ [][Next]_vars

-----------------------------------------------------------------------------
(* Properties.                                                              *)

\* ConfigKept: once an upgrade was flashed whole, a device that is up has every
\* file that was to be kept, but for those changed since.  A ramdisk, a cut and
\* a full /tmp each break the promise.
ConfigKept ==
    fault \subseteq {"early"} /\ at = "up" /\ want # None =>
        \A f \in File \ edited : live.conf[f] = want[f]

\* An archive that could not be moved for want of room is still there when the
\* first scripts of the boot change files.
EditsBeforeDone == {"early", "full"} \subseteq fault

\* EditsStay: the archive of an upgrade is unpacked for the last time before
\* anybody changes a file: no boot takes the changes back.
EditsStay == at = "up" /\ ~EditsBeforeDone => \A f \in edited : live.conf[f] = "edited"

\* ArchiveAsked: the archive appended to an image is the configuration this run
\* saved or was given, never one that an earlier run left in /tmp, which a run
\* from a ramdisk takes, nor the part of it that fits.
ArchiveAsked ==
    fault \subseteq {"cut", "early"} /\ at = "flashed" /\ live.tgz # None =>
        asked # None /\ live.tgz = asked
=============================================================================
