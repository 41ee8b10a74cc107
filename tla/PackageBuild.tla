---------------------------- MODULE PackageBuild ----------------------------
(* How the build decides that a package has to be unpacked, configured,     *)
(* compiled, packed and staged again: the stamp files of build/package.mk,  *)
(* the _check files of build/depends.mk with scripts/timestamp.pl, the .ipk *)
(* and .version rules of build/package-ipkg.mk, and make run over a list of *)
(* packages, which may be interrupted after every step.                     *)
(*                                                                          *)
(* A time is a number whose quotient by Second is the whole second that     *)
(* timestamp.pl compares; make compares the whole of it.  Every file written*)
(* takes the next number, so no two files have the same time; a file that   *)
(* does not exist has time 0, older than any.                               *)
EXTENDS Integers, Sequences, FiniteSets

CONSTANTS
    Pkg,              \* the packages
    Order,            \* the order in which a make visits them
    Deps,             \* Deps[p]: the library packages p depends on
    Value,            \* values of the option in p's PKG_CONFIG_DEPENDS
    Unset,            \* the one of them that is the empty string
    None,             \* nothing
    Second,           \* how many times there are in a second
    MaxSecond, MaxEdits, MaxAborts, MaxMakes,    \* bounds of the model
    EditWhileBuilding,    \* may a package be edited while a make runs
    QuickEdits,           \* may it be edited in the second of its last stamp
    OptionAfterAbort      \* may its option change once a make was cut short

ASSUME BuildAssumption ==
    /\ Unset \in Value
    /\ Second \in Nat \ {0}
    /\ Order \in Seq(Pkg) \ {<< >>}
    /\ Deps \in [Pkg -> SUBSET Pkg]
    /\ {EditWhileBuilding, QuickEdits, OptionAfterAbort} \subseteq BOOLEAN

VARIABLES
    src,         \* src[p]: the package directory: version, file list, ABI, time of its newest file
    option,      \* option[p]: the value .config gives the option of p
    prepared,    \* prepared[p]: .prepared_<list>: list and time
    configured,  \* configured[p][c]: time of .configured_<c>
    built,       \* built[p]: time of .built
    tree,        \* tree[p]: what PKG_BUILD_DIR holds, and the time of its newest file
    ipk,         \* ipk[p]: the package file: what it holds and its time
    version,     \* version[p]: pkginfo/p.version: the ABI and its time
    listed,      \* listed[p]: names in staging_dir/packages/p.list
    staged,      \* staged[p]: the files of p in the staging directory
    installed,   \* installed[p]: time of stamp/.p_installed
    job,         \* the make that runs
    now,         \* time of the last write
    quiet,       \* a make has succeeded and nothing was edited since it began
    edits, aborts, makes

vars == <<src, option, prepared, configured, built, tree, ipk, version,
          listed, staged, installed, job, now, quiet, edits, aborts, makes>>

sources == <<src, option, edits>>
stamps  == <<prepared, configured, built, installed>>
outputs == <<tree, ipk, version, listed, staged>>

Idle == [pc |-> "idle", todo |-> << >>, list |-> 0, conf |-> "n", dirty |-> FALSE]

NoTree == [ver |-> None, conf |-> None, libs |-> None, obj |-> None, time |-> 0]
NoConfigured == [c \in {"n", "y"} |-> 0]
NoIpk == [obj |-> None, time |-> 0]

Conf == {"n", "y"}
FileName == {"lib", "0", "1"}
Libs == (SUBSET (Pkg \X Nat)) \cup {None}
Object == [ver : Nat \cup {None}, conf : Conf \cup {None}, libs : Libs] \cup {None}
Tree == [ver : Nat \cup {None}, conf : Conf \cup {None}, libs : Libs, obj : Object, time : Nat]
File == [name : FileName, obj : Object, abi : Nat]
Steps == {"idle", "parse", "wipe", "unpack", "prepared", "clean", "unstage", "configure",
          "oldconf", "configured", "compile", "built", "pack", "ipk", "version",
          "install", "list", "copy", "installed", "done"}

\* Type of the variables; a build directory that is gone holds no stamps.
TypeOK ==
    /\ src \in [Pkg -> [ver : Nat, list : 0..1, abi : Nat, time : Nat]]
    /\ option \in [Pkg -> Value]
    /\ prepared \in [Pkg -> [list : 0..1, time : Nat]]
    /\ configured \in [Pkg -> [Conf -> Nat]]
    /\ built \in [Pkg -> Nat] /\ installed \in [Pkg -> Nat]
    /\ tree \in [Pkg -> Tree]
    /\ ipk \in [Pkg -> [obj : Object, time : Nat]]
    /\ version \in [Pkg -> [abi : Nat, time : Nat]]
    /\ listed \in [Pkg -> SUBSET FileName]
    /\ staged \in [Pkg -> SUBSET File]
    /\ job \in [pc : Steps, todo : Seq(Pkg), list : 0..1, conf : Conf, dirty : BOOLEAN]
    /\ job.pc = "idle" <=> job.todo = << >>
    /\ now \in Nat /\ quiet \in BOOLEAN
    /\ {edits, aborts, makes} \subseteq Nat
    /\ \A p \in Pkg : tree[p].time = 0 =>
          prepared[p].time = 0 /\ configured[p] = NoConfigured /\ built[p] = 0

-----------------------------------------------------------------------------
Sec(t) == t \div Second

\* confvar keeps of a value only whether it is empty (build/rules.mk).
ConfVar(c) == IF c = Unset THEN "n" ELSE "y"

\* The names Build/InstallDev gives its files.
Names(list) == {"lib", IF list = 0 THEN "0" ELSE "1"}

(* Bug: a file of the stamp's own second counts as newer. *)
UpToDateByStrictly(stamp, newest) == Sec(newest) < Sec(stamp)

\* timestamp.pl -n stamp dir: is no file of dir in a later second than stamp.
UpToDateBy(stamp, newest) == Sec(newest) <= Sec(stamp)

(* Bug: the .version files of the libraries are no prerequisites. *)
NeedPrepareNoLibs(p) ==
    \/ prepared[p].time = 0
    \/ prepared[p].list # src[p].list
    \/ ~UpToDateBy(prepared[p].time, src[p].time)

\* .prepared: the stamp's name holds the digest of the list of file names, its
\* _check is touched when a file is newer, and the pkginfo/*.version files of
\* the libraries are prerequisites.
NeedPrepare(p) ==
    \/ prepared[p].time = 0
    \/ prepared[p].list # src[p].list
    \/ ~UpToDateBy(prepared[p].time, src[p].time)
    \/ \E d \in Deps[p] : prepared[p].time < version[d].time

NeedConfigure(p) == configured[p][job.conf] < prepared[p].time

\* .built: older than .configured, or a file of the tree is newer.
NeedCompile(p) ==
    \/ built[p] < configured[p][job.conf]
    \/ ~UpToDateBy(built[p], tree[p].time)

NeedPack(p) == ipk[p].time < built[p]
NeedInstall(p) == installed[p] < built[p]

-----------------------------------------------------------------------------
Init ==
    /\ src = [p \in Pkg |-> [ver |-> 0, list |-> 0, abi |-> 0, time |-> 1]]
    /\ option = [p \in Pkg |-> Unset]
    /\ prepared = [p \in Pkg |-> [list |-> 0, time |-> 0]]
    /\ configured = [p \in Pkg |-> NoConfigured]
    /\ built = [p \in Pkg |-> 0]
    /\ tree = [p \in Pkg |-> NoTree]
    /\ ipk = [p \in Pkg |-> NoIpk]
    /\ version = [p \in Pkg |-> [abi |-> 0, time |-> 0]]
    /\ listed = [p \in Pkg |-> {}]
    /\ staged = [p \in Pkg |-> {}]
    /\ installed = [p \in Pkg |-> 0]
    /\ job = Idle
    /\ now = Second
    /\ quiet = FALSE
    /\ edits = 0 /\ aborts = 0 /\ makes = 0

P == Head(job.todo)
At(pc) == job.pc = pc
Goto(pc) == job' = [job EXCEPT !.pc = pc]

\* The next file written gets the next time.
Write == now' = now + 1

-----------------------------------------------------------------------------
(* A package's own make.  Its first step reads the file list and the option *)
(* into the names of the stamps, as the makefile is parsed.                 *)
Parse ==
    /\ At("parse")
    /\ job' = [job EXCEPT !.list = src[P].list, !.conf = ConfVar(option[P]),
                          !.pc = IF NeedPrepare(P) THEN "wipe" ELSE "clean"]
    /\ UNCHANGED <<sources, stamps, outputs, now, quiet, aborts, makes>>

\* rm -rf PKG_BUILD_DIR takes the stamps inside it along.
Wipe ==
    /\ At("wipe")
    /\ tree' = [tree EXCEPT ![P] = NoTree]
    /\ prepared' = [prepared EXCEPT ![P].time = 0]
    /\ configured' = [configured EXCEPT ![P] = NoConfigured]
    /\ built' = [built EXCEPT ![P] = 0]
    /\ Goto("unpack")
    /\ UNCHANGED <<sources, installed, ipk, version, listed, staged, now, quiet,
                   aborts, makes>>

\* Build/Prepare reads the package directory as it is now.
Unpack ==
    /\ At("unpack")
    /\ Write
    /\ tree' = [tree EXCEPT ![P] = [NoTree EXCEPT !.ver = src[P].ver, !.time = now']]
    /\ Goto("prepared")
    /\ UNCHANGED <<sources, stamps, ipk, version, listed, staged, quiet, aborts, makes>>

TouchPrepared ==
    /\ At("prepared")
    /\ Write
    /\ prepared' = [prepared EXCEPT ![P] = [list |-> job.list, time |-> now']]
    /\ Goto("clean")
    /\ UNCHANGED <<sources, configured, built, installed, outputs, quiet, aborts, makes>>

(* Bug: the stamp stays while the files go. *)
CleanStagingKeepsStamp ==
    /\ At("clean") /\ NeedConfigure(P)
    /\ Goto("unstage")
    /\ UNCHANGED <<sources, stamps, outputs, now, quiet, aborts, makes>>

\* CleanStaging: the stamp goes first, then the listed files; the list stays.
CleanStaging ==
    /\ At("clean") /\ NeedConfigure(P)
    /\ installed' = [installed EXCEPT ![P] = 0]
    /\ Goto("unstage")
    /\ UNCHANGED <<sources, prepared, configured, built, outputs, now, quiet,
                   aborts, makes>>

Unstage ==
    /\ At("unstage")
    /\ staged' = [staged EXCEPT ![P] = {f \in @ : f.name \notin listed[P]}]
    /\ Goto("configure")
    /\ UNCHANGED <<sources, stamps, tree, ipk, version, listed, now, quiet, aborts, makes>>

\* Build/Configure looks at the option and at the headers its libraries staged.
Configure ==
    /\ At("configure")
    /\ Write
    /\ tree' = [tree EXCEPT ![P].conf = job.conf,
                            ![P].libs = UNION {{<<d, f.abi>> : f \in staged[d]} : d \in Deps[P]},
                            ![P].time = now']
    /\ Goto("oldconf")
    /\ UNCHANGED <<sources, stamps, ipk, version, listed, staged, quiet, aborts, makes>>

RemoveConfigured ==
    /\ At("oldconf")
    /\ configured' = [configured EXCEPT ![P] = NoConfigured]
    /\ Goto("configured")
    /\ UNCHANGED <<sources, prepared, built, installed, outputs, now, quiet, aborts, makes>>

TouchConfigured ==
    /\ At("configured")
    /\ Write
    /\ configured' = [configured EXCEPT ![P][job.conf] = now']
    /\ Goto("compile")
    /\ UNCHANGED <<sources, prepared, built, installed, outputs, quiet, aborts, makes>>

\* The package's own make compiles what is out of date in the tree (external).
Compile ==
    /\ \/ At("compile")
       \/ At("clean") /\ ~NeedConfigure(P)
    /\ NeedCompile(P)
    /\ Write
    /\ tree' = [tree EXCEPT ![P].obj = [ver |-> tree[P].ver, conf |-> tree[P].conf,
                                        libs |-> tree[P].libs],
                            ![P].time = now']
    /\ Goto("built")
    /\ UNCHANGED <<sources, stamps, ipk, version, listed, staged, quiet, aborts, makes>>

TouchBuilt ==
    /\ At("built")
    /\ Write
    /\ built' = [built EXCEPT ![P] = now']
    /\ Goto("pack")
    /\ UNCHANGED <<sources, prepared, configured, installed, outputs, quiet, aborts, makes>>

BuiltAlready ==
    /\ At("clean") /\ ~NeedConfigure(P) /\ ~NeedCompile(P)
    /\ Goto("pack")
    /\ UNCHANGED <<sources, stamps, outputs, now, quiet, aborts, makes>>

\* The .ipk is removed first and comes into being as the last step of its rule.
RemoveIpk ==
    /\ At("pack") /\ NeedPack(P)
    /\ ipk' = [ipk EXCEPT ![P] = NoIpk]
    /\ Goto("ipk")
    /\ UNCHANGED <<sources, stamps, tree, version, listed, staged, now, quiet, aborts, makes>>

MakeIpk ==
    /\ At("ipk")
    /\ Write
    /\ ipk' = [ipk EXCEPT ![P] = [obj |-> tree[P].obj, time |-> now']]
    /\ Goto("version")
    /\ UNCHANGED <<sources, stamps, tree, version, listed, staged, quiet, aborts, makes>>

\* The .version file is written only when the ABI version differs from it.
WriteVersion ==
    /\ \/ At("version")
       \/ At("pack") /\ ~NeedPack(P)
    /\ IF version[P].time < ipk[P].time /\ (version[P].time = 0 \/ version[P].abi # src[P].abi)
       THEN /\ Write
            /\ version' = [version EXCEPT ![P] = [abi |-> src[P].abi, time |-> now']]
       ELSE UNCHANGED <<version, now>>
    /\ Goto("install")
    /\ UNCHANGED <<sources, stamps, tree, ipk, listed, staged, quiet, aborts, makes>>

\* clean-package.sh removes what the old list names ...
InstallClean ==
    /\ At("install") /\ NeedInstall(P)
    /\ staged' = [staged EXCEPT ![P] = {f \in @ : f.name \notin listed[P]}]
    /\ Goto("list")
    /\ UNCHANGED <<sources, stamps, tree, ipk, version, listed, now, quiet, aborts, makes>>

(* Bug: the old list stays. *)
InstallListNot ==
    /\ At("list")
    /\ Goto("copy")
    /\ UNCHANGED <<sources, stamps, outputs, now, quiet, aborts, makes>>

\* ... then, under the staging-dir lock, the new list is moved into place ...
InstallList ==
    /\ At("list")
    /\ listed' = [listed EXCEPT ![P] = Names(job.list)]
    /\ Goto("copy")
    /\ UNCHANGED <<sources, stamps, tree, ipk, version, staged, now, quiet, aborts, makes>>

\* ... and the files are copied, in any number of them before an interruption.
InstallCopy ==
    /\ At("copy")
    /\ \E some \in SUBSET Names(job.list) :
          /\ some # {}
          /\ staged' = [staged EXCEPT
                ![P] = {f \in @ : f.name \notin some} \cup
                       {[name |-> n, obj |-> tree[P].obj, abi |-> src[P].abi] : n \in some}]
          /\ Goto(IF some = Names(job.list) THEN "installed" ELSE "copy")
    /\ UNCHANGED <<sources, stamps, tree, ipk, version, listed, now, quiet, aborts, makes>>

TouchInstalled ==
    /\ At("installed")
    /\ Write
    /\ installed' = [installed EXCEPT ![P] = now']
    /\ Goto("done")
    /\ UNCHANGED <<sources, prepared, configured, built, outputs, quiet, aborts, makes>>

-----------------------------------------------------------------------------
(* make over the packages, its interruption, and the developer.             *)
Make ==
    /\ At("idle") /\ makes < MaxMakes
    /\ makes' = makes + 1
    /\ job' = [Idle EXCEPT !.pc = "parse", !.todo = Order]
    /\ UNCHANGED <<sources, stamps, outputs, now, quiet, aborts>>

NextPackage ==
    /\ \/ At("done")
       \/ At("install") /\ ~NeedInstall(P)
    /\ LET rest == Tail(job.todo) IN
          IF rest = << >>
          THEN /\ quiet' = ~job.dirty
               /\ job' = Idle
          ELSE /\ job' = [job EXCEPT !.todo = rest, !.pc = "parse"]
               /\ UNCHANGED quiet
    /\ UNCHANGED <<sources, stamps, outputs, now, aborts, makes>>

\* A failing command, an interrupt or a power cut between two steps.
Abort ==
    /\ ~At("idle") /\ aborts < MaxAborts
    /\ aborts' = aborts + 1
    /\ quiet' = FALSE
    /\ job' = Idle
    /\ UNCHANGED <<sources, stamps, outputs, now, makes>>

SecondPasses ==
    /\ Sec(now) < MaxSecond
    /\ now' = (Sec(now) + 1) * Second
    /\ UNCHANGED <<sources, stamps, outputs, job, quiet, aborts, makes>>

MayEdit(p) ==
    /\ edits < MaxEdits
    /\ At("idle") \/ EditWhileBuilding
    /\ QuickEdits \/ Sec(prepared[p].time) < Sec(now)

Edited ==
    /\ edits' = edits + 1
    /\ quiet' = FALSE
    /\ job' = [job EXCEPT !.dirty = ~At("idle")]

\* A file is rewritten, a file is added or removed, or ABI_VERSION is raised.
Edit(p) ==
    /\ MayEdit(p)
    /\ Edited
    /\ Write
    /\ \E list \in 0..1, abi \in {src[p].abi, src[p].abi + 1} :
          src' = [src EXCEPT ![p] = [ver |-> @.ver + 1, list |-> list, abi |-> abi,
                                     time |-> now']]
    /\ UNCHANGED <<option, stamps, outputs, aborts, makes>>

\* make menuconfig between two makes
SetOption(p) ==
    /\ edits < MaxEdits /\ At("idle")
    /\ aborts = 0 \/ OptionAfterAbort
    /\ Edited
    /\ \E c \in Value \ {option[p]} : option' = [option EXCEPT ![p] = c]
    /\ UNCHANGED <<src, stamps, outputs, now, aborts, makes>>

\* make package/p/clean
Clean(p) ==
    /\ At("idle") /\ edits < MaxEdits /\ tree[p].time # 0
    /\ Edited
    /\ installed' = [installed EXCEPT ![p] = 0]
    /\ staged' = [staged EXCEPT ![p] = {f \in @ : f.name \notin listed[p]}]
    /\ ipk' = [ipk EXCEPT ![p] = NoIpk]
    /\ listed' = [listed EXCEPT ![p] = {}]
    /\ tree' = [tree EXCEPT ![p] = NoTree]
    /\ prepared' = [prepared EXCEPT ![p].time = 0]
    /\ configured' = [configured EXCEPT ![p] = NoConfigured]
    /\ built' = [built EXCEPT ![p] = 0]
    /\ UNCHANGED <<src, option, version, now, aborts, makes>>

Next ==
    \/ Parse \/ Wipe \/ Unpack \/ TouchPrepared
    \/ CleanStaging \/ Unstage \/ Configure \/ RemoveConfigured \/ TouchConfigured
    \/ Compile \/ TouchBuilt \/ BuiltAlready
    \/ RemoveIpk \/ MakeIpk \/ WriteVersion
    \/ InstallClean \/ InstallList \/ InstallCopy \/ TouchInstalled
    \/ Make \/ NextPackage \/ Abort \/ SecondPasses
    \/ \E p \in Pkg : Edit(p) \/ SetOption(p) \/ Clean(p)

Spec == Init /\ [][Next]_vars

-----------------------------------------------------------------------------
(* What NothingMissed and NothingRepeated ask for.                          *)

\* The developer edits neither while a make runs nor in the second of the last
\* stamp, and leaves the option alone once a make was cut short.
Disciplined == ~EditWhileBuilding /\ ~QuickEdits /\ ~OptionAfterAbort

\* A make visits every package once, after those it depends on.
InOrder ==
    /\ \A p \in Pkg : \E i \in 1..Len(Order) : Order[i] = p
    /\ \A i, j \in 1..Len(Order) : Order[i] = Order[j] => i = j
    /\ \A j \in 1..Len(Order) : \A d \in Deps[Order[j]] :
          \E i \in 1..(j - 1) : Order[i] = d

-----------------------------------------------------------------------------
(* Properties.                                                              *)

\* The object made from the sources, the option and the libraries as they are.
Current(p, obj) ==
    /\ obj.ver = src[p].ver
    /\ obj.conf = ConfVar(option[p])
    /\ obj.libs = {<<d, src[d].abi>> : d \in Deps[p]}

\* NothingMissed: when a make has succeeded and nothing was edited since it
\* began, every package file and every staged file is made from the present
\* sources, option and library ABIs.  (.prepared, .configured, .built, the
\* .ipk and .installed each stand for everything below them.)
NothingMissed ==
    quiet => \A p \in Pkg :
        /\ ipk[p].time # 0 /\ Current(p, ipk[p].obj)
        /\ {f.name : f \in staged[p]} = Names(src[p].list)
        /\ \A f \in staged[p] : Current(p, f.obj)

\* NothingRepeated: after a make that succeeded, with nothing edited since, a
\* further make unpacks, configures, compiles, packs and installs nothing.
NothingRepeated ==
    [][quiet => job'.pc \notin {"wipe", "unstage", "built", "ipk", "list"}]_vars

\* InstalledStands: while the .installed stamp exists the staging directory
\* holds all the files of the package, all of them from one compilation,
\* whatever was interrupted.
InstalledStands ==
    \A p \in Pkg : installed[p] # 0 =>
        /\ {f.name : f \in staged[p]} = listed[p]
        /\ Cardinality({f.obj : f \in staged[p]}) = 1

\* NothingOrphaned: a staged file is in the list the next CleanStaging reads.
NothingOrphaned ==
    \A p \in Pkg : {f.name : f \in staged[p]} \subseteq listed[p]
=============================================================================
