# Formal models of OpenWrt-Build

TLA+ models of the parts of this repository whose correctness depends on order,
failure or concurrency, the TLC configurations that check them on small
instances, and proofs that the TLA+ proof system checks for every instance.
Paths below are relative to the repository (`src/` in `PROJECT.json`).

- [1. The system](#1-the-system)
- [2. Modules](#2-modules)
- [3. Runs, bounds and what they show](#3-runs-bounds-and-what-they-show)
- [4. Fairness and deadlock](#4-fairness-and-deadlock)
- [5. Proofs](#5-proofs)
- [6. Findings](#6-findings)
- [7. What goes wrong outside the assumptions](#7-what-goes-wrong-outside-the-assumptions)
- [8. What is not modelled](#8-what-is-not-modelled)
- [9. Plan](#9-plan)

To check a run: `tlc -config PackageBuild.cfg MCPackageBuild`; `PROJECT.json`
pairs the modules with their configurations. To check a proof:
`tlapm PackageBuild_proofs.tla`.

## 1. The system

The repository is the build system of an OpenWrt derivative together with the
base files of its target. A developer describes a configuration with the
configuration programs; makefiles and scripts turn package descriptions into a
menu and into rules, fetch sources, build and stage packages and pack an image;
the image runs on a device, whose shell scripts start it and upgrade it.

```
 Makefiles ──scan.mk──► .packageinfo ──metadata.pl──► .config-package.in ──► scripts/config ─► .config
                                     └─metadata.pl──► .packagedeps ──────────────┐              │
                                                                                  ▼              ▼
 mirrors ──download.pl──► dl/FILE ──unpack──► build_dir ──package.mk──► staging_dir, bin/*.ipk ─► image
                                                                                                   │
                               device:  sysupgrade ──flash──► preinit ──► init.d, uci-defaults  ◄──┘
```

Each row: the state a part keeps, what operates on it, what it interacts with,
what makes it hard, and what it should satisfy.

| part | state | operations | hard because | correct when |
|---|---|---|---|---|
| symbol engine, `scripts/config/symbol.c`, `confdata.c` | per symbol: cached value, visibility, flags, user value; change count; `.config` | `sym_calc_value`, `sym_set_tristate_value`, toggle, `conf_read`, `conf_write` | values are cached behind a flag, calculated in any order on demand; write marks are cleared by writing and set only by calculating; any step of a write may fail | the cache agrees with a fresh calculation; a setting sticks; a choice has one value; a file has every value, and reading it back restores them; nothing unsaved is forgotten |
| dependency expressions, `expr.c`, `menu.c` | expression trees, rewritten in place | `expr_transform`, `expr_eliminate_dups`, `expr_trans_bool`, `menu_finalize` | two pointers into one tree; three-valued logic; passes repeat until nothing changes | rewriting keeps what a condition means, ends, and a submenu entry is never out of reach |
| configuration values and files, `symbol.c`, `confdata.c` | as the symbol engine, with numbers and strings; `.config`, a minimal defconfig, `auto.conf` | `sym_set_string_value`, `conf_set_all_new_symbols`, `conf_write_defconfig`, `conf_write_autoconf` | ranges, quoting and defaults are applied at several places; a minimal file relies on the defaults of the moment it is read | a file reads back as it was written; a minimal one is enough; what was typed is in force |
| front ends, `conf.c`, `mconf.c`, `menu.c` | the menu tree, the windows open, the question asked, headers touched so far | `conf` and `check_conf` with each input mode, every window and key of `mconf` | walks over the menus while answers change what is visible; looking at an entry marks it; interrupted between two headers | `conf` ends, asks nothing twice, and leaves a file builds agree with; no object stays stale |
| dialog boxes, `lxdialog/` | cursor, scroll and rows of the window, one call at a time | every key, resizing, the answer | several numbers for one place in a list or text, each key moves some of them | what is highlighted is what an answer takes, what is edited is what is shown |
| parser and menu tree, `zconf.y`, `menu.c` | the menu tree | parse, build menus | none left once the tree is built | every symbol has its place in the tree |
| package build, `build/package.mk`, `depends.mk`, `package-ipkg.mk`, `scripts/timestamp.pl`, `clean-package.sh` | build directory, stamp files, `.ipk`, `.version`, list of staged files, staging directory | prepare, configure, compile, pack, install, clean; make over the packages | decided by times of files, compared in two resolutions; interrupted anywhere; sources change meanwhile | nothing out of date survives a successful make; nothing is done twice; the staging directory is never left with files no stamp and no list accounts for |
| package metadata, `scripts/metadata.pl` | package descriptions, generated menu and rules | `gen_package_config`, `gen_package_mk` | kconfig's `select` ignores dependencies, so they have to be repeated at every level, with the conditions met on the way | a package in the image has what it depends on; nothing more is asked; nothing is compiled before what it needs |
| source download, `scripts/download.pl`, `build/download.mk`, `locked` of `build/rules.mk` | `FILE`, `FILE.dl`, `FILE.hash`, lock | try mirrors, check the digest, move | several makes share the names; truncated and wrong answers, interrupts, failing writes | only the archive asked for is ever kept or unpacked; every make is served or fails |
| firmware upgrade, `sbin/sysupgrade`, `lib/upgrade/common.sh`, `lib/preinit/80_mount_root`, `etc/init.d/done` | `/tmp/sysupgrade.tgz`, flash, overlay, archive in the overlay | save, flash, boot, restore, remove | power may fail between any two steps; the overlay after a cut is a state of the past; several upgrades in a row | the files that were to be kept are there afterwards; no boot takes back later changes |
| feeds, `scripts/feeds` | `feeds.conf`, per feed a location file, a checkout, an index, links | update, install, uninstall, clean | the location is written before the checkout it vouches for; errors between steps | an index and links always belong to the checkout of the stated location |
| metadata collection, `build/scan.mk`, `toplevel.mk` | `tmp/info` files and stamps, `.config` | scan, prepare-tmpinfo, defconfig | which stamp causes which scan; `.config` is removed when the board differs | the menu is the one of the present descriptions |
| host, kernel, toolchain builds, `host-build.mk`, `kernel-*.mk` | stamps as of package.mk | prepare … install | as package build | as package build |
| images, `image.mk`, `pack_img.sh`, … | files of `bin/` | pack | formats of external tools | the image holds the staged files |
| boot scripts, `etc/init.d/*`, `etc/uci-defaults`, `rc.common` | `/etc/config`, uncommitted uci changes | boot, start, stop | once-only scripts removed before what they did is committed; power cuts | each first-boot script takes effect exactly once |
| shell library, `lib/functions*.sh` | `/etc/passwd`, `/etc/group`, network state | add users, start and stop services | an id is looked for before the lock is taken | ids are unique |
| early boot, `lib/preinit/*` | failsafe state, overlay partition | wait for a key, format, mount | power cut while formatting | a device gets up again |
| target support, boot loader stubs, helper scripts, environment, documents | — | — | data, vendored code, single-purpose converters | — |

How the parts interact: `mconf` and `conf` are loops around the symbol engine and
meet each other in the files they read and write; `mconf` acts on the answer of
one box before it opens the next. `metadata.pl` writes the menu the symbol engine reads
and the prerequisites the package make visits its packages by; `package.mk`
unpacks what `download.pl` left in `dl/`, outside the lock; the stamps of a
package depend on options of `.config` (`confvar`) and on the `.version` files
of the libraries it uses; what `sysupgrade` leaves in the overlay is read by
`80_mount_root` on the next boot and removed by `init.d/done` at its end.

`PROJECT.json` lists the hazards of this code line by line, with the properties
that watch them.

## 2. Modules

### Tristate, KconfigSymbols — the symbol engine

`Tristate` has the values n, m, y and conditions in disjunctive form.
`KconfigSymbols` takes a menu as constants (types, prompts, defaults, selects,
choices) and has the C program's state: `valid`, `curr`, `chosen`, `visible`,
`rev_dep` and `write` are the cached fields of a symbol and its flags
`SYMBOL_VALID` and `SYMBOL_WRITE`; `defUser`, `defTri` and `defVal` are the
user's settings; `changed` is the change count. `op` says what the program is
doing, `file` is `.config`; `wrote` and `asked` are history variables.

| model | code |
|---|---|
| `CalcSymbol`, `CalcChoiceSymbol` (`CalcVisible`, `CalcRevDep`, `CalcTri`, `CalcChoice`) | `sym_calc_value` with `sym_calc_visibility` and `sym_calc_choice`, one call whose nested calls have returned |
| `SetTristate`, `Toggle`, `WithinRange` | `sym_set_tristate_value`, `sym_toggle_tristate_value`, `sym_tristate_within_range` |
| `Recalculate` | `sym_clear_all_valid`, which calculates `modules_sym` at once |
| `ReadStart`, `Load`, `ReadMissing`, `LoadMissing`, `ReadFinish` | `conf_read` and `conf_read_simple`: reset, lines in file order, comparison, forgetting of invisible settings |
| `WriteStart`, `WriteFinish`, `WriteRenameFails` | `conf_write` with its recalculation, its clearing of marks, its renames |

Recursion in C becomes nondeterminism: `CalcValue` may calculate any stale
symbol whose operands are calculated. This includes every order the recursion
takes, and more; no property relies on an order.

### KconfigValues, KconfigFiles — the engine as the programs call it

`KconfigSymbols` interleaves single calculations. The programs above it only see
calls that have returned, so here the state of the engine is one record `m` (values,
visibilities, reverse dependencies, settings, marks, change count) and a call is an
operator from records to records. `KconfigValues` adds int, hex and string symbols
(texts are sequences of characters where ranges and quotes look at them) and
takes the rules for tristates from `KconfigSymbols` by INSTANCE. `KconfigFiles` has
`conf_read`, `conf_write`, the minimal defconfig, `auto.conf` and the answers of
`allyesconfig`, `randconfig` and their like.

### KconfigMenus, KconfigPrograms, KconfigConf, KconfigMconf, KconfigFrontends

`KconfigMenus` is the menu tree (`Menu`, `Kids`, `Kind`, `SymOf` are constants) with
`menu_is_visible`, which marks entries as it looks at them (`Marks`).
`KconfigPrograms` has what both programs share: files, the record `mem`, the
program that runs (`prog`). In `KconfigConf` the recursion of `conf` and `check_conf`
is an agenda of tasks (`agenda`), the input mode is `mode`, and silentoldconfig
goes on to touch the headers of changed symbols one by one (`split`, `touched`)
before `auto.conf` is replaced; `StopInSplit` kills it between two. In `KconfigMconf` the
windows open are a stack; every redraw (`Shows`) looks at the entries again.
`Interrupt` is the handler of SIGINT, `SaveAtExit`/`DropAtExit`/`ContinueAtExit` the
last question. `KconfigFrontends` runs one program after another on the same
files. `Compile` (external) stands for make looking at the headers; `saved`,
`synced`, `built` are history variables of what files and objects were made from.

### ListWindow, Menubox, Checklist, Inputbox, Textbox, Lxdialog — dialog boxes

One module per box, one action per key. `b.rows` is what the screen shows, changed
only where the code prints or scrolls; `scroll`, `choice`, `first_item` (`pos`, `show_x`,
`input_x`; `begin_reached`, `page`) are the code's own. `ListWindow` has what menu and list
share. `Lxdialog` opens one box after another; `Acted` is the program that takes
the answer.

### KconfigExpr — dependency expressions

One behaviour per pair of expressions the parser may build: it is transformed,
both sides are rid of duplicates pass by pass (`Or`/`And` pairs joined, then
absorbed, through positions in one tree as the code's two pointers are), reduced
for boolean symbols, and finally the submenu test of `menu_finalize`. Every pass
is a step, so that a property can be stated of each.

### PackageMetadata — from descriptions to a menu and rules

`Begin` takes the next package of the menu, `Depend` is one turn of the loop of
`mconf_depends`, `Return` the end of one of its calls, `Write` puts down the lines of
the package, and `GenPackageMk` is `gen_package_mk`. The recursion of the code is the list
`calls` still to be made: those a call has put off (`t_depends`) come before the
others, which is the order of the code, since a call recurses only after its loop. `gen` is what
the calls share: `%$dep` as the lines that have *select* and those that have *depends
on*, and `%$seen`. The initial state picks any of the package descriptions, and `menu` and `mk`
are what is written. `Settled` gives the configurations kconfig can leave for that menu,
which is where this module meets `KconfigSymbols`: select is a lower bound,
depends an upper bound.

### PackageBuild — stamps, packing and staging

State: the package directory (`src`), the option of `.config` (`option`), the
stamps (`prepared`, `configured`, `built`, `installed`), what the build directory
and the package files hold and when they were written (`tree`, `ipk`, `version`),
the staging list and directory (`listed`, `staged`), and the running make (`job`).
One action per command of the rules: `Parse` (reading of the makefile and the
`_check` of `.prepared`), `Wipe`, `Unpack`, `TouchPrepared`; `CleanStaging`,
`Unstage`, `Configure`, `RemoveConfigured`, `TouchConfigured`; `Compile`,
`TouchBuilt`, `BuiltAlready`; `RemoveIpk`, `MakeIpk`, `WriteVersion`;
`InstallClean`, `InstallList`, `InstallCopy`, `TouchInstalled`; `NextPackage`.
Around them `Make`, `Abort` (at any step), `SecondPasses`, `Edit`, `SetOption`
and `Clean`.

Time is a number and a file that does not exist has time 0. Make compares the
whole number; `timestamp.pl` compares the whole seconds (`t \div Second`) and
counts equal ones as up to date. What a compilation produces is the record of
what it saw (`ver`, `conf`, `libs`), which is all the properties tell apart.
The rules are sequential within a package, so the make is one process.

### Download, ArchiveStore — one archive

`Download` has any number of jobs that need `FILE`: acquire the lock, go through
the mirrors (the local one first), `WgetOpen`/`WgetEnd` with every outcome,
`Check`, `Unlink`, `Move`, `Cleanup`; every pass ends with a look whether the archive
is there, whoever put it there (`IsThere`); `Unpack` is outside the lock. `FetchDies` and
`CheckDies` are the ends by `die`, with `FILE.dl` and `FILE.hash` left behind. A copy from a
local mirror and the digest commands may fail unnoticed. `Kill` interrupts at any
step; make may then remove `FILE`, the target of its rule. `ArchiveStore` is the abstract specification: a store that holds the
archive asked for or nothing, and serves builds at once, or not at all: it may lose the
archive, and it does not promise that a build is served, only from what. `Download` refines it
with `stored <- target` and `served <- {j : got[j] # None}`; `Unlink`, and a `Kill` that removes `FILE`, are `Drop`,
`Move` is `Fetch`, `Unpack` is `Serve` or `Miss`, and everything else stutters.

### Sysupgrade — upgrades with the configuration kept

`Test`, `Ask`, `SaveConfig`/`TakeGiven`/`SaveNothing`, `KillAndSwitch`,
`FlashBegin`, `FlashEnd` follow `sbin/sysupgrade`; `MountRoot`, `MoveCopy`,
`MoveUnlink`, `Unpack` (file by file), `RemoveTmp`, `SyncRestored` follow
`80_mount_root`; `Done` follows `init.d/done`. `fault` is what may go wrong in a
behaviour, fixed at its start, any subset of `Fault`: `"cut"`, power cuts while the archive
is unpacked or its files are not yet on the flash; `"full"`, no room in `/tmp`;
`"ramdisk"`, sysupgrade run from a ramdisk, where it saves nothing; `"early"`, files changed
by a script or a user before `init.d/done` has run. Cuts at every other step
are always there. `live` is the overlay as the
running system sees it, `maybe` the states a power cut may leave: all since the
last sync, in order. `mtd` is external: a cut while it writes leaves a broken
firmware, or the new one without the archive. `want`, `asked` and `edited`
record what is owed to the user.

### Checking and proof modules

`MC*` modules give constants to the runs. `KconfigSymbols_proofs`, `Download_proofs`,
`PackageBuild_proofs`, `PackageMetadata_proofs`, `Sysupgrade_proofs`, `Menubox_proofs`,
`Checklist_proofs` and `Lxdialog_proofs` hold the theorems. `KconfigExpr`,
`KconfigMenus` and the modules above it are written with `RECURSIVE`
operators and are for TLC only. The operators whose comment begins with *Bug* are
mutations: each property of each run is violated when its one takes the place of
the definition that follows it (`PROJECT.json`, "mutants").

## 3. Runs, bounds and what they show

| run | instance | shows |
|---|---|---|
| `kconfig_select` | module switch, tristate A, tristate B that depends on A and is on by default, boolean C that B selects; three starting files | `Coherent`, `UnchangedMeansSaved`, `SetSticks`, `FileComplete`, `FileMinimal` |
| `kconfig_choice` | a boolean choice under a condition, one of its two values under another | `TypeOK`, `ExactlyChosen`, `RoundTrip` |
| `kconfig_frontends` | a choice of two targets of which one selects a tristate, a number with a range below it, a submenu with a string and a hex number; two programs, two answers, two windows deep, four starting files | `NothingAskedTwice`, `ReadsBack`, `MinimalSuffices`, `TypedTaken`, `InSync`, `NoStaleObject`, `ResetIsFresh`, `ConfEnds` |
| `lxdialog` | lists of up to 4 items, texts of up to 5 characters, windows of 1 to 3 rows, an input field 3 wide | `ShownIsSelected`, `ListIsSelected`, `CursorAtEdit`, `PageAtLine`, `CursorMoves`, `LinesMove` |
| `kconfig_expr` | every two literals (symbols, negations, comparisons with n, m, y) under one operation, and operations on operations | `MeaningKept`, `SubmenuShown`, `RoundsShrink` |
| `package_build` | a library and an application; 2 edits or option changes, 1 interruption, 2 makes, 2 seconds | `NothingMissed`, `NothingRepeated`, `InstalledStands`, `NothingOrphaned` |
| `package_metadata` | three packages, a provided name, two options, up to two words in each DEPENDS, about 16,000 descriptions | `DependsMet`, `NothingMoreAsked`, `CompiledBefore` |
| `download` | two jobs, two mirrors, two starts each | `CheckedIsMoved`, `OnlyGood`, `NotInVain`, `Ends`, `StoreSpec` |
| `sysupgrade` | two files, any number of upgrades, every set of faults | `ConfigKept`, `ArchiveAsked`, `EditsStay` |
| `kconfig_load_missing`, `kconfig_rename_fails`, `package_edit_race` | as above | the three findings of section 6 |

Why the bounds are enough:

- *Kconfig.* A symbol's value depends on its own settings, on its prompt, on one
  default and on one select; the instance has each of these, over a chain of
  three symbols, with the module switch that changes the type of all. Reads,
  writes, settings and restarts are not bounded: the state space is finite.
- *Front ends.* Two programs make one that leaves a file and one that meets it:
  a second reading is the first that can disagree. Two answers are one that
  makes another entry appear and one to that entry. Two windows are a menu and
  what is opened from it. The starting files stand for longer histories: one is as a program
  leaves it while the texts and numbers are hidden, so that they are withdrawn when it is read. Every mode of `conf` and every window of `mconf` occurs.
- *Boxes.* Four items in three rows or fewer have all positions a window can take
  to a list: shorter, equal, longer, at either end and between. One row makes the
  half of a window 0. The field of width 3 with 4 characters is scrolled at both
  ends. The proofs are for all sizes.
- *Expressions.* The joining rules look at pairs of leaves; all pairs are there,
  under both operations. Two levels of operations are what the passes need for
  one to rewrite what another is working on.
- *Packages.* Two packages make one dependency. Two makes are needed for the
  second to miss something; a third adds nothing without a third edit. An
  interruption is followed by a make in which everything it left matters. Two
  seconds suffice for "same" and "later"; `Second = 100` is more than the writes
  of a run in one second.
- *Metadata.* A dependency that is seen twice needs two words, a chain of selects
  three packages, a choice of providers two of them. The descriptions are among those the
  theorems of section 5 speak of (`MCAssumption`); the others are in section 7.
- *Download.* Two jobs make every race for the lock; a started job passes all
  mirrors, and `MaxStarts = 2` lets an interrupted one come back.
- *Sysupgrade.* No counters. Two files make a partly unpacked archive with
  one file changed by the user and one not.

`MeaningKept` speaks of values for which the original condition is n or y:
`expr_eliminate_dups2` may turn an m into n (`(A||B)&&(!A&&!B)`, expr.c:577), so
nothing stronger holds; of boolean symbols it says that what was above n stays so.
`SubmenuShown` leaves out valuations in which a negated symbol is m (expr.c:911
takes `!A` for `A='n'`). `DependsMet` is for values with no condition on a package that
is m (see section 7). `ConfigKept` is for behaviours without faults other than
`"early"`, `ArchiveAsked` for those with at most `"early"` and `"cut"`, and `EditsStay` for all but those
with both `"early"` and `"full"`. The run
`kconfig_frontends` keeps to menus in which choices are boolean, which is the kind
the `.in` files use, so picking a value of a choice that is m does not occur in it.

## 4. Fairness and deadlock

Two specifications state fairness. In `Download`, weak fairness of each job's own
steps, because a process that can run is run by the operating system and `flock` is
granted when the holder closes its descriptor. `Start` and `Kill` are not fair:
nobody has to run make or to interrupt it. `Ends` needs no fairness between jobs for
the lock because each job has it a bounded number of times (`MaxStarts`); with makes
started without end it would rest on the order in which flock serves those who
wait. In `KconfigFrontends`, `ConfRuns`: `conf` does not stop between two of its steps
for ever. This is weak fairness of its steps, written without ENABLED
because one of them is always possible (the run checks deadlock); an answer at
the end of input is the empty line, so it never waits. Nothing is assumed of the
user of `mconf`: he may leave it open for ever. The other modules state safety only.

`CHECK_DEADLOCK FALSE` is set where the system does stop: when the bounds on
makes and edits are used up (`PackageBuild`), when the pass over an expression or
a description is finished, when all jobs are done (`Download`), and when a device is bricked
by a cut while its flash is written (`Sysupgrade`). The other runs check deadlock.

## 5. Proofs

All are for every value of the constants the modules' assumptions allow (any menu,
any set of packages and dependencies, any number of jobs, mirrors and files, and
any value of the bounds the runs need). `PROJECT.json` lists the theorems with the properties they state.
A theorem that needs more of the constants says so after `ASSUME`. The passing runs
are instances of it: the `.cfg` files set the flags so, and `MCKconfigSelect`,
`MCKconfigChoice`, `MCPackageBuild` and `MCPackageMetadata` assume the rest, so TLC
confirms that it can be met.

**KconfigSymbols_proofs.** All properties of the two symbol runs.

- `TypeCorrect` needs, beyond `TypeOK`, that the user value of a choice is one of
  its own values (`OwnValues`), since `CalcChoice` trusts it.
- `ChoiceCorrect` rests on `Settled`: `modules_sym` is calculated before
  any other symbol, what a calculated symbol reads is calculated (`ReadsClosed`), and
  when a choice that is y was calculated, so was all that the visibility of its
  values depends on (`ChoiceSeen`). Without the last one the visibility the choice
  saw and the one its value sees later could differ.
- `VisibilityCoherent` (in `SeenInv`) holds for every menu, choices of every kind
  included; `CacheCoherent` adds that a calculated value is the one to be calculated
  now (`ValuesRight`). What could go wrong is a choice that writes the user settings
  of its values while some of them are calculated already.
- `UnchangedSaved` by `Saved`: an unchanged configuration has nothing stale in it,
  so nothing can turn out to differ from the file later.
- `SavedComplete` and `SavedMinimal` by `MarksInv`: from a change until the file is
  written, no calculated symbol of the configuration lacks its write mark, although
  a choice marks its values and they do not mark themselves; and only choice values
  have marks they should not have.
- `SettingSticks` by `StickInv`: there is a set of symbols, stale or not, that have
  the values a calculation would give and depend only on each other (`Closed`). Either the
  symbol that was set is one of them, with the value asked for, or it depends only on them and
  a calculation gives that value, or its choice does, is y and picks it.
- `SavedComesBack` compares two calculations with a restart between them. Both solve
  the equations the file sets up (`Solves`: `SolvedByWrite`, `SolvedByRead`), and
  without recursive dependencies these have one solution (`OneSolution`).

The hypotheses, and why the code justifies them: choice values are plain symbols of one
choice with prompts that depend on it, `MODULES` is boolean and depends on nothing
(assumptions of the module; `menu_finalize` sees to the first). `PlainChoices`: a choice is
boolean and y where it is visible, since `menu_finalize` makes its visibility a
reverse dependency. `PlainDefaults`: a default does not exceed the prompt, and choice
values have none; `menu_finalize` adds the dependencies of an entry to both and warns
of a default for a choice value (menu.c:384). `PlainMembers`: choice values are
boolean. `Acyclic`: `sym_check_deps` reports "recursive dependency detected"
(symbol.c:1118). A cycle that closes where the search began does not stop the parser
(symbol.c:1283), so menus with one
are outside `SettingSticks` and `SavedComesBack`. Section 7 has what happens without
the others. `SavedMinimal` is for menus without choices, whose values keep
stale marks.

**Download_proofs.** `OnlyGoodKept` and `CheckedIsMovedKept` by the invariant `IInv`:
whoever is between acquiring and releasing holds the lock (`HoldsLock`), so
`FILE.hash` is that of `FILE.dl` from the comparison to the move (`DigestOfFile`).
`NotInVainKept` by `VainInv`: a job that comes back to the mirrors under the lock has
seen that the archive is not there (`MirrorInv`), and nobody else can have put it there.
`ImplementsStore`: each step maps to a step of `ArchiveStore` or a stutter under
`IInv`. All but `NotInVainKept` assume `~WriteMayFail`, the last also that the digest is known.

**PackageBuild_proofs.** `TypeCorrect`: with `Unpacked` (from unpacking on there
is a build directory) no stamp outlives the directory. `OrphansNever` and
`StampStands` (the files under `stamp/.p_installed` are complete and of one
compilation, whatever is interrupted) need to know that `.installed` never
stands over a package that is about to be compiled: `Covered` says that a marked
package is `Fresh` (its `.configured` is older than its `.prepared`, so
CleanStaging comes first and removes the stamp) or `Quiet` (`.built` newer than
the tree and `.configured`, and older than `.installed`). This is
inductive with `Past` (nothing is younger than the last write), `OneConf` (at
most one `.configured_*`), and what each stage of a make has done (`Bare`,
`Cleared`, `Unmarked`, `Compiled`, `Emptied`, `Copied`). These three theorems assume
neither that edits avoid a running make nor that they avoid the second of a
stamp.

`MissesNothing` and `RepeatsNothing` are about the same makes with nothing edited
under them. Their invariant `Sound` has four parts. `Ages`: no file is younger than the
last write. `Vouched`: what may be concluded from each stamp, if its package was not
edited since — the tree is that of the sources (`PreparedTells`), configured as the name of
the `.configured_*` says (`ConfTells`) and against the libraries as their `.version`
says, unless one is newer than `.prepared` (`LibsTell`); the objects are of that tree
(`BuiltTells`), the `.ipk`, the `.version` and the staged files are of those objects (`IpkTells`,
`VersionTells`, `InstalledTells`). `Progress`: what a make that has come to a step has
read, tested and done. `Tour`: the packages behind the one being made are `Finished`,
all of them when the make has succeeded, and then the next make goes from test to
test (`Idling`). A library made anew is written after the application's `.prepared`; that the
application comes later in the make is what carries the change on. Hypotheses:
`InOrder`, a make visits the packages in the order of the prerequisites
`metadata.pl` writes (`CompiledBefore` is about those); and `Disciplined`, of which each
part is needed: finding 3 and two rows of section 7 are what happens without it.

**PackageMetadata_proofs.** `ConfigInv` is inductive; between two turns it says
`RunInv`, of the notes on the package under way and of the calls still to be made. `ToldInv`:
every word that was met has its line, or is selected, or is taken along, and then
everything it takes along was met in turn or is the business of a call put off. `SoundInv`: every
line is what a word says of the package itself or of one that is taken along wherever
the conditions in the line are met. `SelectInv`, `FormInv` and `CallInv` say which forms the lines, the
conditions and the calls have. Neither half can do without the notes on what was met: `mconf_depends`
passes over a word it has seen on behalf of another package, so the line that
serves a word may have been written for another one.

- `MenuNotStricter` (`NothingMoreAsked`) follows from `SoundInv`: the line that hides a
  package is about a word of something the package takes along.
- `MenuComplete` (`DependsMet`) needs both. A package the user switches on meets its own
  `depends on` lines. One that is selected need not, so the induction is over the
  order in which packages take each other along (`Ranks`): what selects it is visible,
  and by `ToldInv` repeats its words; what was not said of a word because a package
  in between had said it is found through that one.
- `CompileOrder` (`CompiledBefore`): of all turns that note a provider, the first one writes
  its line (`FirstTurn`, by well-founded induction).

The three are about descriptions, so what they assume is said of `package` and not of
every menu at once. Each hypothesis keeps out something that goes wrong (section 7):
`Agreed`, packages that are selected agree on whether a word selects; `OwnConditions`,
what a package always selects is no condition of what it takes along; `ProvidedPlainly`, what is taken
along under a condition asks for no provided name; `NegatedOptions`, negated
conditions are on options nothing selects; `OneSource`, a provided name is asked for without a
condition and its providers are built from one source. Only `Ranks`, no package takes itself along, is
there for the argument: kconfig reports a circle of selects, and no run has one.

**Sysupgrade_proofs.** `EditsNeverUndone` holds under all faults but `"early"` with
`"full"`: by `EditsSafe` there is no archive, neither in what runs nor in what a cut may leave,
where somebody edits. `ArchiveIsAsked` by `ArchiveReady`, from flash and with room in `/tmp`.
`ConfigIsKept` by `Promised`: through each step of the boot, every state a cut
may leave holds the promised files, or the archive with them.

**Menubox_proofs, Checklist_proofs, Lxdialog_proofs.** A list is shown right when the
rows are the page of the list at `scroll` (`InStep`), every row has an item and the
cursor is in the rows. For the menu this is inductive with one more fact: a list
that fits has `first_item` 0, from which a new layout prints (`MenuInv`); the step of a page key is a step of scrolling by several
lines, which the lemmas on windows, at the head of the module, show equal to printing
the page anew. In the list
box a new size lays everything out anew, so no assumption is needed there; for the menu
`MenuShown` and `MenuMoves` assume `ResizeScrolled = FALSE` (section 7). The input box
is in `Lxdialog_proofs`: the position in the text is the sum of the two on the
screen, and the field shows the text from the first of them on.

So is the text box (`TextShown`, `TextMoves`), which keeps a pointer into the text
and counts newlines forwards and backwards to move it. `Paged` is the invariant: the
pointer stands `page_length` lines below the line at the top, `begin_reached` holds
exactly at the first line and `end_reached` exactly once the last was passed. This needs to
know what reading n lines on or back does for every n; `LinesForward` and
`LinesBackward` show it by induction: a set of numbers that has 0 and with n also n + 1
is all of `Nat` (`EveryNumber`, from the library's fact that a well-founded relation has
minimal elements, `WFMin`). Both theorems are for texts that end with a newline (section 7).

`BoxesInv` joins the four boxes; a step of one box leaves the others closed, and the
operators that two boxes have in common are shown to be the same ones
(`SameMenu`, `SameList`).

`TypeCorrect` of `PackageBuild` and of `Sysupgrade` are proved and not put to TLC.

Only model-checked: the properties of the front ends and of `KconfigExpr`, and `Ends`
and `ConfEnds`, which are liveness. An expression is as deep as the parser makes it, so
`MeaningKept`, `SubmenuShown` and `RoundsShrink` are about what recursive definitions compute for every
input, which is induction over data. So is `NoStaleObject`, with `InSync`: both rest on
reading back what was quoted, for a string of any length, and the menu functions that
`NothingAskedTwice` is about are recursive over a tree of any depth. The modules are written
with `RECURSIVE` operators for that reason; where the recursion is over a number (text box) or
could be turned into a list of calls (`PackageMetadata`) it was, and is proved about.

## 6. Findings

1. `confdata.c:415` — `conf_read` clears the change count before it knows that the
   file can be read. After a misspelt name in *Load an Alternate Configuration
   File* the edits in memory count as saved, and leaving drops them without a question
   (run `kconfig_load_missing`).
2. `confdata.c:827` — when the last rename fails, the write marks are cleared and
   the change count is still set. The second attempt that `mconf` offers therefore
   does not recalculate and writes a file without the symbols (run
   `kconfig_rename_fails`).
3. `package.mk:182` — `.prepared` is touched after the unpacking, so a file edited
   in between is older than the stamp and is not noticed by any later make (run
   `package_edit_race`).

A comment that is wrong while the code is right: expr.c:484 names another
constant than the rule below it handles. What is entered in `mconf` is once not taken, and
nothing is said of it (symbol.c:677): section 7, `TypedTaken`.

## 7. What goes wrong outside the assumptions

Each flag or constant below keeps a known weakness of the code out of a passing
run; set as stated, TLC shows it.

| set | violated | what happens |
|---|---|---|
| `MCDefaultCond <- Always` in `KconfigSelect.cfg` (not `PlainDefaults`) | `SetSticks` | a default above the prompt's visibility is accepted as "the present value" and then taken back (symbol.c:497) |
| `RereadClean` as a property of `kconfig_choice` | `RereadClean` | choice values never lose their write mark, so a stale one is saved and the file just written counts as changed (symbol.c:331) |
| `WriteMayFail = TRUE` | `OnlyGood` | print and close of `FILE.dl` are not checked; the digest is of the stream (download.pl:135) |
| `ConfigKept` also of behaviours with the fault `"cut"` | `ConfigKept` | the archive leaves the flash before its files are synced (80_mount_root:11) |
| the same with `"full"` | `ConfigKept` | the status of tar is not looked at (sysupgrade:153) |
| `EditsStay` without `EditsBeforeDone` | `EditsStay` | an archive that did not fit into `/tmp` stays until `init.d/done`; a cut after an earlier edit brings it back over the edit (80_mount_root:11) |
| `ArchiveAsked` also of behaviours with `"ramdisk"` | `ArchiveAsked` | an archive left in `/tmp` by a test run is flashed by a run that saves nothing (sysupgrade:211) |
| `QuickEdits = TRUE` | `NothingMissed` | an edit in the second of the stamp is not seen (timestamp.pl:23) |
| `OptionAfterAbort = TRUE`, 3 makes | `NothingMissed` | the old `.configured_*` is removed after configuring; cut short, and with the option set back, it vouches for a tree configured otherwise (package.mk:190) |
| providers of one name with different sources (not `OneSource`) | `CompiledBefore` | the source of the first stands for all (metadata.pl:750) |
| a word `C:V` and then `V`, for a provided V (not `OneSource`) | `CompiledBefore` | the provider noted under C is not noted again without it (metadata.pl:764) |
| P `!S:R` (not `NegatedOptions`) | `CompiledBefore` | with S as module the menu takes `!S` for met (m), make does not (metadata.pl:630) |
| P `+C`, `!C:R` (not `NegatedOptions`) | `NothingMoreAsked` | P is hidden while C and R are off, though switching P on sets C |
| P `+C:Q`, Q `V`, or Q `+R` and R `V` (not `ProvidedPlainly`) | `NothingMoreAsked` | the condition of a virtual dependency is dropped: P is hidden while the providers are off, and C with them (metadata.pl:438) |
| P `+Q`, Q `+C C:R` (not `OwnConditions`) | `DependsMet` | of P that selects Q only `!C \|\| R` is asked, met by a C that is off before Q sets it (metadata.pl:456) |
| P `+R +S`, R `+S +B`, S `T`, B `+T` (not `Agreed`) | `DependsMet` | words are told apart without their `+` (metadata.pl:423): `+T` is met first and passed over, so P may select S without T, against the comment at metadata.pl:441 |
| no `Definite` in `DependsMet` | `DependsMet` | with P `+PACKAGE_R:Q` and R as module, P may be y and Q m, against the comment at metadata.pl:441 |
| `ResizeScrolled = TRUE` | `ShownIsSelected` | after a resize `first_item` keeps the value of the first layout while `scroll` is computed anew: the rows shown are not the ones acted on (menubox.c:190) |
| a text without a final newline, `Text = {<<"x">>}` in `Lxdialog.cfg` | `PageAtLine` | keys that go back count one line too few; the message of mconf.c:921 is such a text (textbox.c:188) |
| X, Y and the choice as tristates in `MCKconfigFrontends` | `InSync` | what a choice value m stores is not what the choice gives it when it becomes y |
| `TypedTaken` without `Withdrawn` | `TypedTaken` | a text that is the same as the one withdrawn on reading is stored but not put in force, and does not count as a change (symbol.c:677): from the fourth file, choose Y and enter for S the text it had; S stays empty, and is written empty unless something else is changed before |
| the choice there without its reverse dependency | `InSync` | a choice that drops out leaves its values' write marks (symbol.c:331) |

Two more assumptions of the front ends stand for weaknesses. `ReadsAssumption` leaves out
bounds of ranges that have ranges of their own, and choice values that other
choice values depend on: `conf_read` compares with values not yet
settled (confdata.c:461). Every number has a default within its range: where
the empty answer is out of range, `conf` at the end of its input asks for
ever (conf.c:138). Looking at a hidden entry that is on marks it as set by the user
(menu.c:499); nothing says what should become of it, so no property is about it.

In a tristate choice a new visible value makes the choice forget which one the
user had picked, and a value calculated before that is no longer the one to be calculated now
(`PlainChoices`); the choice run has a boolean choice, which is the kind the
`.in` files use. Choice values keep their write marks for good, so a value that has dropped
out of the configuration is saved all the same: `SavedMinimal` is for menus without choices.

## 8. What is not modelled

Per component see the notes in `PROJECT.json`. In the modelled parts:

- *Kconfig*: `dir_dep` (a warning), `sym_check_deps`, symbol search by pattern (mconf
  is given what the search finds), defconfig_list, option env, expansion of
  symbols in strings, command-line names of other files, "visible if", the
  single-menu mode, help, building of the menu tree.
- *Dialogs*: the yes/no box, colours, frames, titles, wrapping of prompts,
  terminals too small for a box.
- *Metadata*: unknown package names, Menu-Depends, Build-Depends, conflicts
  (repeated nowhere, metadata.pl:481), submenu conditions (501), conditions with
  operators in makefile prerequisites (635), targets.
- *Packages*: QUILT and source-directory builds, build variants, host builds,
  `.no_autorebuild`, contents of the `.ipk`, two make jobs staging at once,
  packages that stage files of the same name, the archive as a prerequisite.
  Edits inside `PKG_BUILD_DIR`, which the `rdep` of package.mk:122 looks at as well: they remake `.built` without CleanStaging, and
  213-222 then cleans and copies while `STAMP_INSTALLED` stands, so `InstalledStands` says nothing
  of them. The stamp of the whole `package/compile`, which skips packages (subdir.mk:75-81).
  `confvar` keeps of an option only whether it is set (rules.mk:28), and so does
  `NothingMissed`.
- *Download*: checkouts (git, svn, …), the names of mirrors, the first builds
  before `flock` exists (rules.mk:419).
- *Upgrade*: which files are kept, backups, `nand_upgrade_stage2`, platform
  checks, images fetched from a URL, which is read twice (common.sh:224).

Not modelled at all: the parser, feeds, scanning, images, environment, target data,
vendored code, and the rest of the device's scripts. Hard spots kept for the plan,
most of them not in the list of hazards: `package.mk` 221 (two packages stage a file
of one name), `metadata.pl` 445, `common.sh` 224; `functions.sh` 277 (id chosen
before the lock), 283 (`return $gid`, modulo 256), 292 and 195; `init.d/boot` 15 and
46; `uci-defaults/10_migrate-shadow` 8 and `11_migrate-sysctl` 13 (two edits in
place, not repeatable halfway); `service.sh` 91; `rc.button/reset` 14;
`79_format_partition` 19; `preinit.sh` 54; `feeds` 83, 174, 495, 504; `scan.mk` 87;
`toplevel.mk` 147.

## 9. Plan

Done, in this order, the most important behaviour first: `KconfigSymbols` with its
proofs, `KconfigExpr`, `PackageBuild`, `PackageMetadata`, `Download` with
`ArchiveStore` and proofs, `Sysupgrade` with proofs, `PackageBuild_proofs`; then
`KconfigValues`, `KconfigFiles`, the front ends, the dialog boxes and their proofs;
then the rest of what the runs of the symbols, the packages, the downloads and the
dialog boxes check, as theorems; then the recursion of `mconf_depends` as a list of calls and
`PackageMetadata_proofs`.

Next modules:

1. `Feeds`: location file, checkout, index and links as state; update, install,
   uninstall and clean as actions, failing between steps. Invariant: an index
   belongs to the checkout of the stated location; links point into it.
2. `FirstBoot`: uci-defaults with uncommitted changes and power cuts, composed with
   the boot of `Sysupgrade`. Abstract specification: every script takes effect once.
3. `UserIds`: users and groups added by two package installations at once.
4. `Staging`: two packages of a parallel make staging under the lock, composed
   with the stamps of `PackageBuild`; abstract specification of a staging
   directory that holds for each marked package its last compilation.
5. `Scan`: stamps of `scan.mk` and the life of `.config` in `toplevel.mk`.
6. `HostBuild`: the stamps of `host-build.mk`.

Extensions: conflicts, menus and build dependencies in `PackageMetadata`; the menu
tree built by `menu_finalize` from `KconfigExpr`'s conditions, given to `KconfigMenus`;
tristate choices in the front ends.

Theorems: that `PackageBuild` implements an abstract build in which a package is made
from its present sources or not at all; `NothingAskedTwice` of the front ends, with the
menu functions as recursive functions; safety of `Feeds` and `FirstBoot`.
