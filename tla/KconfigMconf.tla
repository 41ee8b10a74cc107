----------------------------- MODULE KconfigMconf -----------------------------
(***************************************************************************)
(* The program mconf (scripts/config/mconf.c) behind "make menuconfig": a  *)
(* stack of windows, each opened by a call of conf, conf_choice,           *)
(* conf_string or search_conf from the one below; the boxes that ask for   *)
(* the name of a file to load or save are one step with the file.          *)
(* Before a window is shown its entries are looked at, which may mark some *)
(* of them (KconfigMenus).  What the widgets do with keys is in Lxdialog;  *)
(* here the user picks an entry and a command.  Help and the single-menu   *)
(* mode are left out.                                                      *)
(***************************************************************************)
EXTENDS KconfigPrograms
LOCAL INSTANCE SequencesExt

CONSTANTS
  ResetIf,   \* of a choice, the conditions of its "reset" properties
  Sought,    \* bound: the symbols a search may find
  MaxDepth   \* bound: how deep the user goes, jumps not counted

ASSUME MconfAssumption == DOMAIN ResetIf = Choice

VARIABLES
  stack,     \* the open windows, the one on top last
  filename,  \* where the configuration is saved at the end
  showAll    \* show_all_options

screen == <<stack, filename, showAll>>

Window(kind, at) == [kind |-> kind, at |-> at]
Top == Last(stack)
On(kind) == prog = "mconf" /\ Top.kind = kind
Below == Front(stack)

InitMconf == stack = <<>> /\ filename = ".config" /\ showAll = FALSE

(* build_conf(n) in the menu cur: the entries it lists, each with its tag,   *)
(* and those it only looks at.                                               *)
Item(n, tag) == [at |-> n, tag |-> tag]
LookedOnly(N) == {Item(k, "looked") : k \in N}

RECURSIVE BuildConf(_, _, _, _)
BuildConf(m, n, cur, all) ==
  LET s == SymOf[n]
      listed == IF all THEN Kind[n] # "none" ELSE Visible(m, n)
      each(N) == UNION {BuildConf(m, k, cur, all) : k \in N}
      kids == ElementsOf(Kids[n])
      taken == {k \in kids : SymOf[k] = m.chosen[s] /\ Visible(m, k)}
      submenu == LookedOnly(FirstOfMenu(m, n))
      plainTag == CASE ValueOfChoice(s) /\ m.cur[s] = yes -> ":"
                    [] IsText(s) -> "s"
                    [] OTHER -> "t"
      opens == Kind[n] = "menu" /\ ~IsText(s)
  IN  LookedOnly({n}) \cup
      CASE ~listed -> {}
        [] listed /\ s = None /\ n = cur -> each(kids)
        [] listed /\ s = None /\ n # cur /\ Kind[n] = "menu" -> {Item(n, "m")} \cup submenu
        [] listed /\ s = None /\ n # cur /\ Kind[n] # "menu" -> {Item(n, ":")} \cup each(kids)
        [] listed /\ s \in Choice ->
             {Item(n, IF Changable(m, s) \/ taken # {} THEN "t" ELSE ":")} \cup LookedOnly(kids)
             \cup (IF m.cur[s] = yes THEN each({k \in taken : Kids[k] # <<>>}) ELSE each(kids))
        [] listed /\ s \in Plain /\ n = cur -> {Item(n, ":")} \cup each(kids)
        [] listed /\ s \in Plain /\ n # cur ->
             {Item(n, plainTag)} \cup (IF opens THEN submenu ELSE each(kids))

Items(m, n, all) == {i \in BuildConf(m, n, n, all) : i.tag # "looked"}

RECURSIVE Above(_)
Above(n) == IF n = Root THEN {} ELSE {n} \cup Above(Parent(n))

(* The entries looked at to show a window. *)
Looks(m, w, all) ==
  CASE w.kind = "menu" -> {i.at : i \in BuildConf(m, w.at, w.at, all)}
    [] w.kind = "choice" -> ElementsOf(Kids[w.at])
    [] w.kind = "results" -> Above(w.at)
    [] OTHER -> {}

(* The windows st are open over the record m. *)
Shows(m, st, all) ==
  mem' = Once(LAMBDA r : LookedAt(r, Looks(r, Last(st), all)), m) /\ stack' = st /\ showAll' = all
Opens(w) == Len(stack) < MaxDepth /\ Shows(mem, Append(stack, w), showAll)
StaysWith(m) == Shows(m, stack, showAll)

OnlyScreen == UNCHANGED <<prog, files, saved, sessions, inputs, synced, filename>>
OnlyTyped == Types /\ UNCHANGED <<prog, files, saved, sessions, synced, filename>>

(* main, up to the first window. *)
StartMconf ==
  /\ Begin("mconf")
  /\ Shows(ReadAtStart(".config"), <<Window("menu", Root)>>, FALSE)
  /\ filename' = ".config"

-----------------------------------------------------------------------------
(* conf(): the commands on the entry the user is at. *)

(* <Enter> and, on a menu, the space bar. *)
ChoiceIsOn(n) == SymOf[n] \in Choice /\ mem.cur[SymOf[n]] = yes
OpenMenu(i) ==
  /\ i.tag = "m" \/ (i.tag = "t" /\ Kind[i.at] = "menu" /\ ~ChoiceIsOn(i.at))
  /\ Opens(Window("menu", i.at)) /\ OnlyScreen
OpenChoice(i) == i.tag = "t" /\ ChoiceIsOn(i.at) /\ Opens(Window("choice", i.at)) /\ OnlyScreen
OpenString(i) == i.tag = "s" /\ Opens(Window("string", i.at)) /\ OnlyScreen

(* The keys y, n and m, and the space bar on an option.  y that cannot be    *)
(* stands for m.                                                             *)
Key(i, val) ==
  LET s == SymOf[i.at]
      set == IF val = yes /\ ~CanSetTristate(mem, s, yes) THEN mod ELSE val
  IN  /\ i.tag = "t" /\ OnlyTyped
      /\ CanSetTristate(mem, s, set) /\ StaysWith(SetTristate(mem, s, set))
SpaceBar(i) == i.tag = "t" /\ OnlyTyped /\ StaysWith(Toggle(mem, SymOf[i.at]))

OnItem ==
  /\ On("menu")
  /\ \E i \in Items(mem, Top.at, showAll) :
       \/ OpenMenu(i) \/ OpenChoice(i) \/ OpenString(i) \/ SpaceBar(i)
       \/ \E val \in Tristate : Key(i, val)

ShowAll == On("menu") /\ Shows(mem, stack, ~showAll) /\ OnlyScreen

-----------------------------------------------------------------------------
(* The other windows. *)

Resets(m, c) == \E i \in DOMAIN ResetIf[c] : Eval(ResetIf[c][i], m.cur) # no

(* Bug: the settings of before are kept. *)
ChosenKept(m, c, s) ==
  IF CanSetTristate(m, s, yes) THEN SetTristate(m, s, yes) ELSE m

(* conf_choice: a new value of a choice with "reset" makes every setting     *)
(* forgotten, even if the value is refused then.                             *)
Chosen(m, c, s) ==
  LET fresh == IF m.cur[s] # yes /\ Resets(m, c) THEN Reset(m) ELSE m
  IN  IF CanSetTristate(m, s, yes) THEN SetTristate(fresh, s, yes) ELSE Calculated(fresh)

Choose(k) ==
  /\ On("choice") /\ k \in ElementsOf(Kids[Top.at]) /\ Visible(mem, k) /\ SymOf[k] # None
  /\ OnlyTyped /\ Shows(Chosen(mem, SymOf[Top.at], SymOf[k]), Below, showAll)

(* conf_string: the box opens with the value there is. *)
Edited == SymOf[Top.at]
Enter(t) ==
  /\ On("string") /\ StringWithinRange(mem, Edited, t)
  /\ IF t = mem.cur[Edited] THEN OnlyScreen ELSE OnlyTyped
  /\ Shows(SetString(mem, Edited, t), Below, showAll)
EnterText == On("string") /\ \E t \in TypedText[Edited] \cup {mem.cur[Edited]} : Enter(t)

(* conf_load; of a file that does not exist the program says so.             *)
LoadFile(name) ==
  /\ On("menu") /\ Types
  /\ IF files[name] = None
     THEN StaysWith([mem EXCEPT !.changed = FALSE]) /\ UNCHANGED filename
     ELSE StaysWith([ConfRead(mem, files[name], TRUE) EXCEPT !.changed = TRUE]) /\ filename' = name
  /\ UNCHANGED <<prog, files, saved, sessions, synced>>

(* Bug: the marks of the last write are taken for those of this one.         *)
SaveFileStale(name) ==
  /\ On("menu") /\ Types /\ Writes(name, Config(mem), mem) /\ filename' = name
  /\ StaysWith([Unmarked(mem) EXCEPT !.changed = FALSE])
  /\ UNCHANGED <<prog, sessions>>

(* conf_save: what is saved from then on is saved under that name. *)
SaveFile(name) ==
  /\ On("menu") /\ Types /\ Writes(name, Config(WriteReady(mem)), WriteReady(mem)) /\ filename' = name
  /\ StaysWith(ConfWritten(mem))
  /\ UNCHANGED <<prog, sessions>>

(* search_conf finds some entry; a key jumps to it, or to the nearest menu   *)
(* over it that is visible.                                                  *)
Search(n) ==
  /\ On("menu") /\ SymOf[n] \in Sought /\ Opens(Window("results", n)) /\ OnlyScreen
JumpTargets(m, n) ==
  LET over == {a \in Above(n) \ {n} : Visible(m, a)}
      nearest == {a \in over : \A b \in over : b \in Above(a)}
  IN  IF over = {} THEN {} ELSE IF Visible(m, n) THEN {n} ELSE nearest
Jump ==
  /\ On("results")
  /\ \E n \in JumpTargets(mem, Top.at) : Shows(mem, Append(stack, Window("menu", Parent(n))), showAll)
  /\ OnlyScreen

-----------------------------------------------------------------------------
(* Leaving. *)

LeaveWindow ==
  /\ prog = "mconf" /\ Len(stack) > 1 /\ Shows(mem, Below, showAll) /\ OnlyScreen

EndsScreen == Ends /\ stack' = <<>> /\ UNCHANGED <<sessions, inputs, filename, showAll>>

(* handle_exit: the question whether to save is asked only after a change.   *)
AsksToSave(kind) == Shows(mem, <<Window(kind, Root)>>, showAll) /\ OnlyScreen
Exit ==
  /\ On("menu") /\ Len(stack) = 1
  /\ IF mem.changed THEN AsksToSave("exit")
     ELSE EndsScreen /\ UNCHANGED <<files, saved, synced>>

(* SIGINT, in any window: the same, but there is no way back. *)
Interrupt ==
  /\ prog = "mconf" /\ Top.kind # "interrupted"
  /\ IF mem.changed THEN AsksToSave("interrupted")
     ELSE EndsScreen /\ UNCHANGED <<files, saved, synced>>

SaveAtExit ==
  /\ On("exit") \/ On("interrupted")
  /\ Writes(filename, Config(WriteReady(mem)), WriteReady(mem)) /\ EndsScreen

(* The answer is no, or the file cannot be written. *)
DropAtExit == (On("exit") \/ On("interrupted")) /\ EndsScreen /\ UNCHANGED <<files, saved, synced>>

ContinueAtExit == On("exit") /\ Shows(mem, <<Window("menu", Root)>>, showAll) /\ OnlyScreen

NextMconf ==
  \/ StartMconf
  \/ OnItem
  \/ \E n \in Menu : Choose(n) \/ Search(n)
  \/ \E name \in {".config", "alternate"} : LoadFile(name) \/ SaveFile(name)
  \/ EnterText \/ ShowAll \/ Jump \/ LeaveWindow \/ Exit \/ Interrupt \/ SaveAtExit \/ DropAtExit \/ ContinueAtExit
=============================================================================
