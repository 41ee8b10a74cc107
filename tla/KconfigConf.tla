----------------------------- MODULE KconfigConf -----------------------------
(***************************************************************************)
(* The program conf (scripts/config/conf.c): it reads a configuration,     *)
(* asks for or fills in what is new, and writes.  The recursion of conf()  *)
(* and check_conf() over the menu tree is the agenda: the tasks left, the  *)
(* next one first.  With silentoldconfig it goes on to conf_write_autoconf *)
(* (confdata.c): the header of every symbol that changed since the last    *)
(* build is touched, then auto.conf is replaced, which marks the end.      *)
(*                                                                         *)
(* The user may type so many answers; after that, as at the end of input,  *)
(* every answer is the empty line.  Help and answers that are no answer    *)
(* only make the program ask again.                                        *)
(***************************************************************************)
EXTENDS KconfigPrograms

VARIABLES
  mode,     \* input_mode
  sync,     \* sync_kconfig
  source,   \* the file that was read
  tty,      \* valid_stdin
  agenda,   \* what is left to do
  rootEntry,
  again,    \* conf_cnt # 0
  auto,     \* auto.conf, None when there is none
  split,    \* the symbols whose header is still to be touched
  touched,  \* those whose header was touched since the last compilation
  built     \* environment: of each symbol, the value it was last compiled with

run == <<mode, sync, source, tty, agenda, rootEntry, again, split>>
tree == <<auto, touched, built>>

AllModes == {"allnoconfig", "allyesconfig", "allmodconfig", "alldefconfig"}
UpdateModes == {"oldconfig", "silentoldconfig", "listnewconfig", "olddefconfig"}
Mode == AllModes \cup UpdateModes \cup {"oldaskconfig", "defconfig", "savedefconfig", "randconfig"}

Task(do, at) == [do |-> do, at |-> at]
Each(do, q) == [i \in DOMAIN q |-> Task(do, q[i])]
Update == <<Task("check", Root), Task("again", Root)>>
Head1 == agenda[1]
Rest == Tail(agenda)
Doing(do) == prog = "conf" /\ agenda # <<>> /\ Head1.do = do
Sym == SymOf[Head1.at]

(* The values the objects of a source tree built from file f were given.     *)
Unbuilt == [s \in Plain |-> None]
BuiltFrom == [f \in HandMade |-> IF f = None THEN Unbuilt ELSE AutoConf(ConfRead(Unread, f, FALSE))]

InitConf ==
  /\ mode = "oldaskconfig" /\ sync = FALSE /\ source = ".config" /\ tty = TRUE
  /\ agenda = <<>> /\ rootEntry = Root /\ again = FALSE /\ split = {}
  /\ LET f == files[".config"]
     IN  auto = (IF f = None THEN None ELSE BuiltFrom[f]) /\ built = BuiltFrom[f]
  /\ touched = {}

(* main up to the end of conf_read.  defconfig reads the file it is given    *)
(* and gives up without it; so does silentoldconfig without a .config.       *)
Start(md, name, console) ==
  /\ Begin("conf") /\ mem' = ReadAtStart(name)
  /\ md # "defconfig" => name = ".config"
  /\ md \in {"defconfig", "silentoldconfig"} => files[name] # None
  /\ md # "silentoldconfig" => console
  /\ mode' = md /\ sync' = (md = "silentoldconfig") /\ source' = name /\ tty' = console
  /\ rootEntry' = Root /\ again' = FALSE /\ split' = {}
  /\ agenda' =
       CASE md \in AllModes \cup {"defconfig"} -> <<Task("answer", Root), Task("write", Root)>>
         [] md = "randconfig" -> <<Task("random", Root), Task("write", Root)>>
         [] md = "savedefconfig" -> <<Task("write", Root)>>
         [] md = "oldaskconfig" -> <<Task("conf", Root), Task("silently", Root)>>
                                   \o Update \o <<Task("write", Root)>>
         [] OTHER -> Update \o <<Task("write", Root)>>
  /\ UNCHANGED tree

Goes(m, todo) ==
  /\ mem' = m /\ agenda' = todo
  /\ UNCHANGED <<prog, files, saved, sessions, synced, mode, sync, source, tty, split, tree>>

AnswerAll ==
  /\ Doing("answer")
  /\ Goes(AllNewSymbols(mem, mode), Rest)
  /\ UNCHANGED <<inputs, rootEntry, again>>

(* randconfig repeats its round as long as the round says so.                *)
AnswerAtRandom ==
  /\ Doing("random")
  /\ \E r \in RandomAnswers(mem), one \in [Choice -> UNION {ElementsOf(Members[c]) : c \in Choice}] :
       /\ \A c \in Choice : one[c] \in ElementsOf(Members[c])
       /\ Goes(RandomRound(mem, r, one), IF RandomGoesOn(mem, r) THEN agenda ELSE Rest)
  /\ UNCHANGED <<inputs, rootEntry, again>>

-----------------------------------------------------------------------------
(* conf(): the whole of a menu. *)

Visit ==
  /\ Doing("conf")
  /\ LET n == Head1.at
         kids == Each("conf", Kids[n])
         m == LookedAt(mem, {n})
     IN  Goes(m, IF ~Visible(mem, n) THEN Rest
                 ELSE IF Kind[n] = "menu" /\ mode = "silentoldconfig" /\ rootEntry # n
                      THEN <<Task("check", n)>> \o Rest
                 ELSE IF Sym = None THEN kids \o Rest
                 ELSE IF Sym \in Choice
                      THEN (IF Changable(m, Sym) THEN <<Task("sym", n)>> ELSE <<>>)
                           \o <<Task(IF HasValue(m, Sym) THEN "pick" ELSE "pickNew", n), Task("below", n)>>
                           \o Rest
                 ELSE <<Task(IF IsText(Sym) THEN "string" ELSE "sym", n)>> \o kids \o Rest)
  /\ UNCHANGED <<inputs, rootEntry, again>>

(* Below a choice conf() only goes on when the choice is m.                  *)
VisitBelow ==
  /\ Doing("below")
  /\ Goes(mem, IF mem.cur[Sym] = mod THEN Each("conf", Kids[Head1.at]) \o Rest ELSE Rest)
  /\ UNCHANGED <<inputs, rootEntry, again>>

(* After "config" the rest is as with silentoldconfig. *)
GoOnSilently ==
  /\ Doing("silently") /\ mode' = "silentoldconfig" /\ agenda' = Rest
  /\ UNCHANGED <<shared, sync, source, tty, rootEntry, again, split, tree>>

(* conf_askvalue: whether a question is asked.                               *)
Asks ==
  Changable(mem, Sym) /\ ~(mode \in {"oldconfig", "silentoldconfig"} /\ HasValue(mem, Sym))

AskNothing ==
  /\ Doing("sym") \/ Doing("string")
  /\ ~Asks /\ Goes(mem, Rest)
  /\ UNCHANGED <<inputs, rootEntry, again>>

(* conf_sym. *)
AnswerSym ==
  /\ Doing("sym") /\ Asks /\ tty
  /\ \/ /\ Goes(SetTristate(mem, Sym, mem.cur[Sym]), Rest)
        /\ UNCHANGED <<inputs, rootEntry, again>>
     \/ /\ Types /\ UNCHANGED <<rootEntry, again>>
        /\ \E val \in Tristate :
             IF CanSetTristate(mem, Sym, val)
             THEN Goes(SetTristate(mem, Sym, val), Rest) ELSE Goes(mem, agenda)

(* conf_string: the empty line stands for the present value.                 *)
AnswerString ==
  /\ Doing("string") /\ Asks /\ tty
  /\ \/ /\ StringWithinRange(mem, Sym, mem.cur[Sym])
        /\ Goes(SetString(mem, Sym, mem.cur[Sym]), Rest)
        /\ UNCHANGED <<inputs, rootEntry, again>>
     \/ /\ Types /\ UNCHANGED <<rootEntry, again>>
        /\ \E t \in TypedText[Sym] :
             IF StringWithinRange(mem, Sym, t)
             THEN Goes(SetString(mem, Sym, t), Rest) ELSE Goes(mem, agenda)

(* conf_choice, once the choice itself is settled: which of its visible      *)
(* values is taken.                                                          *)
Options(m, n) == SelectSeq(Kids[n], LAMBDA k : SymOf[k] # None /\ Visible(m, k))
AsksChoice ==
  ~(mode \in {"oldconfig", "silentoldconfig"} /\ Head1.do = "pick")
  /\ Len(Options(mem, Head1.at)) # 1

Take(m, k) ==
  Goes(IF CanSetTristate(m, SymOf[k], yes) THEN SetTristate(m, SymOf[k], yes) ELSE m,
       Each("conf", Kids[k]) \o Rest)

Pick ==
  /\ Doing("pick") \/ Doing("pickNew")
  /\ LET m == LookedAt(mem, ElementsOf(Kids[Head1.at]))
         options == Options(m, Head1.at)
         present == {i \in DOMAIN options : SymOf[options[i]] = m.chosen[Sym]}
     IN  \/ /\ mem.cur[Sym] # yes /\ Goes(mem, Rest)
            /\ UNCHANGED <<inputs, rootEntry, again>>
         \/ /\ mem.cur[Sym] = yes /\ AsksChoice => tty
            /\ \E i \in IF Len(options) = 1 THEN {1} ELSE present : Take(m, options[i])
            /\ UNCHANGED <<inputs, rootEntry, again>>
         \/ /\ mem.cur[Sym] = yes /\ AsksChoice /\ tty
            /\ Types /\ UNCHANGED <<rootEntry, again>>
            /\ \E i \in DOMAIN options : Take(m, options[i])

(* check_stdin: silentoldconfig asks nothing of a standard input that is no  *)
(* terminal, it gives up.                                                    *)
GiveUp ==
  /\ ~tty
  /\ \/ (Doing("sym") \/ Doing("string")) /\ Asks
     \/ (Doing("pick") \/ Doing("pickNew")) /\ mem.cur[Sym] = yes /\ AsksChoice
  /\ Ends /\ agenda' = <<>>
  /\ UNCHANGED <<files, saved, sessions, inputs, synced, mode, sync, source, tty, rootEntry, again, split, tree>>

-----------------------------------------------------------------------------
(* check_conf(): what is new is asked for, with the whole menu it is in.     *)
IsNew(m, s) ==
  /\ s # None /\ ~HasValue(m, s)
  /\ Changable(m, s) \/ (s \in Choice /\ m.cur[s] = yes)

Check ==
  /\ Doing("check")
  /\ LET n == Head1.at
         m == LookedAt(mem, {n})
         restart == IsNew(m, Sym) /\ mode \notin {"listnewconfig", "olddefconfig"}
     IN  IF ~Visible(mem, n)
         THEN Goes(mem, Rest) /\ UNCHANGED <<inputs, rootEntry, again>>
         ELSE /\ Goes(m, (IF restart THEN <<Task("conf", ParentMenu(n))>> ELSE <<>>)
                         \o Each("check", Kids[n]) \o Rest)
              /\ rootEntry' = IF restart THEN ParentMenu(n) ELSE rootEntry
              /\ again' = (again \/ restart)
              /\ UNCHANGED inputs

(* Bug: conf_cnt is not set back. *)
AgainForever ==
  /\ Doing("again")
  /\ Goes(mem, IF again /\ mode \notin {"listnewconfig", "olddefconfig"} THEN Update \o Rest ELSE Rest)
  /\ UNCHANGED <<inputs, rootEntry, again>>

(* Update until a loop caused no more changes. *)
Again ==
  /\ Doing("again")
  /\ Goes(mem, IF again /\ mode \notin {"listnewconfig", "olddefconfig"} THEN Update \o Rest ELSE Rest)
  /\ again' = FALSE
  /\ UNCHANGED <<inputs, rootEntry>>

-----------------------------------------------------------------------------
(* The end of main. *)

Unrun ==
  /\ agenda' = <<>> /\ UNCHANGED <<sessions, inputs, mode, sync, source, tty, rootEntry, again>>

WriteMinimal ==
  /\ Doing("write") /\ mode = "savedefconfig"
  /\ Writes("minimal", Minimal(ClearAllValid(mem)), mem)
  /\ Ends /\ Unrun /\ UNCHANGED <<split, tree>>

ListOnly ==
  /\ Doing("write") /\ mode = "listnewconfig"
  /\ Ends /\ Unrun /\ UNCHANGED <<files, saved, synced, split, tree>>

WriteConfig ==
  /\ Doing("write") /\ ~sync /\ mode \notin {"savedefconfig", "listnewconfig"}
  /\ Writes(".config", Config(WriteReady(mem)), WriteReady(mem))
  /\ Ends /\ Unrun /\ UNCHANGED <<split, tree>>

Split(m) == {s \in Plain : Differs(m, auto, s)}

(* silentoldconfig writes .config if it changed, which clears the marks, and *)
(* calculates all values anew to compare them with those of auto.conf.       *)
WriteAndSplit ==
  /\ Doing("write") /\ sync
  /\ IF mem.changed
     THEN Writes(".config", Config(mem), mem)
     ELSE UNCHANGED <<files, saved, synced>>
  /\ mem' = ClearAllValid(IF mem.changed THEN ConfWritten(mem) ELSE mem)
  /\ split' = Split(mem') /\ agenda' = <<Task("touch", Root)>>
  /\ UNCHANGED <<prog, sessions, inputs, mode, sync, source, tty, rootEntry, again, auto, touched, built>>

Touch ==
  /\ Doing("touch")
  /\ \E s \in split : split' = split \ {s} /\ touched' = touched \cup {s}
  /\ UNCHANGED <<shared, mode, sync, source, tty, agenda, rootEntry, again, auto, built>>

(* Bug: auto.conf is replaced before the headers are touched. *)
InstallFirst ==
  /\ Doing("touch") /\ auto' = AutoConf(mem) /\ synced' = TRUE
  /\ Ends /\ Unrun /\ split' = {} /\ UNCHANGED <<files, saved, touched, built>>

(* The last rename of conf_write_autoconf, with all headers touched.         *)
Install ==
  /\ Doing("touch") /\ split = {}
  /\ auto' = AutoConf(mem) /\ synced' = TRUE
  /\ Ends /\ Unrun /\ UNCHANGED <<files, saved, split, touched, built>>

(* A header cannot be made, or the power fails, between two headers or       *)
(* before auto.conf is in place.                                             *)
StopInSplit ==
  /\ Doing("touch")
  /\ Ends /\ Unrun /\ split' = {} /\ UNCHANGED <<files, saved, synced, tree>>

(* make: with auto.conf in place, what reads a touched header is compiled.   *)
Compile ==
  /\ prog = "none" /\ synced /\ touched # {}
  /\ built' = [s \in Plain |-> IF s \in touched THEN auto[s] ELSE built[s]]
  /\ touched' = {}
  /\ UNCHANGED <<shared, run, auto>>

ConfGoesOn ==
  \/ AnswerAll \/ AnswerAtRandom
  \/ Visit \/ VisitBelow \/ GoOnSilently \/ AskNothing
  \/ AnswerSym \/ AnswerString \/ Pick \/ GiveUp \/ Check \/ Again
  \/ WriteMinimal \/ ListOnly \/ WriteConfig \/ WriteAndSplit \/ Touch \/ Install

NextConf ==
  \/ \E md \in Mode, name \in Name, console \in BOOLEAN : Start(md, name, console)
  \/ ConfGoesOn \/ StopInSplit
  \/ Compile
=============================================================================
