--------------------------- MODULE KconfigSymbols ---------------------------
(***************************************************************************)
(* The symbol engine of scripts/config: tristate symbols whose values are  *)
(* computed on demand from the user's settings and cached behind the flag  *)
(* SYMBOL_VALID, choice groups, reverse dependencies, and the reading and  *)
(* writing of the .config file they come from and go to.                   *)
(*                                                                         *)
(* sym_calc_value is recursive: it first has the symbols it reads          *)
(* calculated.  Here CalcValue(s) is one such call whose nested calls have *)
(* all returned, so a read or a write of the whole configuration is a      *)
(* start step, a CalcValue step for each stale symbol, and a finish step.  *)
(* int, hex and string symbols, and dir_dep, which only feeds a warning,   *)
(* are left out.                                                           *)
(***************************************************************************)
EXTENDS Tristate, Sequences

CONSTANTS
  Symbol,         \* every symbol, the choice symbols included
  Choice,         \* the symbols that start a choice block
  Modules,        \* modules_sym
  None,           \* NULL, and the mark of a symbol a file does not name
  Type,           \* sym->type of each symbol: "boolean" or "tristate"
  Prompt,         \* disjunction of the symbol's prompt conditions
  Default,        \* its defaults in order: records [val, cond]
  RevDep,         \* the selects that name it, as one expression
  Members,        \* of each choice, its values in order
  ChoiceDefault,  \* of each choice, its defaults in order: [sym, cond]
  HandMade        \* the .config files a user may start from (None: no file)

ElementsOf(q) == {q[i] : i \in DOMAIN q}
Member == UNION {ElementsOf(Members[c]) : c \in Choice}
ChoiceOf(s) == CHOOSE c \in Choice : s \in ElementsOf(Members[c])
Config == [Symbol \ Choice -> Tristate \cup {None}]

ASSUME SymbolAssumption ==
  /\ Choice \subseteq Symbol /\ Modules \in Symbol \ Choice
  /\ None \notin Symbol /\ None \notin Tristate
  /\ Type \in [Symbol -> {"boolean", "tristate"}] /\ Type[Modules] = "boolean"
ASSUME ExprAssumption ==
  /\ Prompt \in [Symbol -> Exprs(Symbol)] /\ RevDep \in [Symbol -> Exprs(Symbol)]
  /\ \A s \in Symbol : DOMAIN Default[s] \subseteq Nat /\ \A i \in DOMAIN Default[s] :
       Default[s][i].val \in Exprs(Symbol) /\ Default[s][i].cond \in Exprs(Symbol)

(* Choice values are plain symbols, each of one choice.  menu_finalize makes *)
(* every prompt inside a choice block depend on the choice, and that of a    *)
(* boolean value on the choice being y.                                      *)
ASSUME ChoiceAssumption ==
  /\ \A c \in Choice : Members[c] \in Seq(Symbol \ (Choice \cup {Modules}))
  /\ \A c, d \in Choice : c # d => ElementsOf(Members[c]) \cap ElementsOf(Members[d]) = {}
  /\ DOMAIN ChoiceDefault = Choice /\ \A c \in Choice : DOMAIN ChoiceDefault[c] \subseteq Nat
  /\ \A c \in Choice : \A i \in DOMAIN ChoiceDefault[c] :
       ChoiceDefault[c][i].sym \in ElementsOf(Members[c]) /\ ChoiceDefault[c][i].cond \in Exprs(Symbol)
  /\ \A c \in Choice : \A m \in ElementsOf(Members[c]) :
       /\ c \in SymbolsOf(Prompt[m])
       /\ \A v \in [Symbol -> Tristate] :
            /\ Eval(Prompt[m], v) <= v[c]
            /\ Type[c] = "tristate" /\ Type[m] = "boolean" /\ v[c] # yes => Eval(Prompt[m], v) = no
ASSUME FileAssumption == HandMade \subseteq Config \cup {None}

VARIABLES
  valid,       \* SYMBOL_VALID
  curr,        \* sym->curr.tri
  chosen,      \* of a choice, sym->curr.val
  visible,     \* sym->visible
  rev_dep,     \* sym->rev_dep.tri
  write,       \* SYMBOL_WRITE
  defUser,     \* SYMBOL_DEF_USER
  defTri,      \* sym->def[S_DEF_USER].tri
  defVal,      \* of a choice, sym->def[S_DEF_USER].val
  modules_val, \* the cached value of modules_sym
  changed,     \* conf_get_changed()
  op,          \* what the program is doing
  warned,      \* conf_warnings # 0 in the read under way
  file,        \* the .config file, None when it does not exist
  wrote,       \* history: the values the last complete write saved
  asked        \* history: the last setting accepted since the last read

cache == <<valid, curr, chosen, visible, rev_dep, write, modules_val>>
user == <<defUser, defTri, defVal>>
vars == <<cache, user, changed, op, warned, file, wrote, asked>>

(* Every variable has the type of the C field it stands for; in particular  *)
(* a choice's current and saved values are NULL or choice values.           *)
TypeOK ==
  /\ valid \in [Symbol -> BOOLEAN]
  /\ curr \in [Symbol -> Tristate]
  /\ chosen \in [Choice -> Member \cup {None}]
  /\ visible \in [Symbol -> Tristate]
  /\ rev_dep \in [Symbol -> Tristate]
  /\ write \in [Symbol -> BOOLEAN]
  /\ defUser \in [Symbol -> BOOLEAN]
  /\ defTri \in [Symbol -> Tristate]
  /\ defVal \in [Choice -> Member \cup {None}]
  /\ modules_val \in Tristate
  /\ changed \in BOOLEAN
  /\ op \in {"start", "reading", "loading", "idle", "writing"}
  /\ warned \in BOOLEAN
  /\ file \in Config \cup {None}
  /\ wrote \in [Symbol \ Choice -> Tristate] \cup {None}
  /\ asked \in [sym : Symbol, val : Tristate] \cup {None}

-----------------------------------------------------------------------------
(* The parts of sym_calc_value.  v gives the values of the symbols read.    *)

IsMember(s) == s \in Member

(* sym_get_type for a symbol of visibility vis. *)
GetType(s, vis) ==
  IF Type[s] = "tristate" /\ ~(IsMember(s) /\ vis = yes) /\ modules_val # no
  THEN "tristate" ELSE "boolean"

(* sym_calc_visibility: the prompts, then, for all but choice values, the   *)
(* reverse dependency.                                                      *)
CalcVisible(s, v) ==
  LET tri == Eval(Prompt[s], v)
  IN  IF tri = mod /\ (Type[s] # "tristate" \/ modules_val = no) THEN yes ELSE tri

CalcRevDep(s, vis, v) ==
  LET tri == Eval(RevDep[s], v)
  IN  IF IsMember(s) THEN rev_dep[s]
      ELSE IF tri = mod /\ GetType(s, vis) = "boolean" THEN yes ELSE tri

(* sym_get_default_prop: the defaults whose condition holds; the first one. *)
LiveDefaults(s, v) == {i \in DOMAIN Default[s] : Eval(Default[s][i].cond, v) # no}
FirstOf(I) == CHOOSE i \in I : \A j \in I : i <= j

DefaultValue(s, v) ==
  LET d == Default[s][FirstOf(LiveDefaults(s, v))]
  IN  IF s \in Choice \/ LiveDefaults(s, v) = {} THEN no
      ELSE And(Eval(d.val, v), Eval(d.cond, v))

(* The value computed from the visibility vis, the reverse dependency rev   *)
(* and the user's setting (du, dt).                                         *)
CalcTri(s, vis, rev, du, dt, v) ==
  LET wanted == IF vis # no /\ du[s] THEN And(dt[s], vis) ELSE DefaultValue(s, v)
      tri == IF IsMember(s) /\ vis = yes
             THEN IF chosen[ChoiceOf(s)] = s THEN yes ELSE no
             ELSE Or(wanted, rev)
  IN  IF tri = mod /\ GetType(s, vis) = "boolean" THEN yes ELSE tri

(* Bug: SYMBOL_WRITE is not cleared before the calculation. *)
CalcWriteKept(s, vis, rev, v) ==
  write[s] \/ vis # no \/ rev # no \/ LiveDefaults(s, v) # {}

(* Whether the calculation sets SYMBOL_WRITE on s itself. *)
CalcWrite(s, vis, rev, v) ==
  IF IsMember(s)
  THEN write[s] \/ vis = mod \/ (vis # yes /\ LiveDefaults(s, v) # {})
  ELSE vis # no \/ rev # no \/ (s \notin Choice /\ LiveDefaults(s, v) # {})

(* The symbols sym_calc_value(s) has calculated before it uses their value; *)
(* a choice whose value is y also reads what its values' prompts read.      *)
DefaultReads(s) ==
  UNION {SymbolsOf(Default[s][i].val) \cup SymbolsOf(Default[s][i].cond) : i \in DOMAIN Default[s]}
Reads(s) == SymbolsOf(Prompt[s]) \cup SymbolsOf(RevDep[s]) \cup DefaultReads(s)
ChoiceReads(c) ==
  ((UNION {SymbolsOf(Prompt[m]) : m \in ElementsOf(Members[c])})
   \cup (UNION {SymbolsOf(ChoiceDefault[c][i].cond) : i \in DOMAIN ChoiceDefault[c]})) \ {c}

(* The module switch depends on nothing. *)
ASSUME ModulesAssumption == Reads(Modules) = {}

(* sym_choice_default, given the visibilities vis and the values v.         *)
ChoiceDefaultSym(c, vis, v) ==
  LET live == {i \in DOMAIN ChoiceDefault[c] :
                 /\ Eval(ChoiceDefault[c][i].cond, v) # no
                 /\ vis[ChoiceDefault[c][i].sym] # no}
      seen == {i \in DOMAIN Members[c] : vis[Members[c][i]] # no}
  IN  IF live # {} THEN ChoiceDefault[c][FirstOf(live)].sym
      ELSE IF seen # {} THEN Members[c][FirstOf(seen)]
      ELSE None

(* Bug: the user's choice is kept although it is not visible. *)
CalcChoiceBlind(c, vis, v) ==
  IF defVal[c] # None THEN defVal[c] ELSE ChoiceDefaultSym(c, vis, v)

(* sym_calc_choice: which value the choice takes. *)
CalcChoice(c, vis, v) ==
  IF defVal[c] # None /\ vis[defVal[c]] # no THEN defVal[c] ELSE ChoiceDefaultSym(c, vis, v)

-----------------------------------------------------------------------------
(* What the theorems about the values ask of a menu. *)

(* A choice is boolean and not optional: menu_finalize makes its visibility  *)
(* a reverse dependency of it.                                               *)
PlainChoices ==
  \A c \in Choice :
    /\ Type[c] = "boolean"
    /\ \A v \in [Symbol -> Tristate] : Eval(Prompt[c], v) # no => Eval(RevDep[c], v) # no

(* No default of a tristate symbol is above its prompt, and choice values     *)
(* have none: menu_finalize adds the dependencies of an entry to both, and    *)
(* warns of a default for a choice value.                                     *)
PlainDefaults ==
  /\ \A s \in Symbol \ Choice, v \in [Symbol -> Tristate] :
       Type[s] = "tristate" /\ Eval(Prompt[s], v) # no
         => DefaultValue(s, v) <= Eval(Prompt[s], v)
  /\ \A m \in Member : DOMAIN Default[m] = {}

(* No choice value is a tristate.                                            *)
PlainMembers == \A m \in Member : Type[m] = "boolean"

(* No symbol depends on itself: sym_check_deps reports one that does.         *)
Ranks(rank) ==
  /\ \A s \in Symbol : \A r \in Reads(s) : rank[r] < rank[s]
  /\ \A c \in Choice : \A r \in ChoiceReads(c) : rank[r] < rank[c]
Acyclic == \E rank \in [Symbol -> Nat] : Ranks(rank)

-----------------------------------------------------------------------------
(* A program that has parsed the Kconfig files and read no configuration.    *)
Unset == [s \in Symbol |-> FALSE]
AllNo == [s \in Symbol |-> no]
NoneChosen == [c \in Choice |-> None]

Init ==
  /\ valid = Unset /\ write = Unset /\ defUser = Unset
  /\ curr = AllNo /\ visible = AllNo /\ rev_dep = AllNo /\ defTri = AllNo
  /\ chosen = NoneChosen /\ defVal = NoneChosen
  /\ modules_val = no /\ changed = FALSE /\ op = "start" /\ warned = FALSE
  /\ file \in HandMade /\ wrote = None /\ asked = None

(* sym_calc_value of a symbol that starts no choice. *)
CalcSymbol(s) ==
  LET vis == CalcVisible(s, curr)
      rev == CalcRevDep(s, vis, curr)
      tri == CalcTri(s, vis, rev, defUser, defTri, curr)
  IN  /\ ~valid[s] /\ \A r \in Reads(s) : valid[r]
      /\ valid' = [valid EXCEPT ![s] = TRUE]
      /\ visible' = [visible EXCEPT ![s] = vis]
      /\ rev_dep' = [rev_dep EXCEPT ![s] = rev]
      /\ curr' = [curr EXCEPT ![s] = tri]
      /\ write' = [write EXCEPT ![s] = CalcWrite(s, vis, rev, curr)]
      /\ modules_val' = IF s = Modules THEN tri ELSE modules_val
      /\ UNCHANGED <<chosen, user, changed, op, warned, file, wrote, asked>>

(* sym_calc_value of a choice.  When its value is y, sym_calc_choice first   *)
(* recomputes the visibility of every choice value, takes back the choice's  *)
(* user value if a visible one is new, and picks the chosen value; without   *)
(* any the choice falls to n.  The choice itself is never written.           *)
CalcChoiceSymbol(c) ==
  LET vis == CalcVisible(c, curr)
      rev == CalcRevDep(c, vis, curr)
      tri == CalcTri(c, vis, rev, defUser, defTri, curr)
      members == ElementsOf(Members[c])
      withTri == [curr EXCEPT ![c] = tri]
      seen == [s \in Symbol |-> IF s = c THEN vis
                                ELSE IF tri = yes /\ s \in members THEN CalcVisible(s, withTri)
                                ELSE visible[s]]
      pick == IF tri = yes THEN CalcChoice(c, seen, withTri) ELSE None
  IN  /\ ~valid[c] /\ \A r \in Reads(c) : valid[r]
      /\ tri = yes => \A r \in ChoiceReads(c) : valid[r]
      /\ valid' = [valid EXCEPT ![c] = TRUE]
      /\ visible' = seen
      /\ rev_dep' = [rev_dep EXCEPT ![c] = rev]
      /\ chosen' = [chosen EXCEPT ![c] = pick]
      /\ curr' = [curr EXCEPT ![c] = IF tri = yes /\ pick = None THEN no ELSE tri]
      /\ defUser' = [defUser EXCEPT ![c] =
           @ /\ (tri = yes => \A m \in members : seen[m] # no => defUser[m])]
      /\ write' = [s \in Symbol |->
           IF s = c THEN FALSE
           ELSE write[s] \/ (s \in members /\ seen[s] # no /\ CalcWrite(c, vis, rev, curr))]
      /\ UNCHANGED <<modules_val, defTri, defVal, changed, op, warned, file, wrote, asked>>

CalcValue ==
  /\ op # "start"
  /\ \/ \E s \in Symbol \ Choice : CalcSymbol(s)
     \/ \E c \in Choice : CalcChoiceSymbol(c)

(* Bug: nothing is made stale. *)
RecalculateNothing(du, dt) == UNCHANGED cache

(* Every symbol is made stale and modules_sym calculated at once, with user  *)
(* settings du and dt.  sym_clear_all_valid does this, and so does           *)
(* conf_read_simple after conf_reset.                                        *)
Recalculate(du, dt) ==
  LET vis == CalcVisible(Modules, curr)
      rev == CalcRevDep(Modules, vis, curr)
      tri == CalcTri(Modules, vis, rev, du, dt, curr)
  IN  /\ valid' = [s \in Symbol |-> s = Modules]
      /\ visible' = [visible EXCEPT ![Modules] = vis]
      /\ rev_dep' = [rev_dep EXCEPT ![Modules] = rev]
      /\ curr' = [curr EXCEPT ![Modules] = tri]
      /\ write' = [write EXCEPT ![Modules] = CalcWrite(Modules, vis, rev, curr)]
      /\ modules_val' = tri
      /\ UNCHANGED chosen

-----------------------------------------------------------------------------
(* Changing a value. *)

(* Bug: a value above the visibility is taken. *)
WithinRangeUnbounded(s, val) ==
  /\ visible[s] > rev_dep[s] /\ val >= rev_dep[s]
  /\ ~(GetType(s, visible[s]) = "boolean" /\ val = mod)

(* sym_tristate_within_range, and the values sym_set_tristate_value takes.   *)
WithinRange(s, val) ==
  /\ visible[s] # no
  /\ ~(GetType(s, visible[s]) = "boolean" /\ val = mod)
  /\ visible[s] > rev_dep[s]
  /\ IF IsMember(s) /\ visible[s] = yes THEN val = yes
     ELSE val >= rev_dep[s] /\ val <= visible[s]

Accepts(s, val) == curr[s] = val \/ WithinRange(s, val)

(* An accepted sym_set_tristate_value(s, val).  The user interface works on  *)
(* symbols it has just displayed, so s is calculated.  Setting a choice      *)
(* value to y makes it the choice's user value and clears the "new" mark of  *)
(* the choice and of its visible values.                                     *)
Set(s, val) ==
  LET takes == IsMember(s) /\ val = yes
      du == [r \in Symbol |->
               \/ defUser[r] \/ r = s
               \/ takes /\ r = ChoiceOf(s)
               \/ takes /\ r \in ElementsOf(Members[ChoiceOf(s)]) /\ visible[r] # no]
      dt == [defTri EXCEPT ![s] = val]
  IN  /\ defUser' = du /\ defTri' = dt
      /\ defVal' = [c \in Choice |-> IF takes /\ c = ChoiceOf(s) THEN s ELSE defVal[c]]
      /\ IF curr[s] # val
         THEN Recalculate(du, dt) /\ changed' = TRUE
         ELSE UNCHANGED <<cache, changed>>
      /\ asked' = [sym |-> s, val |-> val]
      /\ UNCHANGED <<op, warned, file, wrote>>

Editable(s) == op = "idle" /\ valid[s] /\ visible[s] # no

SetTristate(s, val) == Editable(s) /\ Accepts(s, val) /\ Set(s, val)

(* sym_toggle_tristate_value: the next value in the order n, m, y that is    *)
(* accepted; the present one, tried last, always is.                         *)
Succ(t) == (t + 1) % 3
Toggled(s) ==
  LET t1 == Succ(curr[s])  t2 == Succ(t1)
  IN  IF Accepts(s, t1) THEN t1 ELSE IF Accepts(s, t2) THEN t2 ELSE curr[s]
Toggle(s) == Editable(s) /\ Set(s, Toggled(s))

-----------------------------------------------------------------------------
(* Reading the .config file. *)

(* The choice's settings after the lines of its values were read in order;   *)
(* an m after a y drops the choice's own mark, and that line and every y     *)
(* that follows another setting give a warning.                              *)
LinesOf(f, c) == {i \in DOMAIN Members[c] : f[Members[c][i]] # None}
Yeses(f, c) == {i \in LinesOf(f, c) : f[Members[c][i]] = yes}
Clash(f, c) == {i \in LinesOf(f, c) : f[Members[c][i]] = mod /\ \E j \in Yeses(f, c) : j < i}
Override(f, c) ==
  {i \in Yeses(f, c) : \E j \in LinesOf(f, c) : j < i /\ f[Members[c][j]] # no}
ReadTri(f, c) ==
  CHOOSE t \in Tristate :
    /\ \A i \in LinesOf(f, c) : f[Members[c][i]] <= t
    /\ t = no \/ \E i \in LinesOf(f, c) : f[Members[c][i]] = t

(* Bug: the choice is not told which of its values is set. *)
ReadValLost(f, c) == None

ReadVal(f, c) ==
  IF Yeses(f, c) = {} THEN None
  ELSE Members[c][CHOOSE i \in Yeses(f, c) : \A j \in Yeses(f, c) : j <= i]

(* Bug: conf_reset leaves the value of what the file does not name.          *)
ReadLinesNoReset(f) ==
  LET du == [s \in Symbol |-> IF s \in Choice THEN Clash(f, s) = {} ELSE f[s] # None]
      dt == [s \in Symbol |-> IF s \in Choice THEN ReadTri(f, s) ELSE f[s]]
  IN  /\ defUser' = du /\ defTri' = dt
      /\ defVal' = [c \in Choice |-> ReadVal(f, c)]
      /\ Recalculate(du, dt)
      /\ warned' = FALSE /\ changed' = FALSE /\ asked' = None

(* conf_reset, the lines of file f, and the calculation of modules_sym.      *)
ReadLines(f) ==
  LET du == [s \in Symbol |-> IF s \in Choice THEN Clash(f, s) = {} ELSE f[s] # None]
      dt == [s \in Symbol |-> IF s \in Choice THEN ReadTri(f, s)
                              ELSE IF f[s] = None THEN no ELSE f[s]]
  IN  /\ defUser' = du /\ defTri' = dt
      /\ defVal' = [c \in Choice |-> ReadVal(f, c)]
      /\ Recalculate(du, dt)
      /\ warned' = \E c \in Choice : Clash(f, c) \cup Override(f, c) # {}
      /\ changed' = FALSE /\ asked' = None

(* conf_read(NULL), when the program starts. *)
ReadStart ==
  /\ op = "start" /\ file # None /\ op' = "reading"
  /\ ReadLines(file)
  /\ UNCHANGED <<file, wrote>>

(* There is no file: the values in memory stay, but count as changed. *)
ReadMissing ==
  /\ op = "start" /\ file = None
  /\ Recalculate(defUser, defTri)
  /\ changed' = TRUE /\ op' = "idle"
  /\ UNCHANGED <<user, warned, file, wrote, asked>>

(* The user loads a file by name; from then on that is the .config file.     *)
Load(f) ==
  /\ op = "idle" /\ f # None /\ op' = "loading"
  /\ ReadLines(f)
  /\ file' = f /\ wrote' = IF f = file THEN wrote ELSE None

(* There is no file of the name the user types.  The message says so, and    *)
(* conf_read has by then set the change count to zero.                       *)
LoadMissing ==
  /\ op = "idle" /\ changed' = FALSE
  /\ UNCHANGED <<cache, user, op, warned, file, wrote, asked>>

(* Bug: a saved value of what is not visible any more does not count. *)
UnsavedWritten ==
  {s \in Symbol \ Choice : write[s] /\ (defUser[s] => defTri[s] # curr[s])}

(* The symbols whose saved value and calculated value disagree. *)
Unsaved ==
  {s \in Symbol \ Choice :
     IF defUser[s] /\ write[s] THEN defTri[s] # curr[s] ELSE defUser[s] \/ write[s]}

(* The end of conf_read, once every symbol is calculated.  When nothing is   *)
(* unsaved the user value of what is not visible is forgotten, so that it    *)
(* appears as new if it ever becomes visible.                                *)
ReadFinish ==
  /\ op \in {"reading", "loading"} /\ \A s \in Symbol : valid[s]
  /\ defUser' = [s \in Symbol |->
       defUser[s] /\ ~(Unsaved = {} /\ visible[s] = no /\ ~IsMember(s))]
  /\ changed' = (op = "loading" \/ changed \/ warned \/ Unsaved # {})
  /\ op' = "idle"
  /\ UNCHANGED <<cache, defTri, defVal, warned, file, wrote, asked>>

-----------------------------------------------------------------------------
(* Writing it. *)

(* Bug: the marks cleared by the last write are not computed anew.           *)
WriteStartStale ==
  op = "idle" /\ op' = "writing" /\ UNCHANGED <<cache, changed, user, warned, file, wrote, asked>>

(* An unchanged configuration is calculated afresh, which restores the marks *)
(* the last write cleared.                                                   *)
WriteStart ==
  /\ op = "idle" /\ op' = "writing"
  /\ IF changed THEN UNCHANGED <<cache, changed>>
     ELSE Recalculate(defUser, defTri) /\ changed' = TRUE
  /\ UNCHANGED <<user, warned, file, wrote, asked>>

(* Every symbol of the menus has been calculated; the marked ones are in the *)
(* temporary file, and each mark is cleared.                                 *)
Written == [s \in Symbol \ Choice |-> IF write[s] THEN curr[s] ELSE None]
Emitted ==
  /\ op = "writing" /\ \A s \in Symbol : valid[s]
  /\ write' = [s \in Symbol |-> FALSE] /\ op' = "idle"
  /\ UNCHANGED <<valid, curr, chosen, visible, rev_dep, modules_val, user, warned, asked>>

WriteFinish ==
  /\ Emitted
  /\ file' = Written /\ wrote' = [s \in Symbol \ Choice |-> curr[s]]
  /\ changed' = FALSE

(* The last rename fails: conf_write returns at once. *)
WriteRenameFails == Emitted /\ UNCHANGED <<file, wrote, changed>>

(* The program ends and is started again. *)
Restart ==
  /\ op = "idle"
  /\ valid' = Unset /\ write' = Unset /\ defUser' = Unset
  /\ curr' = AllNo /\ visible' = AllNo /\ rev_dep' = AllNo /\ defTri' = AllNo
  /\ chosen' = NoneChosen /\ defVal' = NoneChosen
  /\ modules_val' = no /\ changed' = FALSE /\ op' = "start" /\ warned' = FALSE
  /\ asked' = None /\ UNCHANGED <<file, wrote>>

Next ==
  \/ CalcValue
  \/ \E s \in Symbol, val \in Tristate : SetTristate(s, val)
  \/ \E s \in Symbol : Toggle(s)
  \/ ReadStart \/ ReadMissing \/ ReadFinish
  \/ \E f \in HandMade \cup {file} : Load(f)
  \/ WriteStart \/ WriteFinish
  \/ Restart

Spec == Init /\ [][Next]_vars

(* The same program when a rename may fail or a file to load be misspelt.    *)
SpecFaulty == Init /\ [][Next \/ WriteRenameFails \/ LoadMissing]_vars

-----------------------------------------------------------------------------
(* The cache is sound: whatever sequence of reads, settings and partial      *)
(* calculations came before, a symbol marked SYMBOL_VALID has the visibility *)
(* and the value a calculation from the present user settings would give.    *)
(* sym_set_tristate_value relies on it when it leaves the cache alone        *)
(* because the value asked for is the value there is.                        *)
Coherent ==
  \A s \in Symbol : valid[s] =>
    LET vis == CalcVisible(s, curr)
        rev == CalcRevDep(s, vis, curr)
        tri == CalcTri(s, vis, rev, defUser, defTri, curr)
    IN  /\ visible[s] = vis
        /\ curr[s] = IF s \in Choice /\ chosen[s] = None /\ tri = yes THEN no ELSE tri

(* What the user is told was set is what the symbol is: after the program    *)
(* has accepted a value, the symbol has it whenever it is calculated, until  *)
(* the next setting.  The menus promise it ("press <Y> to build it in").     *)
SetSticks == asked # None /\ valid[asked.sym] => curr[asked.sym] = asked.val

(* A choice that is y has exactly one value: the chosen one is a visible     *)
(* value of that choice, and of the calculated values that are visible as y  *)
(* it alone is y.                                                            *)
ExactlyChosen ==
  \A c \in Choice : valid[c] /\ curr[c] = yes =>
    /\ chosen[c] \in ElementsOf(Members[c]) /\ visible[chosen[c]] # no
    /\ \A m \in ElementsOf(Members[c]) :
         valid[m] /\ visible[m] = yes => (curr[m] = yes <=> m = chosen[c])

(* Whether a calculation from scratch marks s to be written. *)
MustWrite(s) ==
  IF IsMember(s)
  THEN LET c == ChoiceOf(s)
       IN  visible[s] # no /\ (visible[s] = mod \/ CalcWrite(c, visible[c], rev_dep[c], curr))
  ELSE visible[s] # no \/ rev_dep[s] # no \/ LiveDefaults(s, curr) # {}

(* Saving loses nothing: the file conf_write leaves has the value of every   *)
(* symbol the configuration is made of, although the marks SYMBOL_WRITE it   *)
(* goes by are cleared by each write and set only by calculations.           *)
FileComplete ==
  [][WriteFinish => \A s \in Symbol \ Choice : MustWrite(s) => file'[s] = curr[s]]_vars

(* And nothing else: no symbol that has dropped out of the configuration.    *)
FileMinimal ==
  [][WriteFinish => \A s \in Symbol \ Choice : file'[s] # None => MustWrite(s)]_vars

(* Reading back what was written restores the value of every symbol, those   *)
(* that were not written because they follow from the others included.       *)
RoundTrip ==
  [][ReadFinish /\ wrote # None => \A s \in Symbol \ Choice : curr[s] = wrote[s]]_vars

(* conf_read compares saved and calculated values to see whether the         *)
(* configuration needs saving: one that was just written does not.           *)
RereadClean ==
  [][ReadFinish /\ op = "reading" /\ wrote # None => ~changed']_vars

(* The program offers to save when there is something to save: while         *)
(* conf_get_changed() is false, a value that differs from the file's is not  *)
(* in memory, so leaving without saving loses nothing.                       *)
UnchangedMeansSaved ==
  op = "idle" /\ ~changed /\ file # None =>
    \A s \in Symbol \ Choice : valid[s] /\ file[s] # None => file[s] = curr[s]
=============================================================================
