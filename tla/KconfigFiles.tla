---------------------------- MODULE KconfigFiles ----------------------------
(***************************************************************************)
(* The files of scripts/config/confdata.c: conf_read, the answers of       *)
(* conf_set_all_new_symbols, and what conf_write, conf_write_defconfig and *)
(* conf_write_autoconf put in .config, in a defconfig and in auto.conf.    *)
(*                                                                         *)
(* A file is a function from the plain symbols to what stands after the    *)
(* equals sign (a tristate, a number's text, a string in quotes), None for *)
(* a symbol it does not name.  "is not set" is the tristate n.             *)
(***************************************************************************)
EXTENDS KconfigValues
LOCAL INSTANCE SequencesExt

(* A choice reads no value of another choice, and no range or default reads *)
(* a number that has a range: outside of this the code computes stale       *)
(* values (README, "Outside the assumptions").                              *)
RangedOperand(f) == f.sym # None /\ Ranges[f.sym] # <<>>
ASSUME ReadsAssumption ==
  /\ \A c, d \in Choice : c # d =>
       (Engine(Unread)!Reads(c) \cup Engine(Unread)!ChoiceReads(c)) \cap ElementsOf(Members[d]) = {}
  /\ \A s \in Symbol : IsText(s) =>
       /\ \A i \in DOMAIN TextDefault[s] : ~RangedOperand(TextDefault[s][i].from)
       /\ \A i \in DOMAIN Ranges[s] : ~RangedOperand(Ranges[s][i].low) /\ ~RangedOperand(Ranges[s][i].high)

-----------------------------------------------------------------------------
(* Reading. *)

(* conf_set_sym_val: the value a line gives s, None (and a warning) for none. *)
LineValue(s, raw) ==
  CASE raw = None -> None
    [] raw # None /\ Type[s] = "boolean" -> IF raw = mod THEN None ELSE raw
    [] raw # None /\ Type[s] = "tristate" -> raw
    [] raw # None /\ Type[s] = "string" -> Unquoted(raw)
    [] OTHER -> IF StringValid(s, raw) THEN raw ELSE None

(* conf_reset: every user value is forgotten; a choice counts as set.        *)
Reset(m) == [m EXCEPT !.du = [s \in Symbol |-> s \in Choice], !.def = Unread.def, !.pick = Unread.pick]

(* conf_read_simple of the file f, and the calculation of every symbol.      *)
Loaded(m, f) ==
  LET line == [s \in Plain |-> LineValue(s, f[s])]
  IN  Calculated([Reset(m) EXCEPT
        !.du = [s \in Symbol |-> IF s \in Choice THEN Engine(m)!Clash(line, s) = {} ELSE line[s] # None],
        !.def = [s \in Symbol |-> IF s \in Choice THEN Engine(m)!ReadTri(line, s)
                                  ELSE IF line[s] = None THEN @[s] ELSE line[s]],
        !.pick = [c \in Choice |-> Engine(m)!ReadVal(line, c)]])

Warned(m, f) ==
  LET line == [s \in Plain |-> LineValue(s, f[s])]
  IN  \/ \E s \in Plain : f[s] # None /\ line[s] = None
      \/ \E c \in Choice : Engine(m)!Clash(line, c) \cup Engine(m)!Override(line, c) # {}

(* conf_read compares saved and calculated values.                           *)
Disagrees(m) ==
  {s \in Plain : IF m.du[s] /\ m.write[s] THEN m.def[s] # m.cur[s] ELSE m.du[s] \/ m.write[s]}

(* The second loop of conf_read, for one symbol: the user value of what is   *)
(* not visible is forgotten while nothing is unsaved, and so is a number     *)
(* out of range, which is then calculated anew.                              *)
Settle(r, s) ==
  LET kept == ~(r.m.vis[s] = no /\ ~r.unsaved)
  IN  IF ~HasValue(r.m, s) \/ ValueOfChoice(s) THEN r
      ELSE IF IsText(s) /\ ~StringWithinRange(r.m, s, r.m.def[s])
           THEN [m |-> CalcValue([r.m EXCEPT !.du[s] = FALSE], s), unsaved |-> TRUE]
      ELSE [r EXCEPT !.m.du[s] = kept]

(* conf_read(name) of an existing file f; counted when the change count was  *)
(* raised before the file was opened.                                        *)
ConfRead(m, f, counted) ==
  LET loaded == Loaded(m, f)
      r == FoldLeft(LAMBDA q, s : Once(LAMBDA x : Settle(x, s), q), [m |-> loaded, unsaved |-> Disagrees(loaded) # {}], HashOrder)
  IN  [r.m EXCEPT !.changed = counted \/ Warned(m, f) \/ r.unsaved]

(* conf_read(NULL) without a .config and without a list of defaults.         *)
ConfReadMissing(m) == [Calculated(m) EXCEPT !.changed = TRUE]

-----------------------------------------------------------------------------
(* conf_set_all_new_symbols. *)

(* What has no value yet.  The module switch is not among them:              *)
(* sym_clear_all_valid has just calculated it, and it counts as valid.       *)
NewSymbols(m) == {s \in Symbol \ {Modules} : ~HasValue(m, s) /\ ~IsText(s)}

(* Every new symbol gets the answer val(s), and counts as set.               *)
Answered(m, val(_)) ==
  LET new == NewSymbols(m)
  IN  [m EXCEPT !.def = [s \in Symbol |-> IF s \in new THEN val(s) ELSE @[s]],
                !.du = [s \in Symbol |-> @[s] \/ s \in new]]

AllNewSymbols(m, mode) ==
  LET open == {c \in Choice : ~HasValue(m, c)}
      left == UNION {ElementsOf(Members[c]) : c \in open}
      answer(s) == CASE mode = "allyesconfig" -> yes
                     [] mode = "allmodconfig" -> mod
                     [] OTHER -> IF s \in AllNoY THEN yes ELSE no
  IN  ClearAllValid(
        IF mode \in {"allyesconfig", "allmodconfig", "allnoconfig"} THEN Answered(m, answer)
        ELSE \* def_default: set_all_choice_values of the choices without a value
          [m EXCEPT !.def = [s \in Symbol |-> IF s \in left /\ ~HasValue(m, s) THEN no ELSE @[s]],
                    !.du = [s \in Symbol |-> @[s] \/ s \in open]])

(* One round of randconfig: answers r for the new symbols, and for each      *)
(* choice without a value that is y the value one names.                     *)
RandomAnswers(m) ==
  {r \in [NewSymbols(m) -> Tristate] : \A s \in DOMAIN r : r[s] = mod => Type[s] = "tristate"}
RandomRound(m, r, one) ==
  LET answered == Calculated([m EXCEPT
                    !.def = [s \in Symbol |-> IF s \in DOMAIN r THEN r[s] ELSE @[s]],
                    !.du = [s \in Symbol |-> @[s] \/ s \in DOMAIN r \ Choice]])
      open == {c \in Choice : ~HasValue(m, c) /\ answered.cur[c] = yes}
      ofOpen(s) == \E c \in open : s \in ElementsOf(Members[c])
  IN  ClearAllValid([answered EXCEPT
        !.def = [s \in Symbol |-> IF ofOpen(s) THEN (IF one[ChoiceOfValue(s)] = s THEN yes ELSE no)
                                  ELSE @[s]],
        !.pick = [c \in Choice |-> IF c \in open THEN one[c] ELSE @[c]],
        !.du = [s \in Symbol |-> @[s] \/ ofOpen(s) \/ s \in open]])

(* Whether such a round asks for another: what the last choice without a     *)
(* value said, or, without any, whether a symbol was answered.               *)
RandomGoesOn(m, r) ==
  LET answered == Calculated([m EXCEPT
                    !.def = [s \in Symbol |-> IF s \in DOMAIN r THEN r[s] ELSE @[s]],
                    !.du = [s \in Symbol |-> @[s] \/ s \in DOMAIN r \ Choice]])
      open == SelectSeq(HashOrder, LAMBDA c : c \in Choice /\ ~HasValue(m, c))
  IN  IF open = <<>> THEN DOMAIN r # {} ELSE answered.cur[open[Len(open)]] = yes

-----------------------------------------------------------------------------
(* Writing. *)

(* sym_get_string_value of a tristate: m reads as n without modules.         *)
StringTri(m, s) == IF m.cur[s] = mod /\ m.cur[Modules] = no THEN no ELSE m.cur[s]
FileText(m, s) ==
  IF Type[s] = "string" THEN Quoted(m.cur[s]) ELSE IF IsText(s) THEN m.cur[s] ELSE StringTri(m, s)

(* conf_write calculates an unchanged configuration afresh.                  *)
WriteReady(m) == IF m.changed THEN m ELSE ClearAllValid(m)

(* Bug: what is n is left out. *)
ConfigOn(m) ==
  [s \in Plain |-> IF m.write[s] /\ (IsText(s) \/ StringTri(m, s) # no) THEN FileText(m, s) ELSE None]

(* Then it writes the symbols marked for writing, and clears each mark.      *)
Config(m) == [s \in Plain |-> IF m.write[s] THEN FileText(m, s) ELSE None]
Unmarked(m) == [m EXCEPT !.write = [s \in Symbol |-> FALSE]]
ConfWritten(m) == [Unmarked(WriteReady(m)) EXCEPT !.changed = FALSE]

(* sym_get_string_default. *)
StringDefault(m, s) ==
  LET i == Live(IF IsText(s) THEN TextDefault[s] ELSE Default[s], m.cur)
      d == IF i = 0 THEN no ELSE And(Eval(Default[s][i].val, m.cur), Eval(Default[s][i].cond, m.cur))
      t == Or(d, m.rev[s])
  IN  IF IsText(s) THEN (IF i = 0 THEN <<>> ELSE Operand(TextDefault[s][i].from, m.cur))
      ELSE IF t = mod /\ (Type[s] = "boolean" \/ (~ValueOfChoice(s) /\ m.cur[Modules] = no)) THEN yes
      ELSE t

(* Whether a choice value is the one an untouched, mandatory choice takes.   *)
ChoiceGivesIt(m, s) ==
  /\ ValueOfChoice(s) /\ RevDep[ChoiceOfValue(s)] # Never
  /\ s = Engine(m)!ChoiceDefaultSym(ChoiceOfValue(s), m.vis, m.cur)
  /\ Type[s] = "boolean" /\ m.cur[s] = yes

(* Bug: no value of a choice is saved. *)
MinimalNoDefault(m) ==
  [s \in Plain |-> IF m.write[s] /\ Changable(m, s) /\ m.cur[s] # StringDefault(m, s) /\ ~ValueOfChoice(s)
                   THEN FileText(m, s) ELSE None]

(* conf_write_defconfig: what is not as it would be without a setting.       *)
Minimal(m) ==
  LET value(s) == IF IsText(s) THEN m.cur[s] ELSE StringTri(m, s)
  IN  [s \in Plain |->
         IF /\ m.write[s] /\ Changable(m, s)
            /\ value(s) # StringDefault(m, s) /\ ~ChoiceGivesIt(m, s)
         THEN FileText(m, s) ELSE None]

(* auto.conf leaves out what is n. *)
AutoConf(m) ==
  [s \in Plain |-> IF ~m.write[s] \/ (~IsText(s) /\ StringTri(m, s) = no) THEN None ELSE FileText(m, s)]

(* conf_split_config: whether the header of s is touched, given the auto.conf *)
(* the last build left (None where it does not name s).                       *)
Differs(m, auto, s) ==
  LET old == IF auto = None THEN None ELSE LineValue(s, auto[s])
  IN  IF ~m.write[s] THEN old # None
      ELSE IF old = None THEN IsText(s) \/ m.cur[s] # no
      ELSE m.cur[s] # old
=============================================================================
