---------------------------- MODULE KconfigValues ----------------------------
(***************************************************************************)
(* What the configuration programs of scripts/config compute from the      *)
(* user's settings, with the int, hex and string symbols KconfigSymbols    *)
(* leaves out: values and ranges, the checks on typed values, reading a    *)
(* file, and the three things written from it: .config, a minimal          *)
(* defconfig and auto.conf.                                                *)
(*                                                                         *)
(* Everything a program keeps about the symbols is one record m, and an    *)
(* operator takes the record before a call to the one after it.            *)
(* KconfigSymbols checks that what is cached is what a calculation gives   *)
(* (Coherent), so here every value is calculated as soon as it is stale,   *)
(* in an order in which no symbol comes before one it reads; where the     *)
(* code forgets to make values stale, they keep the value they had.        *)
(***************************************************************************)
EXTENDS Tristate, Integers, Sequences, FiniteSets
LOCAL INSTANCE SequencesExt

CONSTANTS
  Symbol, Choice, Modules, None, Type, Prompt, Default, RevDep, Members,
  ChoiceDefault,  \* as in KconfigSymbols; Type is also "int", "hex", "string"
  TextDefault,    \* of an int, hex or string: its defaults, [from, cond]
  Ranges,         \* of an int or hex: its ranges, [low, high, cond]
  AllNoY,         \* the symbols with "option allnoconfig_y"
  Order,          \* all symbols, each after those it reads
  HashOrder       \* all symbols, in the order of the hash table

(* The operand of a default or a range: a constant (sym = None) or a symbol. *)
Const(t) == [sym |-> None, text |-> t]

IsText(s) == Type[s] \in {"int", "hex", "string"}
Plain == Symbol \ Choice
ElementsOf(q) == {q[i] : i \in DOMAIN q}
ValueOfChoice(s) == \E c \in Choice : s \in ElementsOf(Members[c])
ChoiceOfValue(s) == CHOOSE c \in Choice : s \in ElementsOf(Members[c])

ASSUME ValuesAssumption ==
  /\ ElementsOf(Order) = Symbol /\ Len(Order) = Cardinality(Symbol)
  /\ ElementsOf(HashOrder) = Symbol /\ Len(HashOrder) = Cardinality(Symbol)
  /\ \A s \in Choice : ~IsText(s)

(* The engine's operators, over the record m instead of its variables. *)
Engine(m) == INSTANCE KconfigSymbols WITH
  HandMade <- {}, valid <- [s \in Symbol |-> TRUE], curr <- m.cur,
  chosen <- m.chosen, visible <- m.vis, rev_dep <- m.rev, write <- m.write,
  defUser <- m.du, defTri <- m.def, defVal <- m.pick,
  modules_val <- m.cur[Modules], changed <- m.changed, op <- "idle",
  warned <- FALSE, file <- None, wrote <- None, asked <- None

-----------------------------------------------------------------------------
(* Texts are sequences of characters. *)

DigitValue == [c \in {"0", "1", "2", "3", "4", "5", "6", "7", "8", "9", "a", "b", "c", "d", "e", "f"} |->
  CASE c = "0" -> 0 [] c = "1" -> 1 [] c = "2" -> 2 [] c = "3" -> 3 [] c = "4" -> 4
    [] c = "5" -> 5 [] c = "6" -> 6 [] c = "7" -> 7 [] c = "8" -> 8 [] c = "9" -> 9
    [] c = "a" -> 10 [] c = "b" -> 11 [] c = "c" -> 12 [] c = "d" -> 13 [] c = "e" -> 14
    [] c = "f" -> 15]
IsDigit(c, base) == c \in DOMAIN DigitValue /\ DigitValue[c] < base
Base(s) == IF Type[s] = "hex" THEN 16 ELSE 10

HasPrefix(t) == Len(t) > 1 /\ t[1] = "0" /\ t[2] \in {"x", "X"}
Minus(t) == t # <<>> /\ t[1] = "-"
Unsigned(t) == IF Minus(t) THEN Tail(t) ELSE t

(* strtoll: the number the leading digits stand for, 0 without any.          *)
NoPrefix(t) == IF HasPrefix(t) THEN SubSeq(t, 3, Len(t)) ELSE t
Leading(t, base) ==
  SubSeq(t, 1, CHOOSE k \in 0..Len(t) :
                 /\ \A i \in 1..k : IsDigit(t[i], base)
                 /\ k < Len(t) => ~IsDigit(t[k + 1], base))
Absolute(t, base) ==
  FoldLeft(LAMBDA n, c : base * n + DigitValue[c], 0,
           Leading(IF base = 16 THEN NoPrefix(t) ELSE t, base))
Number(t, base) == (IF Minus(t) THEN -1 ELSE 1) * Absolute(Unsigned(t), base)

(* The formats "%lld" and "0x%llx"; the latter of no negative number.        *)
DigitOf(n) == CHOOSE c \in DOMAIN DigitValue : DigitValue[c] = n
Digits(n, base) ==
  LET width == CHOOSE w \in 1..16 : base ^ w > n /\ (w > 1 => base ^ (w - 1) <= n)
  IN  [i \in 1..width |-> DigitOf((n \div base ^ (width - i)) % base)]
Format(n, base) ==
  (IF base = 16 THEN <<"0", "x">> ELSE IF n < 0 THEN <<"-">> ELSE <<>>)
  \o Digits(IF n < 0 THEN -n ELSE n, base)

(* sym_string_valid, of a symbol that is not a tristate. *)
StringValid(s, t) ==
  CASE Type[s] = "string" -> TRUE
    [] Type[s] = "int" ->
         LET u == Unsigned(t)
         IN  /\ u # <<>> /\ \A i \in DOMAIN u : IsDigit(u[i], 10)
             /\ u[1] = "0" => Len(u) = 1
    [] Type[s] = "hex" ->
         LET u == NoPrefix(t)
         IN  u # <<>> /\ \A i \in DOMAIN u : IsDigit(u[i], 16)

(* Bug: a backslash is not escaped. *)
QuotedBackslash(t) ==
  <<"\"">> \o FlattenSeq([i \in DOMAIN t |->
                IF t[i] = "\"" THEN <<"\\", t[i]>> ELSE <<t[i]>>]) \o <<"\"">>

(* sym_escape_string_value. *)
Quoted(t) ==
  <<"\"">> \o FlattenSeq([i \in DOMAIN t |->
                IF t[i] \in {"\"", "\\"} THEN <<"\\", t[i]>> ELSE <<t[i]>>]) \o <<"\"">>

(* How conf_set_sym_val takes such a text apart: up to the first quote no    *)
(* backslash precedes; None when there is no such quote.                     *)
Unquoted(p) ==
  LET step(r, c) ==
        CASE r.ended -> r
          [] ~r.ended /\ r.literal -> [r EXCEPT !.text = Append(@, c), !.literal = FALSE]
          [] ~r.ended /\ ~r.literal /\ c = "\\" -> [r EXCEPT !.literal = TRUE]
          [] ~r.ended /\ ~r.literal /\ c = "\"" -> [r EXCEPT !.ended = TRUE]
          [] OTHER -> [r EXCEPT !.text = Append(@, c)]
      r == FoldLeft(step, [text |-> <<>>, literal |-> FALSE, ended |-> FALSE], Tail(p))
  IN  IF p # <<>> /\ p[1] = "\"" /\ r.ended THEN r.text ELSE None

-----------------------------------------------------------------------------
(* Values. *)

(* The first of the properties q whose condition holds; 0 for none. *)
Live(q, v) ==
  LET live == {i \in DOMAIN q : Eval(q[i].cond, v) # no}
  IN  IF live = {} THEN 0 ELSE CHOOSE i \in live : \A j \in live : i <= j

Operand(from, v) == IF from.sym = None THEN from.text ELSE v[from.sym]

(* sym_get_range_val: a symbol's number is read in that symbol's own base.   *)
Bound(from, base, v) ==
  Number(Operand(from, v),
         IF from.sym # None /\ Type[from.sym] \in {"int", "hex"} THEN Base(from.sym) ELSE base)

(* The range in force, if any. *)
RangeOf(s, v) ==
  {[low |-> Bound(Ranges[s][i].low, Base(s), v), high |-> Bound(Ranges[s][i].high, Base(s), v)]
     : i \in {Live(Ranges[s], v)} \ {0}}
Within(n, R) == \A r \in R : r.low <= n /\ n <= r.high
InRange(s, t, v) == Within(Number(t, Base(s)), RangeOf(s, v))

(* sym_validate_range: a number out of range becomes the nearer end of it.   *)
Nearest(n, R) == CHOOSE e \in {IF n < r.low THEN r.low ELSE r.high : r \in R} : TRUE
Confined(s, t, n, R) == IF Within(n, R) THEN t ELSE Format(Nearest(n, R), Base(s))
Clamped(s, t, v) == Confined(s, t, Number(t, Base(s)), RangeOf(s, v))

(* sym_string_within_range. *)
StringWithinRange(m, s, t) ==
  StringValid(s, t) /\ (Type[s] = "string" \/ InRange(s, t, m.cur))

(* sym_calc_value of an int, hex or string: the user's text if it is visible *)
(* and there is one, else the first live default, else nothing.              *)
TextOf(m, s, vis, i) ==
  IF vis # no /\ m.du[s] THEN m.def[s]
  ELSE IF i = 0 THEN <<>> ELSE Operand(TextDefault[s][i].from, m.cur)
TextSettled(m, s, vis, i) ==
  [m EXCEPT !.vis[s] = vis, !.write[s] = vis # no \/ i # 0,
            !.cur[s] = IF Type[s] = "string" THEN TextOf(m, s, vis, i)
                       ELSE Clamped(s, TextOf(m, s, vis, i), m.cur)]
CalcText(m, s) ==
  TextSettled(m, s, Engine(m)!CalcVisible(s, m.cur), Live(TextDefault[s], m.cur))

CalcTristate(m, s) ==
  LET seen(r, vis) == [r EXCEPT !.vis[s] = vis, !.rev[s] = Engine(r)!CalcRevDep(s, vis, r.cur)]
      settled(r) ==
        [r EXCEPT !.cur[s] = Engine(r)!CalcTri(s, r.vis[s], r.rev[s], r.du, r.def, r.cur),
                  !.write[s] = Engine(r)!CalcWrite(s, r.vis[s], r.rev[s], r.cur)]
  IN  settled(seen(m, Engine(m)!CalcVisible(s, m.cur)))

(* sym_calc_choice, once the choice itself is calculated: its values' visi-  *)
(* bilities, the value chosen, and what is left of the choice's user value.  *)
MembersSeen(m, c) ==
  [m EXCEPT !.vis = [s \in Symbol |-> IF m.cur[c] = yes /\ s \in ElementsOf(Members[c])
                                      THEN Engine(m)!CalcVisible(s, m.cur) ELSE @[s]]]
ValuePicked(m, c) ==
  [m EXCEPT !.chosen[c] = IF m.cur[c] = yes THEN Engine(m)!CalcChoice(c, m.vis, m.cur) ELSE None]
ChoiceSettled(m, c) ==
  LET seen == {s \in ElementsOf(Members[c]) : m.vis[s] # no}
  IN  [m EXCEPT !.cur[c] = IF @ = yes /\ m.chosen[c] = None THEN no ELSE @,
                !.du[c] = @ /\ (m.cur[c] = yes => \A s \in seen : m.du[s]),
                !.write = [s \in Symbol |-> s # c /\ (@[s] \/ (s \in seen /\ @[c]))]]
CalcChoice(m, c) == ChoiceSettled(ValuePicked(MembersSeen(CalcTristate(m, c), c), c), c)

CalcValue(m, s) ==
  IF s \in Choice THEN CalcChoice(m, s)
  ELSE IF IsText(s) THEN CalcText(m, s) ELSE CalcTristate(m, s)

(* F(x); as y = y compares it, TLC computes it, and what it is made of, once. *)
Once(F(_), x) == CHOOSE y \in {F(z) : z \in {x}} : y = y

(* Every stale value is calculated. *)
Calculated(m) == FoldLeft(LAMBDA r, s : Once(LAMBDA q : CalcValue(q, s), r), m, Order)

(* sym_clear_all_valid. *)
ClearAllValid(m) == [Calculated(m) EXCEPT !.changed = TRUE]

(* A program that has parsed the Kconfig files and read no configuration.    *)
Blank == [s \in Symbol |-> IF IsText(s) THEN <<>> ELSE no]
Unread ==
  [du |-> [s \in Symbol |-> FALSE], def |-> [s \in Symbol |-> IF IsText(s) THEN None ELSE no],
   pick |-> [c \in Choice |-> None], cur |-> Blank, chosen |-> [c \in Choice |-> None],
   vis |-> [s \in Symbol |-> no], rev |-> [s \in Symbol |-> no],
   write |-> [s \in Symbol |-> FALSE], changed |-> FALSE]

(* sym_is_changable, and sym_has_value. *)
Changable(m, s) == m.vis[s] > m.rev[s]
HasValue(m, s) == m.du[s]

-----------------------------------------------------------------------------
(* Setting a value. *)

(* sym_set_tristate_value(s, val); the caller asks CanSetTristate.           *)
CanSetTristate(m, s, val) == ~IsText(s) /\ Engine(m)!Accepts(s, val)
SetTristate(m, s, val) ==
  LET takes == ValueOfChoice(s) /\ val = yes
      c == ChoiceOfValue(s)
      new == [m EXCEPT
                !.du = [r \in Symbol |->
                          \/ @[r] \/ r = s
                          \/ takes /\ (r = c \/ (r \in ElementsOf(Members[c]) /\ m.vis[r] # no))],
                !.pick = [d \in Choice |-> IF takes /\ d = c THEN s ELSE @[d]],
                !.def[s] = val]
  IN  IF m.cur[s] = val THEN new ELSE ClearAllValid(new)

(* sym_toggle_tristate_value. *)
Toggle(m, s) == SetTristate(m, s, Engine(m)!Toggled(s))

(* Bug: a text equal to the stored one is not made the user's value. *)
SetStringEarly(m, s, t) ==
  LET bare == Type[s] = "hex" /\ ~HasPrefix(t)
      new == [m EXCEPT !.du[s] = TRUE, !.def[s] = IF bare THEN <<"0", "x">> \o t ELSE t]
  IN  IF ~bare /\ m.def[s] = t THEN m ELSE ClearAllValid(new)

(* sym_set_string_value of a text; the caller asks StringWithinRange.  A hex *)
(* number gets its prefix.  When the text equals the user value there was,   *)
(* in force or not, nothing is recalculated.                                 *)
SetString(m, s, t) ==
  LET bare == Type[s] = "hex" /\ ~HasPrefix(t)
      new == [m EXCEPT !.du[s] = TRUE, !.def[s] = IF bare THEN <<"0", "x">> \o t ELSE t]
  IN  IF ~bare /\ m.def[s] = t THEN new ELSE ClearAllValid(new)

(* What SetString makes of the typed text. *)
Typed(s, t) == IF Type[s] = "hex" /\ ~HasPrefix(t) THEN <<"0", "x">> \o t ELSE t

=============================================================================
