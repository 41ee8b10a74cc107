------------------------ MODULE KconfigSymbols_proofs ------------------------
(***************************************************************************)
(* For every Kconfig menu: type correctness of the symbol engine; that a   *)
(* choice that is y has exactly one value (ExactlyChosen); that the cache  *)
(* is sound (Coherent); that what counts as saved is in the file, and that  *)
(* the file is the configuration (UnchangedMeansSaved, FileComplete,        *)
(* FileMinimal); that what is set sticks (SetSticks) and what was saved     *)
(* comes back (RoundTrip).                                                 *)
(*                                                                         *)
(* The chosen value is picked by the calculation of the choice, from the   *)
(* visibilities of its values; the values are calculated later, in any     *)
(* order and with other symbols in between.  The argument is that what the *)
(* visibilities were computed from cannot change in the meantime: a symbol *)
(* changes value only when it is calculated, that is while it is stale,    *)
(* and every symbol the choice read is not (ReadsClosed, ChoiceSeen).      *)
(*                                                                         *)
(* So it is for the cache: what a calculated symbol was calculated from is  *)
(* unchanged, except by a setting that leaves the cache alone.  That one    *)
(* sets a symbol to the value it has, which is what it then takes from the *)
(* user instead of from a default (CachedSetRight); here the menu matters   *)
(* (PlainChoices, PlainDefaults).                                           *)
(*                                                                         *)
(* Any other setting makes every symbol stale, and the one that was set    *)
(* must come back with the value that was asked for.  It does because the  *)
(* symbols it depends on (a closed set K of symbols) come back with the    *)
(* values they had, in whatever order the calculations take (Stuck).        *)
(*                                                                         *)
(* The values written and the values read back solve one system of          *)
(* equations, the calculations with the settings of the file (Solves),      *)
(* and where no symbol depends on itself it has one solution (OneSolution). *)
(***************************************************************************)
EXTENDS KconfigSymbols, TLAPS, WellFoundedInduction, NaturalsInduction

-----------------------------------------------------------------------------
(* Expressions. *)

LEMMA TristateFacts ==
  /\ Tristate \subseteq Nat
  /\ \A a, b \in Tristate : And(a, b) \in Tristate /\ Or(a, b) \in Tristate
BY DEF Tristate, no, mod, yes, And, Or

LEMMA EvalType ==
  ASSUME NEW e, NEW v
  PROVE  Eval(e, v) \in Tristate
BY DEF Eval, Tristate

(* An expression only depends on the symbols it names. *)
LEMMA EvalAgree ==
  ASSUME NEW e, NEW v, NEW w, \A s \in SymbolsOf(e) : v[s] = w[s]
  PROVE  Eval(e, v) = Eval(e, w)
<1>1. \A c \in e : \A l \in c : v[l.sym] = w[l.sym]
  BY DEF SymbolsOf
<1> QED
  BY <1>1 DEF Eval

(* Every non-empty set of positions has a first one. *)
LEMMA FirstOfFact ==
  ASSUME NEW I \in SUBSET Nat, I # {}
  PROVE  FirstOf(I) \in I /\ \A j \in I : FirstOf(I) <= j
<1> DEFINE R == {p \in Nat \X Nat : p[1] < p[2]}
<1>1. IsWellFoundedOn(R, Nat)
  BY NatLessThanWellFounded DEF OpToRel
<1>2. PICK i \in I : \A j \in I : ~(<<j, i>> \in R)
  BY <1>1, WFMin
<1>3. ASSUME NEW j \in I PROVE i <= j
  <2>1. <<j, i>> \notin R
    BY <1>2
  <2>2. <<j, i>> \in Nat \X Nat /\ <<j, i>>[1] = j /\ <<j, i>>[2] = i
    OBVIOUS
  <2>3. ~(j < i)
    BY <2>1, <2>2
  <2> QED
    BY <2>3
<1> QED
  BY <1>3 DEF FirstOf

(* Every non-empty set of positions of a sequence has a last one. *)
LEMMA LastOfFact ==
  ASSUME NEW n \in Nat, NEW I \in SUBSET (1 .. n), I # {}
  PROVE  \E i \in I : \A j \in I : j <= i
<1> DEFINE J == {n - i : i \in I}
<1>1. J \in SUBSET Nat /\ J # {}
  <2>1. \A i \in I : n - i \in Nat
    OBVIOUS
  <2>2. PICK i \in I : TRUE
    OBVIOUS
  <2>3. n - i \in J
    BY <2>2
  <2> QED
    BY <2>1, <2>3
<1>2. FirstOf(J) \in J /\ \A k \in J : FirstOf(J) <= k
  BY <1>1, FirstOfFact
<1>3. PICK i \in I : FirstOf(J) = n - i
  BY <1>2
<1>4. ASSUME NEW j \in I PROVE j <= i
  <2>1. n - j \in J
    OBVIOUS
  <2>2. n - i <= n - j
    BY <1>2, <1>3, <2>1
  <2> QED
    BY <2>2
<1> QED
  BY <1>4

-----------------------------------------------------------------------------
(* Choices. *)

LEMMA MemberFacts ==
  ASSUME NEW c \in Choice, NEW m \in ElementsOf(Members[c])
  PROVE  /\ m \in Symbol \ Choice /\ m # Modules /\ m \in Member /\ m # None
         /\ ChoiceOf(m) = c
         /\ c \in Reads(m)
<1>1. m \in Symbol \ (Choice \cup {Modules})
  BY ChoiceAssumption DEF ElementsOf
<1>2. m \in Member /\ m # None
  BY <1>1, SymbolAssumption DEF Member
<1>3. \A d \in Choice : m \in ElementsOf(Members[d]) => d = c
  BY ChoiceAssumption
<1>4. c \in Reads(m)
  BY ChoiceAssumption DEF Reads
<1> QED
  BY <1>1, <1>2, <1>3, <1>4 DEF ChoiceOf

LEMMA MemberHasChoice ==
  ASSUME NEW m \in Member
  PROVE  /\ m \in Symbol \ Choice /\ m # Modules /\ m # None
         /\ ChoiceOf(m) \in Choice /\ m \in ElementsOf(Members[ChoiceOf(m)])
<1>1. PICK c \in Choice : m \in ElementsOf(Members[c])
  BY DEF Member
<1> QED
  BY <1>1, MemberFacts

(* sym_choice_default returns a visible value of the choice, or NULL.        *)
LEMMA ChoiceDefaultFact ==
  ASSUME NEW c \in Choice, NEW vis, NEW v
  PROVE  LET d == ChoiceDefaultSym(c, vis, v)
         IN  d = None \/ (d \in ElementsOf(Members[c]) /\ vis[d] # no)
<1> DEFINE live == {i \in DOMAIN ChoiceDefault[c] :
                      /\ Eval(ChoiceDefault[c][i].cond, v) # no
                      /\ vis[ChoiceDefault[c][i].sym] # no}
           seen == {i \in DOMAIN Members[c] : vis[Members[c][i]] # no}
<1>1. CASE live # {}
  <2>1. live \in SUBSET Nat
    BY ChoiceAssumption
  <2>2. FirstOf(live) \in live
    BY <1>1, <2>1, FirstOfFact
  <2> QED
    BY <1>1, <2>2, ChoiceAssumption DEF ChoiceDefaultSym
<1>2. CASE live = {} /\ seen # {}
  <2>1. seen \in SUBSET Nat
    BY ChoiceAssumption
  <2>2. FirstOf(seen) \in seen
    BY <1>2, <2>1, FirstOfFact
  <2>3. Members[c][FirstOf(seen)] \in ElementsOf(Members[c])
    BY <2>2 DEF ElementsOf
  <2> QED
    BY <1>2, <2>2, <2>3 DEF ChoiceDefaultSym
<1>3. CASE live = {} /\ seen = {}
  BY <1>3 DEF ChoiceDefaultSym
<1> QED
  BY <1>1, <1>2, <1>3

LEMMA CalcChoiceFact ==
  ASSUME NEW c \in Choice, NEW vis, NEW v, TypeOK,
         defVal[c] \in ElementsOf(Members[c]) \cup {None}
  PROVE  LET d == CalcChoice(c, vis, v)
         IN  d = None \/ (d \in ElementsOf(Members[c]) /\ vis[d] # no)
BY ChoiceDefaultFact DEF CalcChoice
-----------------------------------------------------------------------------
(* Types of the calculated parts. *)

LEMMA CalcTypes ==
  ASSUME TypeOK, NEW s \in Symbol, NEW v
  PROVE  /\ CalcVisible(s, v) \in Tristate
         /\ \A vis \in Tristate : CalcRevDep(s, vis, v) \in Tristate
         /\ \A vis, rev \in Tristate :
              \A du \in [Symbol -> BOOLEAN], dt \in [Symbol -> Tristate] :
                CalcTri(s, vis, rev, du, dt, v) \in Tristate
         /\ \A vis, rev \in Tristate : CalcWrite(s, vis, rev, v) \in BOOLEAN
<1>1. no \in Tristate /\ mod \in Tristate /\ yes \in Tristate
  BY DEF Tristate
<1>2. CalcVisible(s, v) \in Tristate
  BY <1>1, EvalType DEF CalcVisible
<1>3. ASSUME NEW vis \in Tristate PROVE CalcRevDep(s, vis, v) \in Tristate
  BY <1>1, EvalType DEF CalcRevDep, TypeOK
<1>4. ASSUME NEW vis \in Tristate, NEW rev \in Tristate,
             NEW du \in [Symbol -> BOOLEAN], NEW dt \in [Symbol -> Tristate]
      PROVE  CalcTri(s, vis, rev, du, dt, v) \in Tristate
  <2>1. DefaultValue(s, v) \in Tristate
    BY <1>1, EvalType, TristateFacts DEF DefaultValue
  <2>2. (IF vis # no /\ du[s] THEN And(dt[s], vis) ELSE DefaultValue(s, v)) \in Tristate
    BY <2>1, TristateFacts
  <2> QED
    BY <1>1, <2>2, TristateFacts DEF CalcTri
<1>5. ASSUME NEW vis \in Tristate, NEW rev \in Tristate
      PROVE  CalcWrite(s, vis, rev, v) \in BOOLEAN
  BY DEF CalcWrite, TypeOK
<1> QED
  BY <1>2, <1>3, <1>4, <1>5

(* Recalculate keeps the cache well typed. *)
CacheType ==
  /\ valid \in [Symbol -> BOOLEAN]
  /\ curr \in [Symbol -> Tristate]
  /\ chosen \in [Choice -> Member \cup {None}]
  /\ visible \in [Symbol -> Tristate]
  /\ rev_dep \in [Symbol -> Tristate]
  /\ write \in [Symbol -> BOOLEAN]
  /\ modules_val \in Tristate

LEMMA RecalculateType ==
  ASSUME TypeOK,
         NEW du \in [Symbol -> BOOLEAN], NEW dt \in [Symbol -> Tristate],
         Recalculate(du, dt)
  PROVE  CacheType'
<1> DEFINE vis == CalcVisible(Modules, curr)
           rev == CalcRevDep(Modules, vis, curr)
           tri == CalcTri(Modules, vis, rev, du, dt, curr)
<1>1. Modules \in Symbol
  BY SymbolAssumption
<1>2. vis \in Tristate
  BY <1>1, CalcTypes
<1>3. rev \in Tristate
  BY <1>1, <1>2, CalcTypes
<1>4. tri \in Tristate
  BY <1>1, <1>2, <1>3, CalcTypes
<1>5. CalcWrite(Modules, vis, rev, curr) \in BOOLEAN
  BY <1>1, <1>2, <1>3, CalcTypes
<1>6. /\ valid' = [s \in Symbol |-> s = Modules]
      /\ visible' = [visible EXCEPT ![Modules] = vis]
      /\ rev_dep' = [rev_dep EXCEPT ![Modules] = rev]
      /\ curr' = [curr EXCEPT ![Modules] = tri]
      /\ write' = [write EXCEPT ![Modules] = CalcWrite(Modules, vis, rev, curr)]
      /\ modules_val' = tri
      /\ chosen' = chosen
  BY DEF Recalculate
<1> HIDE DEF vis, rev, tri
<1> QED
  BY <1>2, <1>3, <1>4, <1>5, <1>6 DEF CacheType, TypeOK

(* What a file says of a choice. *)
LEMMA ReadFacts ==
  ASSUME NEW f \in Config, NEW c \in Choice
  PROVE  /\ ReadTri(f, c) \in Tristate
         /\ ReadVal(f, c) \in ElementsOf(Members[c]) \cup {None}
<1>1. \A i \in DOMAIN Members[c] : Members[c][i] \in Symbol \ Choice
  BY MemberFacts DEF ElementsOf
<1>2. \A i \in LinesOf(f, c) : f[Members[c][i]] \in Tristate
  BY <1>1 DEF LinesOf, Config
<1>3. ReadTri(f, c) \in Tristate
  <2> DEFINE P(t) == /\ \A i \in LinesOf(f, c) : f[Members[c][i]] <= t
                     /\ t = no \/ \E i \in LinesOf(f, c) : f[Members[c][i]] = t
  <2>1. \E t \in Tristate : P(t)
    <3>1. CASE \E i \in LinesOf(f, c) : f[Members[c][i]] = yes
      <4>1. P(yes)
        BY <1>2, <3>1 DEF Tristate, no, mod, yes
      <4> QED
        BY <4>1 DEF Tristate
    <3>2. CASE /\ ~\E i \in LinesOf(f, c) : f[Members[c][i]] = yes
               /\ \E i \in LinesOf(f, c) : f[Members[c][i]] = mod
      <4>1. P(mod)
        BY <1>2, <3>2 DEF Tristate, no, mod, yes
      <4> QED
        BY <4>1 DEF Tristate
    <3>3. CASE /\ ~\E i \in LinesOf(f, c) : f[Members[c][i]] = yes
               /\ ~\E i \in LinesOf(f, c) : f[Members[c][i]] = mod
      <4>1. P(no)
        BY <1>2, <3>3 DEF Tristate, no, mod, yes
      <4> QED
        BY <4>1 DEF Tristate
    <3> QED
      BY <3>1, <3>2, <3>3
  <2>2. ReadTri(f, c) = CHOOSE t \in Tristate : P(t)
    BY DEF ReadTri
  <2> QED
    BY <2>1, <2>2
<1>4. ReadVal(f, c) \in ElementsOf(Members[c]) \cup {None}
  <2> DEFINE n == Len(Members[c])
  <2>1. n \in Nat /\ DOMAIN Members[c] = 1 .. n
    BY ChoiceAssumption
  <2>2. Yeses(f, c) \in SUBSET (1 .. n)
    BY <2>1 DEF Yeses, LinesOf
  <2>3. CASE Yeses(f, c) # {}
    <3> DEFINE last == CHOOSE i \in Yeses(f, c) : \A j \in Yeses(f, c) : j <= i
    <3>1. last \in Yeses(f, c)
      BY <2>1, <2>2, <2>3, LastOfFact
    <3>2. Members[c][last] \in ElementsOf(Members[c])
      BY <2>1, <2>2, <3>1 DEF ElementsOf
    <3> QED
      BY <2>3, <3>2 DEF ReadVal
  <2>4. CASE Yeses(f, c) = {}
    BY <2>4 DEF ReadVal
  <2> QED
    BY <2>3, <2>4
<1> QED
  BY <1>3, <1>4

-----------------------------------------------------------------------------
(* Type correctness. *)

LEMMA CalcSymbolType ==
  ASSUME TypeOK, NEW s \in Symbol \ Choice, CalcSymbol(s)
  PROVE  TypeOK'
<1> DEFINE vis == CalcVisible(s, curr)
           rev == CalcRevDep(s, vis, curr)
           tri == CalcTri(s, vis, rev, defUser, defTri, curr)
<1>1. vis \in Tristate
  BY CalcTypes
<1>2. rev \in Tristate
  BY <1>1, CalcTypes
<1>3. tri \in Tristate
  BY <1>1, <1>2, CalcTypes DEF TypeOK
<1>4. CalcWrite(s, vis, rev, curr) \in BOOLEAN
  BY <1>1, <1>2, CalcTypes
<1>5. /\ valid' = [valid EXCEPT ![s] = TRUE]
      /\ visible' = [visible EXCEPT ![s] = vis]
      /\ rev_dep' = [rev_dep EXCEPT ![s] = rev]
      /\ curr' = [curr EXCEPT ![s] = tri]
      /\ write' = [write EXCEPT ![s] = CalcWrite(s, vis, rev, curr)]
      /\ modules_val' = IF s = Modules THEN tri ELSE modules_val
      /\ UNCHANGED <<chosen, defUser, defTri, defVal, changed, op, warned, file, wrote, asked>>
  BY DEF CalcSymbol, user
<1> HIDE DEF vis, rev, tri
<1> QED
  BY <1>1, <1>2, <1>3, <1>4, <1>5 DEF TypeOK

(* The definitions local to the calculation of a choice. *)
ChoiceVis(c) == CalcVisible(c, curr)
ChoiceRev(c) == CalcRevDep(c, ChoiceVis(c), curr)
ChoiceTri(c) == CalcTri(c, ChoiceVis(c), ChoiceRev(c), defUser, defTri, curr)
WithTri(c) == [curr EXCEPT ![c] = ChoiceTri(c)]
Seen(c) ==
  [s \in Symbol |-> IF s = c THEN ChoiceVis(c)
                    ELSE IF ChoiceTri(c) = yes /\ s \in ElementsOf(Members[c])
                         THEN CalcVisible(s, WithTri(c))
                    ELSE visible[s]]
Pick(c) == IF ChoiceTri(c) = yes THEN CalcChoice(c, Seen(c), WithTri(c)) ELSE None

LEMMA CalcChoiceSymbolSteps ==
  ASSUME NEW c, CalcChoiceSymbol(c)
  PROVE  /\ ~valid[c] /\ \A r \in Reads(c) : valid[r]
         /\ ChoiceTri(c) = yes => \A r \in ChoiceReads(c) : valid[r]
         /\ valid' = [valid EXCEPT ![c] = TRUE]
         /\ visible' = Seen(c)
         /\ rev_dep' = [rev_dep EXCEPT ![c] = ChoiceRev(c)]
         /\ chosen' = [chosen EXCEPT ![c] = Pick(c)]
         /\ curr' = [curr EXCEPT ![c] =
                        IF ChoiceTri(c) = yes /\ Pick(c) = None THEN no ELSE ChoiceTri(c)]
         /\ defUser' = [defUser EXCEPT ![c] =
              @ /\ (ChoiceTri(c) = yes =>
                      \A m \in ElementsOf(Members[c]) : Seen(c)[m] # no => defUser[m])]
         /\ write' = [s \in Symbol |->
              IF s = c THEN FALSE
              ELSE write[s] \/ (s \in ElementsOf(Members[c]) /\ Seen(c)[s] # no
                                /\ CalcWrite(c, ChoiceVis(c), ChoiceRev(c), curr))]
         /\ UNCHANGED <<modules_val, defTri, defVal, changed, op, warned, file, wrote, asked>>
BY DEF CalcChoiceSymbol, ChoiceVis, ChoiceRev, ChoiceTri, WithTri, Seen, Pick

LEMMA ChoicePartTypes ==
  ASSUME TypeOK, NEW c \in Choice
  PROVE  /\ ChoiceVis(c) \in Tristate /\ ChoiceRev(c) \in Tristate
         /\ ChoiceTri(c) \in Tristate
         /\ Seen(c) \in [Symbol -> Tristate]
<1>1. c \in Symbol
  BY SymbolAssumption
<1>2. ChoiceVis(c) \in Tristate
  BY <1>1, CalcTypes DEF ChoiceVis
<1>3. ChoiceRev(c) \in Tristate
  BY <1>1, <1>2, CalcTypes DEF ChoiceRev
<1>4. ChoiceTri(c) \in Tristate
  BY <1>1, <1>2, <1>3, CalcTypes DEF ChoiceTri, TypeOK
<1>5. \A s \in Symbol : CalcVisible(s, WithTri(c)) \in Tristate
  BY CalcTypes
<1>6. Seen(c) \in [Symbol -> Tristate]
  BY <1>2, <1>5 DEF Seen, TypeOK
<1> QED
  BY <1>2, <1>3, <1>4, <1>6

(* A choice's saved value is one of its own values. *)
OwnValues == \A c \in Choice : defVal[c] \in ElementsOf(Members[c]) \cup {None}

LEMMA PickFact ==
  ASSUME TypeOK, OwnValues, NEW c \in Choice
  PROVE  /\ Pick(c) \in Member \cup {None}
         /\ Pick(c) # None => /\ ChoiceTri(c) = yes
                              /\ Pick(c) \in ElementsOf(Members[c])
                              /\ Seen(c)[Pick(c)] # no
<1>1. CASE ChoiceTri(c) = yes
  <2>1. Pick(c) = CalcChoice(c, Seen(c), WithTri(c))
    BY <1>1 DEF Pick
  <2>2. Pick(c) = None \/ (Pick(c) \in ElementsOf(Members[c]) /\ Seen(c)[Pick(c)] # no)
    BY <2>1, CalcChoiceFact DEF OwnValues
  <2> QED
    BY <1>1, <2>2, MemberFacts
<1>2. CASE ChoiceTri(c) # yes
  BY <1>2 DEF Pick
<1> QED
  BY <1>1, <1>2

LEMMA CalcChoiceSymbolType ==
  ASSUME TypeOK, OwnValues, NEW c \in Choice, CalcChoiceSymbol(c)
  PROVE  TypeOK'
<1>1. c \in Symbol /\ no \in Tristate
  BY SymbolAssumption DEF Tristate
<1>2. /\ valid' = [valid EXCEPT ![c] = TRUE]
      /\ visible' = Seen(c)
      /\ rev_dep' = [rev_dep EXCEPT ![c] = ChoiceRev(c)]
      /\ chosen' = [chosen EXCEPT ![c] = Pick(c)]
      /\ curr' = [curr EXCEPT ![c] =
                     IF ChoiceTri(c) = yes /\ Pick(c) = None THEN no ELSE ChoiceTri(c)]
      /\ UNCHANGED <<modules_val, defTri, defVal, changed, op, warned, file, wrote, asked>>
  BY CalcChoiceSymbolSteps
<1>3. Seen(c) \in [Symbol -> Tristate] /\ ChoiceRev(c) \in Tristate /\ ChoiceTri(c) \in Tristate
  BY ChoicePartTypes
<1>4. Pick(c) \in Member \cup {None}
  BY PickFact
<1>5. valid' \in [Symbol -> BOOLEAN] /\ write' \in [Symbol -> BOOLEAN]
  BY <1>1, CalcChoiceSymbolSteps DEF TypeOK
<1>6. visible' \in [Symbol -> Tristate] /\ rev_dep' \in [Symbol -> Tristate]
  BY <1>1, <1>2, <1>3 DEF TypeOK
<1>7. chosen' \in [Choice -> Member \cup {None}]
  BY <1>2, <1>4 DEF TypeOK
<1>8. curr' \in [Symbol -> Tristate]
  BY <1>1, <1>2, <1>3 DEF TypeOK
<1>9. defUser' \in [Symbol -> BOOLEAN]
  BY <1>1, CalcChoiceSymbolSteps DEF TypeOK
<1> QED
  BY <1>2, <1>5, <1>6, <1>7, <1>8, <1>9 DEF TypeOK

LEMMA SetType ==
  ASSUME TypeOK, OwnValues, NEW s \in Symbol, NEW val \in Tristate, Set(s, val)
  PROVE  TypeOK' /\ OwnValues'
<1> DEFINE takes == IsMember(s) /\ val = yes
           du == [r \in Symbol |->
               \/ defUser[r] \/ r = s
               \/ takes /\ r = ChoiceOf(s)
               \/ takes /\ r \in ElementsOf(Members[ChoiceOf(s)]) /\ visible[r] # no]
           dt == [defTri EXCEPT ![s] = val]
<1>1. /\ defUser' = du /\ defTri' = dt
      /\ defVal' = [c \in Choice |-> IF takes /\ c = ChoiceOf(s) THEN s ELSE defVal[c]]
      /\ \/ Recalculate(du, dt) /\ changed' = TRUE
         \/ UNCHANGED <<cache, changed>>
      /\ asked' = [sym |-> s, val |-> val]
      /\ UNCHANGED <<op, warned, file, wrote>>
  BY DEF Set
<1>2. du \in [Symbol -> BOOLEAN]
  BY DEF TypeOK
<1>3. dt \in [Symbol -> Tristate]
  BY DEF TypeOK
<1>4. defVal' \in [Choice -> Member \cup {None}]
  BY <1>1 DEF TypeOK, IsMember
<1>5. CacheType' /\ changed' \in BOOLEAN
  <2>1. CASE Recalculate(du, dt) /\ changed' = TRUE
    BY <1>2, <1>3, <2>1, RecalculateType
  <2>2. CASE UNCHANGED <<cache, changed>>
    BY <2>2 DEF cache, CacheType, TypeOK
  <2> QED
    BY <1>1, <2>1, <2>2
<1>6. OwnValues'
  <2> SUFFICES ASSUME NEW c \in Choice
               PROVE  defVal'[c] \in ElementsOf(Members[c]) \cup {None}
    BY DEF OwnValues
  <2>1. CASE takes /\ c = ChoiceOf(s)
    BY <1>1, <2>1, MemberHasChoice DEF IsMember
  <2>2. CASE ~(takes /\ c = ChoiceOf(s))
    BY <1>1, <2>2 DEF OwnValues
  <2> QED
    BY <2>1, <2>2
<1>7. TypeOK'
  BY <1>1, <1>2, <1>3, <1>4, <1>5 DEF CacheType, TypeOK
<1> QED
  BY <1>6, <1>7

LEMMA ReadLinesType ==
  ASSUME TypeOK, NEW f \in Config, ReadLines(f)
  PROVE  /\ CacheType' /\ defUser' \in [Symbol -> BOOLEAN] /\ defTri' \in [Symbol -> Tristate]
         /\ defVal' \in [Choice -> Member \cup {None}] /\ OwnValues'
         /\ warned' \in BOOLEAN /\ changed' = FALSE /\ asked' = None
<1> DEFINE du == [s \in Symbol |-> IF s \in Choice THEN Clash(f, s) = {} ELSE f[s] # None]
           dt == [s \in Symbol |-> IF s \in Choice THEN ReadTri(f, s)
                                   ELSE IF f[s] = None THEN no ELSE f[s]]
<1>1. /\ defUser' = du /\ defTri' = dt
      /\ defVal' = [c \in Choice |-> ReadVal(f, c)]
      /\ Recalculate(du, dt)
      /\ warned' = \E c \in Choice : Clash(f, c) \cup Override(f, c) # {}
      /\ changed' = FALSE /\ asked' = None
  BY DEF ReadLines
<1>2. du \in [Symbol -> BOOLEAN]
  OBVIOUS
<1>3. dt \in [Symbol -> Tristate]
  BY ReadFacts DEF Config, Tristate
<1>4. CacheType'
  BY <1>1, <1>2, <1>3, RecalculateType
<1>5. \A c \in Choice : defVal'[c] \in ElementsOf(Members[c]) \cup {None}
  BY <1>1, ReadFacts
<1>6. defVal' \in [Choice -> Member \cup {None}]
  BY <1>1, <1>5, MemberFacts
<1> QED
  BY <1>1, <1>2, <1>3, <1>4, <1>5, <1>6 DEF OwnValues

LEMMA TypeInit ==
  ASSUME Init
  PROVE  TypeOK /\ OwnValues
<1>1. no \in Tristate
  BY DEF Tristate
<1>2. file \in Config \cup {None}
  BY FileAssumption DEF Init
<1> QED
  BY <1>1, <1>2 DEF Init, TypeOK, OwnValues, Unset, AllNo, NoneChosen

LEMMA ToggledType ==
  ASSUME TypeOK, NEW s \in Symbol
  PROVE  Toggled(s) \in Tristate
<1>1. curr[s] \in Tristate
  BY DEF TypeOK
<1>2. \A t \in Tristate : Succ(t) \in Tristate
  BY DEF Succ, Tristate, no, mod, yes
<1> QED
  BY <1>1, <1>2 DEF Toggled

LEMMA LoadType ==
  ASSUME TypeOK, OwnValues, NEW f \in HandMade \cup {file}, Load(f)
  PROVE  TypeOK' /\ OwnValues'
<1>1. f \in Config
  BY FileAssumption DEF Load, TypeOK
<1>2. ReadLines(f) /\ op' = "loading" /\ file' = f /\ wrote' \in {wrote, None}
  BY DEF Load
<1> QED
  BY <1>1, <1>2, ReadLinesType DEF CacheType, TypeOK

LEMMA ReadStartType ==
  ASSUME TypeOK, OwnValues, ReadStart
  PROVE  TypeOK' /\ OwnValues'
<1>1. file \in Config /\ ReadLines(file) /\ op' = "reading" /\ UNCHANGED <<file, wrote>>
  BY DEF ReadStart, TypeOK
<1> QED
  BY <1>1, ReadLinesType DEF CacheType, TypeOK

LEMMA ReadMissingType ==
  ASSUME TypeOK, OwnValues, ReadMissing
  PROVE  TypeOK' /\ OwnValues'
<1>1. /\ Recalculate(defUser, defTri) /\ changed' = TRUE /\ op' = "idle"
      /\ UNCHANGED <<defUser, defTri, defVal, warned, file, wrote, asked>>
  BY DEF ReadMissing, user
<1>2. CacheType'
  BY <1>1, RecalculateType DEF TypeOK
<1> QED
  BY <1>1, <1>2 DEF CacheType, TypeOK, OwnValues

LEMMA ReadFinishType ==
  ASSUME TypeOK, OwnValues, ReadFinish
  PROVE  TypeOK' /\ OwnValues'
<1>1. defUser' \in [Symbol -> BOOLEAN]
  BY DEF ReadFinish, TypeOK
<1>2. changed' \in BOOLEAN /\ op' = "idle"
  BY DEF ReadFinish
<1> QED
  BY <1>1, <1>2 DEF ReadFinish, cache, TypeOK, OwnValues

LEMMA WriteStartType ==
  ASSUME TypeOK, OwnValues, WriteStart
  PROVE  TypeOK' /\ OwnValues'
<1>1. CacheType' /\ changed' \in BOOLEAN
  <2>1. CASE changed
    BY <2>1 DEF WriteStart, cache, CacheType, TypeOK
  <2>2. CASE ~changed
    BY <2>2, RecalculateType DEF WriteStart, TypeOK
  <2> QED
    BY <2>1, <2>2
<1>2. op' = "writing" /\ UNCHANGED <<defUser, defTri, defVal, warned, file, wrote, asked>>
  BY DEF WriteStart, user
<1> QED
  BY <1>1, <1>2 DEF CacheType, TypeOK, OwnValues

LEMMA WriteFinishType ==
  ASSUME TypeOK, OwnValues, WriteFinish
  PROVE  TypeOK' /\ OwnValues'
<1>1. Written \in Config
  BY DEF Written, Config, TypeOK
<1>2. [s \in Symbol \ Choice |-> curr[s]] \in [Symbol \ Choice -> Tristate]
  BY DEF TypeOK
<1>3. write' \in [Symbol -> BOOLEAN]
  BY DEF WriteFinish, Emitted
<1> QED
  BY <1>1, <1>2, <1>3 DEF WriteFinish, Emitted, user, TypeOK, OwnValues

LEMMA RestartType ==
  ASSUME TypeOK, OwnValues, Restart
  PROVE  TypeOK' /\ OwnValues'
<1>1. no \in Tristate
  BY DEF Tristate
<1> QED
  BY <1>1 DEF Restart, TypeOK, OwnValues, Unset, AllNo, NoneChosen

LEMMA TypeStep ==
  ASSUME TypeOK, OwnValues, [Next]_vars
  PROVE  TypeOK' /\ OwnValues'
<1>1. ASSUME NEW s \in Symbol \ Choice, CalcSymbol(s) PROVE TypeOK' /\ OwnValues'
  <2>1. UNCHANGED defVal
    BY <1>1 DEF CalcSymbol, user
  <2> QED
    BY <1>1, <2>1, CalcSymbolType DEF OwnValues
<1>2. ASSUME NEW c \in Choice, CalcChoiceSymbol(c) PROVE TypeOK' /\ OwnValues'
  <2>1. UNCHANGED defVal
    BY <1>2 DEF CalcChoiceSymbol
  <2> QED
    BY <1>2, <2>1, CalcChoiceSymbolType DEF OwnValues
<1>3. ASSUME NEW s \in Symbol, NEW val \in Tristate, SetTristate(s, val)
      PROVE  TypeOK' /\ OwnValues'
  BY <1>3, SetType DEF SetTristate
<1>4. ASSUME NEW s \in Symbol, Toggle(s) PROVE TypeOK' /\ OwnValues'
  BY <1>4, ToggledType, SetType DEF Toggle
<1>5. CASE UNCHANGED vars
  BY <1>5 DEF vars, cache, user, TypeOK, OwnValues
<1> QED
  BY <1>1, <1>2, <1>3, <1>4, <1>5, ReadStartType, ReadMissingType, ReadFinishType, LoadType,
     WriteStartType, WriteFinishType, RestartType DEF Next, CalcValue

(* Every variable keeps the type of the C field it stands for: sym->curr.val *)
(* and sym->def[].val of a choice are always NULL or one of the choice's own *)
(* values, which is what lets the code dereference them.                     *)
THEOREM TypeCorrect == Spec => [](TypeOK /\ OwnValues)
<1>1. Init => TypeOK /\ OwnValues
  BY TypeInit
<1>2. TypeOK /\ OwnValues /\ [Next]_vars => (TypeOK /\ OwnValues)'
  BY TypeStep
<1> QED
  BY <1>1, <1>2, PTL DEF Spec

-----------------------------------------------------------------------------
(* A choice that is y has exactly one value. *)

(* modules_sym, which the calculation of every symbol reads, is calculated   *)
(* before any other and stays so.                                            *)
ModulesFirst ==
  IF op = "start" THEN \A s \in Symbol : ~valid[s] ELSE valid[Modules]

(* What a calculated symbol has read is calculated. *)
ReadsClosed == \A s \in Symbol : valid[s] => \A r \in Reads(s) : valid[r]

(* So is what a choice that is y has read to pick its value, and the         *)
(* visibilities it picked from are those a calculation would give now.       *)
ChoiceSeen ==
  \A c \in Choice : valid[c] /\ curr[c] = yes =>
    /\ \A r \in ChoiceReads(c) : valid[r]
    /\ \A m \in ElementsOf(Members[c]) : visible[m] = CalcVisible(m, curr)

Settled == ModulesFirst /\ ReadsClosed /\ ChoiceSeen /\ ExactlyChosen

(* After Recalculate only modules_sym is calculated, and it is no choice.    *)
LEMMA RecalculateSettled ==
  ASSUME TypeOK, NEW du, NEW dt, Recalculate(du, dt), op' # "start"
  PROVE  Settled'
<1>1. valid' = [s \in Symbol |-> s = Modules]
  BY DEF Recalculate
<1>2. Modules \in Symbol \ Choice /\ Reads(Modules) = {}
  BY SymbolAssumption, ModulesAssumption
<1>3. \A c \in Choice : ~valid'[c]
  BY <1>1, <1>2, SymbolAssumption
<1>4. ModulesFirst'
  BY <1>1, <1>2 DEF ModulesFirst
<1>5. ReadsClosed'
  BY <1>1, <1>2 DEF ReadsClosed
<1> QED
  BY <1>3, <1>4, <1>5 DEF Settled, ChoiceSeen, ExactlyChosen

LEMMA SameCacheSettled ==
  ASSUME Settled, UNCHANGED <<valid, curr, chosen, visible, modules_val>>,
         op' = "start" <=> op = "start"
  PROVE  Settled'
BY DEF Settled, ModulesFirst, ReadsClosed, ChoiceSeen, ExactlyChosen, CalcVisible

(* While a choice that is y is calculated, everything the visibilities of    *)
(* its values depend on is.                                                  *)
LEMMA MemberPromptsRead ==
  ASSUME Settled, NEW c \in Choice, valid[c], curr[c] = yes,
         NEW m \in ElementsOf(Members[c]), NEW r \in SymbolsOf(Prompt[m])
  PROVE  valid[r]
<1>1. r \in UNION {SymbolsOf(Prompt[n]) : n \in ElementsOf(Members[c])}
  OBVIOUS
<1>2. r = c \/ r \in ChoiceReads(c)
  BY <1>1 DEF ChoiceReads
<1> QED
  BY <1>2 DEF Settled, ChoiceSeen

LEMMA ReadsAreSymbols ==
  ASSUME NEW s \in Symbol
  PROVE  SymbolsOf(Prompt[s]) \subseteq Symbol
BY ExprAssumption DEF Exprs, Literals, SymbolsOf

(* A choice value that is visible as y is y exactly when it is the chosen.   *)
LEMMA MemberValue ==
  ASSUME NEW m \in Member, NEW rev, NEW du, NEW dt, NEW v
  PROVE  CalcTri(m, yes, rev, du, dt, v) = yes <=> chosen[ChoiceOf(m)] = m
BY DEF CalcTri, IsMember, no, mod, yes

LEMMA CalcSymbolSettled ==
  ASSUME TypeOK, Settled, op # "start", NEW s \in Symbol \ Choice, CalcSymbol(s)
  PROVE  Settled'
<1> DEFINE vis == CalcVisible(s, curr)
           rev == CalcRevDep(s, vis, curr)
           tri == CalcTri(s, vis, rev, defUser, defTri, curr)
<1>1. /\ ~valid[s] /\ \A r \in Reads(s) : valid[r]
      /\ valid' = [valid EXCEPT ![s] = TRUE]
      /\ visible' = [visible EXCEPT ![s] = vis]
      /\ curr' = [curr EXCEPT ![s] = tri]
      /\ UNCHANGED <<chosen, op>>
  BY DEF CalcSymbol
<1>2. UNCHANGED modules_val
  BY <1>1 DEF CalcSymbol, Settled, ModulesFirst
<1> HIDE DEF vis, rev, tri
<1>3. \A r : valid[r] => valid'[r]
  BY <1>1 DEF TypeOK
<1>4. \A r \in Symbol : valid[r] => curr'[r] = curr[r]
  BY <1>1 DEF TypeOK
<1>5. ModulesFirst'
  BY <1>1, <1>3 DEF Settled, ModulesFirst
<1>6. ReadsClosed'
  BY <1>1, <1>3 DEF Settled, ReadsClosed, TypeOK, Reads, DefaultReads
<1>7. ASSUME NEW c \in Choice, valid'[c], curr'[c] = yes
      PROVE  valid[c] /\ curr[c] = yes
  BY <1>1, <1>7 DEF TypeOK
<1>8. ASSUME NEW c \in Choice, valid[c], curr[c] = yes, NEW m \in ElementsOf(Members[c])
      PROVE  visible'[m] = CalcVisible(m, curr) /\ CalcVisible(m, curr)' = CalcVisible(m, curr)
  <2>1. m \in Symbol
    BY MemberFacts
  <2>2. \A r \in SymbolsOf(Prompt[m]) : curr'[r] = curr[r]
    BY <1>4, <1>8, <2>1, MemberPromptsRead, ReadsAreSymbols
  <2>3. CalcVisible(m, curr)' = CalcVisible(m, curr)
    BY <1>2, <2>2, EvalAgree DEF CalcVisible
  <2>4. visible[m] = CalcVisible(m, curr)
    BY <1>8 DEF Settled, ChoiceSeen
  <2> QED
    BY <1>1, <2>1, <2>3, <2>4 DEF TypeOK, vis
<1>9. ChoiceSeen'
  BY <1>3, <1>7, <1>8 DEF Settled, ChoiceSeen, ChoiceReads
<1>10. ASSUME NEW c \in Choice, valid'[c], curr'[c] = yes
       PROVE  /\ chosen'[c] \in ElementsOf(Members[c]) /\ visible'[chosen'[c]] # no
              /\ \A m \in ElementsOf(Members[c]) :
                   valid'[m] /\ visible'[m] = yes => (curr'[m] = yes <=> m = chosen'[c])
  <2>1. valid[c] /\ curr[c] = yes
    BY <1>7, <1>10
  <2>2. chosen'[c] \in ElementsOf(Members[c]) /\ visible[chosen[c]] # no /\ chosen'[c] = chosen[c]
    BY <1>1, <2>1 DEF Settled, ExactlyChosen
  <2>3. \A m \in ElementsOf(Members[c]) : visible'[m] = visible[m]
    BY <1>8, <2>1 DEF Settled, ChoiceSeen
  <2>4. ASSUME NEW m \in ElementsOf(Members[c]), valid'[m], visible'[m] = yes
        PROVE  curr'[m] = yes <=> m = chosen'[c]
    <3>1. CASE m = s
      <4>1. vis = yes
        BY <1>1, <2>4, <3>1 DEF TypeOK
      <4>2. m \in Member /\ ChoiceOf(m) = c
        BY MemberFacts
      <4>3. tri = yes <=> chosen[c] = m
        BY <3>1, <4>1, <4>2, MemberValue DEF tri
      <4> QED
        BY <1>1, <3>1, <4>3 DEF TypeOK
    <3>2. CASE m # s
      <4>1. m \in Symbol
        BY MemberFacts
      <4>2. valid[m] /\ curr'[m] = curr[m] /\ visible[m] = yes
        BY <1>1, <2>3, <2>4, <3>2, <4>1 DEF TypeOK
      <4> QED
        BY <1>1, <2>1, <4>2 DEF Settled, ExactlyChosen
    <3> QED
      BY <3>1, <3>2
  <2> QED
    BY <2>2, <2>3, <2>4
<1>11. ExactlyChosen'
  BY <1>10 DEF ExactlyChosen
<1> QED
  BY <1>5, <1>6, <1>9, <1>11 DEF Settled

(* The values of a choice read the choice: none is calculated before it.     *)
LEMMA CalcChoiceSymbolSettled ==
  ASSUME TypeOK, OwnValues, Settled, op # "start", NEW c \in Choice, CalcChoiceSymbol(c)
  PROVE  Settled'
<1>1. /\ ~valid[c] /\ \A r \in Reads(c) : valid[r]
      /\ ChoiceTri(c) = yes => \A r \in ChoiceReads(c) : valid[r]
      /\ valid' = [valid EXCEPT ![c] = TRUE]
      /\ visible' = Seen(c)
      /\ chosen' = [chosen EXCEPT ![c] = Pick(c)]
      /\ curr' = [curr EXCEPT ![c] =
                     IF ChoiceTri(c) = yes /\ Pick(c) = None THEN no ELSE ChoiceTri(c)]
      /\ UNCHANGED <<modules_val, op>>
  BY CalcChoiceSymbolSteps
<1>2. c \in Symbol /\ yes # no
  BY SymbolAssumption DEF yes, no
<1>3. \A r : valid[r] => valid'[r]
  BY <1>1 DEF TypeOK
<1>4. \A r \in Symbol : valid[r] => curr'[r] = curr[r]
  BY <1>1 DEF TypeOK
<1>5. ModulesFirst'
  BY <1>1, <1>3 DEF Settled, ModulesFirst
<1>6. ReadsClosed'
  BY <1>1, <1>3 DEF Settled, ReadsClosed, TypeOK, Reads, DefaultReads
<1>7. ASSUME NEW m \in ElementsOf(Members[c]) PROVE ~valid'[m]
  <2>1. m \in Symbol /\ m # c /\ c \in Reads(m)
    BY MemberFacts
  <2>2. ~valid[m]
    BY <1>1, <2>1 DEF Settled, ReadsClosed
  <2> QED
    BY <1>1, <2>1, <2>2 DEF TypeOK
\* The choice itself.
<1>8. ASSUME curr'[c] = yes
      PROVE  /\ ChoiceTri(c) = yes /\ Pick(c) # None /\ curr' = WithTri(c)
             /\ Pick(c) \in ElementsOf(Members[c]) /\ Seen(c)[Pick(c)] # no
  <2>1. ChoiceTri(c) = yes /\ Pick(c) # None
    BY <1>1, <1>2, <1>8 DEF TypeOK
  <2>2. curr' = WithTri(c)
    BY <1>1, <2>1 DEF WithTri
  <2> QED
    BY <2>1, <2>2, PickFact
<1>9. ASSUME curr'[c] = yes
      PROVE  /\ \A r \in ChoiceReads(c) : valid'[r]
             /\ \A m \in ElementsOf(Members[c]) : visible'[m] = CalcVisible(m, curr)'
  <2>1. \A r \in ChoiceReads(c) : valid'[r]
    BY <1>1, <1>3, <1>8, <1>9
  <2>2. ASSUME NEW m \in ElementsOf(Members[c])
        PROVE  visible'[m] = CalcVisible(m, curr)'
    <3>1. m \in Symbol /\ m # c
      BY MemberFacts
    <3>2. visible'[m] = CalcVisible(m, WithTri(c))
      BY <1>1, <1>8, <1>9, <3>1 DEF Seen
    <3>3. CalcVisible(m, curr)' = CalcVisible(m, WithTri(c))
      BY <1>1, <1>8, <1>9 DEF CalcVisible
    <3> QED
      BY <3>2, <3>3
  <2> QED
    BY <2>1, <2>2
<1>10. ASSUME curr'[c] = yes
       PROVE  chosen'[c] \in ElementsOf(Members[c]) /\ visible'[chosen'[c]] # no
  BY <1>1, <1>8, <1>10 DEF TypeOK
\* Another choice.
<1>11. ASSUME NEW d \in Choice, d # c, valid'[d], curr'[d] = yes
       PROVE  valid[d] /\ curr[d] = yes /\ chosen'[d] = chosen[d]
  BY <1>1, <1>11, SymbolAssumption DEF TypeOK
<1>12. ASSUME NEW d \in Choice, d # c, valid[d], curr[d] = yes,
              NEW m \in ElementsOf(Members[d])
       PROVE  /\ visible'[m] = visible[m] /\ CalcVisible(m, curr)' = CalcVisible(m, curr)
              /\ valid'[m] = valid[m] /\ curr'[m] = curr[m]
  <2>1. m \in Symbol /\ m # c /\ ChoiceOf(m) = d
    BY MemberFacts
  <2>2. m \notin ElementsOf(Members[c])
    BY <1>12, <2>1, MemberFacts
  <2>3. visible'[m] = visible[m]
    BY <1>1, <2>1, <2>2 DEF Seen
  <2>4. \A r \in SymbolsOf(Prompt[m]) : curr'[r] = curr[r]
    BY <1>4, <1>12, <2>1, MemberPromptsRead, ReadsAreSymbols
  <2>5. Eval(Prompt[m], curr') = Eval(Prompt[m], curr)
    BY <2>4, EvalAgree
  <2>6. CalcVisible(m, curr)' = CalcVisible(m, curr)
    BY <1>1, <2>5 DEF CalcVisible
  <2> QED
    BY <1>1, <2>1, <2>3, <2>6 DEF TypeOK
<1>13. ChoiceSeen'
  <2> SUFFICES ASSUME NEW d \in Choice, valid'[d], curr'[d] = yes
               PROVE  /\ \A r \in ChoiceReads(d) : valid'[r]
                      /\ \A m \in ElementsOf(Members[d]) : visible'[m] = CalcVisible(m, curr)'
    BY DEF ChoiceSeen, ChoiceReads
  <2>1. CASE d = c
    BY <1>9, <2>1
  <2>2. CASE d # c
    BY <1>3, <1>11, <1>12, <2>2 DEF Settled, ChoiceSeen
  <2> QED
    BY <2>1, <2>2
<1>14. ExactlyChosen'
  <2> SUFFICES ASSUME NEW d \in Choice, valid'[d], curr'[d] = yes
               PROVE  /\ chosen'[d] \in ElementsOf(Members[d]) /\ visible'[chosen'[d]] # no
                      /\ \A m \in ElementsOf(Members[d]) :
                           valid'[m] /\ visible'[m] = yes => (curr'[m] = yes <=> m = chosen'[d])
    BY DEF ExactlyChosen
  <2>1. CASE d = c
    BY <1>7, <1>10, <2>1
  <2>2. CASE d # c
    <3>1. valid[d] /\ curr[d] = yes /\ chosen'[d] = chosen[d]
      BY <1>11, <2>2
    <3>2. \A m \in ElementsOf(Members[d]) :
             visible'[m] = visible[m] /\ valid'[m] = valid[m] /\ curr'[m] = curr[m]
      BY <1>12, <2>2, <3>1
    <3>3. /\ chosen[d] \in ElementsOf(Members[d]) /\ visible[chosen[d]] # no
          /\ \A m \in ElementsOf(Members[d]) :
                valid[m] /\ visible[m] = yes => (curr[m] = yes <=> m = chosen[d])
      BY <3>1 DEF Settled, ExactlyChosen
    <3> QED
      BY <3>1, <3>2, <3>3
  <2> QED
    BY <2>1, <2>2
<1> QED
  BY <1>5, <1>6, <1>13, <1>14 DEF Settled

LEMMA SettledInit ==
  ASSUME Init
  PROVE  Settled
<1>1. \A s \in Symbol : ~valid[s]
  BY DEF Init, Unset
<1> QED
  BY <1>1, SymbolAssumption
  DEF Init, Settled, ModulesFirst, ReadsClosed, ChoiceSeen, ExactlyChosen

LEMMA SetSettled ==
  ASSUME TypeOK, Settled, op # "start", NEW s, NEW val, Set(s, val)
  PROVE  Settled'
<1>1. op' = op
  BY DEF Set
<1>2. CASE curr[s] # val
  BY <1>1, <1>2, RecalculateSettled DEF Set
<1>3. CASE curr[s] = val
  BY <1>1, <1>3, SameCacheSettled DEF Set, cache
<1> QED
  BY <1>2, <1>3

LEMMA SettledStep ==
  ASSUME TypeOK, OwnValues, Settled, [Next]_vars
  PROVE  Settled'
<1>1. CASE CalcValue
  BY <1>1, CalcSymbolSettled, CalcChoiceSymbolSettled DEF CalcValue
<1>2. ASSUME NEW s \in Symbol, NEW val \in Tristate, SetTristate(s, val) PROVE Settled'
  BY <1>2, SetSettled DEF SetTristate, Editable
<1>3. ASSUME NEW s \in Symbol, Toggle(s) PROVE Settled'
  BY <1>3, SetSettled DEF Toggle, Editable
<1>4. CASE ReadStart
  BY <1>4, RecalculateSettled DEF ReadStart, ReadLines
<1>5. CASE ReadMissing
  BY <1>5, RecalculateSettled DEF ReadMissing
<1>6. CASE ReadFinish
  BY <1>6, SameCacheSettled DEF ReadFinish, cache
<1>7. ASSUME NEW f, Load(f) PROVE Settled'
  BY <1>7, RecalculateSettled DEF Load, ReadLines
<1>8. CASE WriteStart
  <2>1. CASE changed
    BY <1>8, <2>1, SameCacheSettled DEF WriteStart, cache
  <2>2. CASE ~changed
    BY <1>8, <2>2, RecalculateSettled DEF WriteStart
  <2> QED
    BY <2>1, <2>2
<1>9. CASE WriteFinish
  BY <1>9, SameCacheSettled DEF WriteFinish, Emitted
<1>10. CASE Restart
  <2>1. valid' = Unset /\ op' = "start"
    BY <1>10 DEF Restart
  <2>2. \A s \in Symbol : ~valid'[s]
    BY <2>1 DEF Unset
  <2> QED
    BY <2>1, <2>2, SymbolAssumption
    DEF Settled, ModulesFirst, ReadsClosed, ChoiceSeen, ExactlyChosen
<1>11. CASE UNCHANGED vars
  BY <1>11, SameCacheSettled DEF vars, cache
<1> QED
  BY <1>1, <1>2, <1>3, <1>4, <1>5, <1>6, <1>7, <1>8, <1>9, <1>10, <1>11 DEF Next

(* A choice that is y has exactly one value, a visible one, and no other of  *)
(* its calculated values is y, at every moment of any sequence of reads,     *)
(* settings, partial calculations and writes, for every Kconfig menu.        *)
THEOREM ChoiceCorrect == Spec => []ExactlyChosen
<1>1. Init => Settled
  BY SettledInit
<1>2. TypeOK /\ OwnValues /\ Settled /\ [Next]_vars => Settled'
  BY SettledStep
<1>3. Settled => ExactlyChosen
  BY DEF Settled
<1> QED
  BY <1>1, <1>2, <1>3, TypeCorrect, PTL DEF Spec

-----------------------------------------------------------------------------
(* The cache is sound. *)

(* A calculation depends on the symbols it reads.                            *)
LEMMA CalcsAgree ==
  ASSUME NEW s \in Symbol, NEW v, NEW w, \A r \in Reads(s) : v[r] = w[r]
  PROVE  /\ CalcVisible(s, v) = CalcVisible(s, w)
         /\ \A vis : CalcRevDep(s, vis, v) = CalcRevDep(s, vis, w)
         /\ LiveDefaults(s, v) = LiveDefaults(s, w)
         /\ DefaultValue(s, v) = DefaultValue(s, w)
         /\ \A vis, rev, du, dt : CalcTri(s, vis, rev, du, dt, v) = CalcTri(s, vis, rev, du, dt, w)
<1>1. Eval(Prompt[s], v) = Eval(Prompt[s], w) /\ Eval(RevDep[s], v) = Eval(RevDep[s], w)
  BY EvalAgree DEF Reads
<1>2. ASSUME NEW i \in DOMAIN Default[s]
      PROVE  /\ Eval(Default[s][i].val, v) = Eval(Default[s][i].val, w)
             /\ Eval(Default[s][i].cond, v) = Eval(Default[s][i].cond, w)
  <2>1. /\ SymbolsOf(Default[s][i].val) \subseteq Reads(s)
        /\ SymbolsOf(Default[s][i].cond) \subseteq Reads(s)
    BY DEF Reads, DefaultReads
  <2> QED
    BY <2>1, EvalAgree
<1>3. LiveDefaults(s, v) = LiveDefaults(s, w)
  BY <1>2 DEF LiveDefaults
<1>4. DefaultValue(s, v) = DefaultValue(s, w)
  <2>1. CASE s \in Choice \/ LiveDefaults(s, v) = {}
    BY <1>3, <2>1 DEF DefaultValue
  <2>2. CASE ~(s \in Choice \/ LiveDefaults(s, v) = {})
    <3>1. LiveDefaults(s, v) \in SUBSET Nat
      BY ExprAssumption DEF LiveDefaults
    <3>2. FirstOf(LiveDefaults(s, v)) \in DOMAIN Default[s]
      BY <2>2, <3>1, FirstOfFact DEF LiveDefaults
    <3> QED
      BY <1>2, <1>3, <3>2 DEF DefaultValue
  <2> QED
    BY <2>1, <2>2
<1> QED
  BY <1>1, <1>3, <1>4 DEF CalcVisible, CalcRevDep, CalcTri

LEMMA ReadsSymbols ==
  ASSUME NEW s \in Symbol
  PROVE  Reads(s) \subseteq Symbol
<1>1. \A e \in Exprs(Symbol) : SymbolsOf(e) \subseteq Symbol
  BY DEF Exprs, Literals, SymbolsOf
<1>2. SymbolsOf(Prompt[s]) \subseteq Symbol /\ SymbolsOf(RevDep[s]) \subseteq Symbol
  BY <1>1, ExprAssumption
<1>3. DefaultReads(s) \subseteq Symbol
  BY <1>1, ExprAssumption DEF DefaultReads
<1> QED
  BY <1>2, <1>3 DEF Reads

(* What is cached of s is what a calculation from what it reads gives.       *)
SeenRight(s) ==
  visible[s] = CalcVisible(s, curr) /\ rev_dep[s] = CalcRevDep(s, visible[s], curr)
TriNow(s) == CalcTri(s, visible[s], rev_dep[s], defUser, defTri, curr)
ValueRight(s) ==
  curr[s] = IF s \in Choice /\ chosen[s] = None /\ TriNow(s) = yes THEN no ELSE TriNow(s)

VisibleCoherent == \A s \in Symbol : valid[s] => SeenRight(s)

(* Only a tristate symbol can be m, and only with modules.                   *)
ModsOnly == \A s \in Symbol : valid[s] /\ curr[s] = mod => Type[s] = "tristate" /\ modules_val # no

(* modules_sym reads nothing and is boolean: calculated again, it is right.  *)
LEMMA RecalculateSeen ==
  ASSUME TypeOK, NEW du \in [Symbol -> BOOLEAN], NEW dt \in [Symbol -> Tristate],
         Recalculate(du, dt)
  PROVE  /\ VisibleCoherent' /\ ModsOnly'
         /\ valid' = [s \in Symbol |-> s = Modules]
         /\ Modules \in Symbol \ Choice /\ Modules \notin Member
         /\ curr'[Modules] = CalcTri(Modules, visible[Modules], rev_dep[Modules], du, dt, curr)'
<1> DEFINE vis == CalcVisible(Modules, curr)
           rev == CalcRevDep(Modules, vis, curr)
           tri == CalcTri(Modules, vis, rev, du, dt, curr)
<1>1. /\ Modules \in Symbol \ Choice /\ Modules \notin Member
      /\ Reads(Modules) = {} /\ Type[Modules] = "boolean"
  BY SymbolAssumption, ModulesAssumption, MemberHasChoice
<1>2. /\ valid' = [s \in Symbol |-> s = Modules]
      /\ visible' = [visible EXCEPT ![Modules] = vis]
      /\ rev_dep' = [rev_dep EXCEPT ![Modules] = rev]
      /\ curr' = [curr EXCEPT ![Modules] = tri]
  BY DEF Recalculate
<1>3. visible'[Modules] = vis /\ rev_dep'[Modules] = rev /\ curr'[Modules] = tri
  BY <1>1, <1>2 DEF TypeOK
<1>4. \A v, w : /\ CalcVisible(Modules, v) = CalcVisible(Modules, w)
                /\ \A x : CalcRevDep(Modules, x, v) = CalcRevDep(Modules, x, w)
                /\ \A x, y, z, u : CalcTri(Modules, x, y, z, u, v) = CalcTri(Modules, x, y, z, u, w)
  <2> TAKE v, w
  <2>1. \A r \in Reads(Modules) : v[r] = w[r]
    BY <1>1
  <2>2. Modules \in Symbol
    BY <1>1
  <2>3. CalcVisible(Modules, v) = CalcVisible(Modules, w)
    BY <2>1, <2>2, CalcsAgree
  <2>4. \A x : CalcRevDep(Modules, x, v) = CalcRevDep(Modules, x, w)
    BY <2>1, <2>2, CalcsAgree
  <2>5. \A x, y, z, u : CalcTri(Modules, x, y, z, u, v) = CalcTri(Modules, x, y, z, u, w)
    BY <2>1, <2>2, CalcsAgree
  <2> QED
    BY <2>3, <2>4, <2>5
<1>5. vis = CalcVisible(Modules, curr)'
  <2>1. CalcVisible(Modules, curr)' = CalcVisible(Modules, curr')
    BY <1>1 DEF CalcVisible
  <2> QED
    BY <1>4, <2>1
<1>6. rev = CalcRevDep(Modules, visible[Modules], curr)'
  <2>1. CalcRevDep(Modules, visible[Modules], curr)' = CalcRevDep(Modules, vis, curr')
    BY <1>1, <1>3 DEF CalcRevDep, GetType, IsMember
  <2> QED
    BY <1>4, <2>1
<1>7. tri = CalcTri(Modules, visible[Modules], rev_dep[Modules], du, dt, curr)' /\ tri # mod
  <2>1. CalcTri(Modules, vis, rev, du, dt, curr') = tri
    BY <1>4
  <2>2. CalcTri(Modules, visible[Modules], rev_dep[Modules], du, dt, curr)'
          = CalcTri(Modules, vis, rev, du, dt, curr')
    BY <1>1, <1>3 DEF CalcTri, GetType, IsMember
  <2>3. tri # mod
    BY <1>1 DEF CalcTri, GetType, mod, yes
  <2> QED
    BY <2>1, <2>2, <2>3
<1>8. \A s \in Symbol : valid'[s] => s = Modules
  BY <1>2
<1> HIDE DEF vis, rev, tri
<1>9. SeenRight(Modules)'
  BY <1>3, <1>5, <1>6 DEF SeenRight
<1> QED
  BY <1>1, <1>2, <1>3, <1>7, <1>8, <1>9 DEF VisibleCoherent, ModsOnly

(* What a calculation of another symbol leaves alone.                        *)
SameFor(s) ==
  /\ visible'[s] = visible[s] /\ rev_dep'[s] = rev_dep[s] /\ curr'[s] = curr[s]
  /\ \A r \in Reads(s) : curr'[r] = curr[r]

LEMMA SameForCalcs ==
  ASSUME NEW s \in Symbol, SameFor(s), UNCHANGED modules_val
  PROVE  /\ CalcVisible(s, curr)' = CalcVisible(s, curr)
         /\ CalcRevDep(s, visible[s], curr)' = CalcRevDep(s, visible[s], curr)
         /\ LiveDefaults(s, curr)' = LiveDefaults(s, curr)
<1>1. CalcVisible(s, curr') = CalcVisible(s, curr)
  BY CalcsAgree DEF SameFor
<1>2. CalcRevDep(s, visible[s], curr') = CalcRevDep(s, visible[s], curr)
  BY CalcsAgree DEF SameFor
<1>3. CalcVisible(s, curr)' = CalcVisible(s, curr')
  BY DEF CalcVisible
<1>4. CalcRevDep(s, visible[s], curr)' = CalcRevDep(s, visible[s], curr')
  BY DEF CalcRevDep, GetType, SameFor
<1>5. LiveDefaults(s, curr') = LiveDefaults(s, curr)
  BY CalcsAgree DEF SameFor
<1>6. LiveDefaults(s, curr)' = LiveDefaults(s, curr')
  BY DEF LiveDefaults
<1> QED
  BY <1>1, <1>2, <1>3, <1>4, <1>5, <1>6

LEMMA SameForRight ==
  ASSUME NEW s \in Symbol, SameFor(s), UNCHANGED modules_val
  PROVE  /\ SeenRight(s) => SeenRight(s)'
         /\ (IsMember(s) => chosen'[ChoiceOf(s)] = chosen[ChoiceOf(s)])
            /\ defUser'[s] = defUser[s] /\ defTri'[s] = defTri[s]
            => TriNow(s)' = TriNow(s)
<1>1. SeenRight(s) => SeenRight(s)'
  BY SameForCalcs DEF SeenRight, SameFor
<1>2. ASSUME IsMember(s) => chosen'[ChoiceOf(s)] = chosen[ChoiceOf(s)],
             defUser'[s] = defUser[s], defTri'[s] = defTri[s]
      PROVE  TriNow(s)' = TriNow(s)
  <2>1. DefaultValue(s, curr') = DefaultValue(s, curr)
    BY CalcsAgree DEF SameFor
  <2>2. DefaultValue(s, curr)' = DefaultValue(s, curr')
    BY DEF DefaultValue, LiveDefaults
  <2> QED
    BY <1>2, <2>1, <2>2 DEF TriNow, CalcTri, GetType, SameFor, IsMember
<1> QED
  BY <1>1, <1>2

(* What a calculation of s leaves alone of a symbol calculated before.       *)
LEMMA CalcSymbolSame ==
  ASSUME TypeOK, Settled, op # "start", NEW s \in Symbol \ Choice, CalcSymbol(s)
  PROVE  /\ ~valid[s] /\ valid' = [valid EXCEPT ![s] = TRUE]
         /\ UNCHANGED <<modules_val, chosen, defUser, defTri, defVal, op, changed, asked, file, wrote>>
         /\ \A r \in Symbol : valid[r] => SameFor(r) /\ write'[r] = write[r]
         /\ \A r \in Reads(s) : curr'[r] = curr[r]
         /\ \A r \in Symbol : r # s => visible'[r] = visible[r] /\ curr'[r] = curr[r]
                                       /\ rev_dep'[r] = rev_dep[r] /\ write'[r] = write[r]
<1>1. /\ ~valid[s] /\ \A r \in Reads(s) : valid[r]
      /\ valid' = [valid EXCEPT ![s] = TRUE]
      /\ visible' = [visible EXCEPT ![s] = CalcVisible(s, curr)]
      /\ \E x : rev_dep' = [rev_dep EXCEPT ![s] = x]
      /\ \E x : curr' = [curr EXCEPT ![s] = x]
      /\ \E x : write' = [write EXCEPT ![s] = x]
      /\ UNCHANGED <<chosen, defUser, defTri, defVal, op, changed, asked, file, wrote>>
  BY DEF CalcSymbol, user
<1>2. UNCHANGED modules_val
  BY <1>1 DEF CalcSymbol, Settled, ModulesFirst
<1>3. \A r \in Symbol : r # s => visible'[r] = visible[r] /\ curr'[r] = curr[r]
                                 /\ rev_dep'[r] = rev_dep[r] /\ write'[r] = write[r]
  BY <1>1 DEF TypeOK
<1>4. \A r \in Symbol : \A q \in Reads(r) : q \in Symbol
  BY ReadsSymbols
<1>5. \A r \in Symbol : valid[r] => \A q \in Reads(r) : valid[q]
  BY DEF Settled, ReadsClosed
<1>6. \A r \in Symbol : valid[r] => SameFor(r)
  BY <1>1, <1>3, <1>4, <1>5 DEF SameFor
<1>7. \A r \in Reads(s) : curr'[r] = curr[r]
  BY <1>1, <1>3, <1>4
<1> QED
  BY <1>1, <1>2, <1>3, <1>6, <1>7

LEMMA CalcChoiceSymbolSame ==
  ASSUME TypeOK, Settled, op # "start", NEW c \in Choice, CalcChoiceSymbol(c)
  PROVE  /\ ~valid[c] /\ valid' = [valid EXCEPT ![c] = TRUE]
         /\ UNCHANGED <<modules_val, defTri, defVal, op, changed, asked, file, wrote>>
         /\ \A r \in Symbol : valid[r] => SameFor(r)
         /\ \A r \in Reads(c) : curr'[r] = curr[r]
         /\ \A r \in Symbol : r # c => curr'[r] = curr[r] /\ rev_dep'[r] = rev_dep[r]
                                       /\ defUser'[r] = defUser[r]
         /\ \A d \in Choice : d # c => chosen'[d] = chosen[d]
         /\ \A m \in ElementsOf(Members[c]) : ~valid[m] /\ ~valid'[m]
<1>1. /\ ~valid[c] /\ \A r \in Reads(c) : valid[r]
      /\ valid' = [valid EXCEPT ![c] = TRUE]
      /\ visible' = Seen(c)
      /\ rev_dep' = [rev_dep EXCEPT ![c] = ChoiceRev(c)]
      /\ curr' = [curr EXCEPT ![c] =
                     IF ChoiceTri(c) = yes /\ Pick(c) = None THEN no ELSE ChoiceTri(c)]
      /\ chosen' = [chosen EXCEPT ![c] = Pick(c)]
      /\ UNCHANGED <<modules_val, defTri, defVal, op, changed, asked, file, wrote>>
  BY CalcChoiceSymbolSteps
<1>2. c \in Symbol
  BY SymbolAssumption
<1>3. ASSUME NEW m \in ElementsOf(Members[c]) PROVE ~valid[m] /\ ~valid'[m]
  <2>1. m \in Symbol /\ m # c /\ c \in Reads(m)
    BY MemberFacts
  <2>2. ~valid[m]
    BY <1>1, <2>1 DEF Settled, ReadsClosed
  <2> QED
    BY <1>1, <2>1, <2>2 DEF TypeOK
<1>4. \A r \in Symbol : r # c => curr'[r] = curr[r] /\ rev_dep'[r] = rev_dep[r]
                                 /\ defUser'[r] = defUser[r]
  <2>1. \A r \in Symbol : r # c => curr'[r] = curr[r]
    BY <1>1 DEF TypeOK
  <2>2. \A r \in Symbol : r # c => rev_dep'[r] = rev_dep[r]
    BY <1>1 DEF TypeOK
  <2>3. \A r \in Symbol : r # c => defUser'[r] = defUser[r]
    <3>1. defUser' = [defUser EXCEPT ![c] =
              @ /\ (ChoiceTri(c) = yes =>
                      \A m \in ElementsOf(Members[c]) : Seen(c)[m] # no => defUser[m])]
      BY CalcChoiceSymbolSteps, Zenon
    <3> QED
      BY <3>1 DEF TypeOK
  <2> QED
    BY <2>1, <2>2, <2>3
<1>5. \A r \in Symbol : valid[r] => visible'[r] = visible[r]
  BY <1>1, <1>3 DEF Seen
<1>6. \A r \in Symbol : \A q \in Reads(r) : q \in Symbol
  BY ReadsSymbols
<1>7. \A r \in Symbol : valid[r] => \A q \in Reads(r) : valid[q]
  BY DEF Settled, ReadsClosed
<1>8. \A r \in Symbol : valid[r] => SameFor(r)
  BY <1>1, <1>4, <1>5, <1>6, <1>7 DEF SameFor
<1>9. \A r \in Reads(c) : curr'[r] = curr[r]
  BY <1>1, <1>2, <1>4, <1>6
<1>10. \A d \in Choice : d # c => chosen'[d] = chosen[d]
  BY <1>1 DEF TypeOK
<1> QED
  BY <1>1, <1>3, <1>4, <1>8, <1>9, <1>10

LEMMA CalcSymbolSeen ==
  ASSUME TypeOK, Settled, VisibleCoherent, ModsOnly, op # "start",
         NEW s \in Symbol \ Choice, CalcSymbol(s)
  PROVE  /\ (VisibleCoherent /\ ModsOnly)'
         /\ curr'[s] = CalcTri(s, visible[s], rev_dep[s], defUser, defTri, curr)'
         /\ write'[s] = CalcWrite(s, visible'[s], rev_dep'[s], curr)
<1> DEFINE vis == CalcVisible(s, curr)
           rev == CalcRevDep(s, vis, curr)
           tri == CalcTri(s, vis, rev, defUser, defTri, curr)
<1>1. /\ ~valid[s] /\ valid' = [valid EXCEPT ![s] = TRUE]
      /\ UNCHANGED <<modules_val, chosen, defUser, defTri>>
      /\ \A r \in Symbol : valid[r] => SameFor(r)
      /\ \A r \in Reads(s) : curr'[r] = curr[r]
  BY CalcSymbolSame
<1>2. /\ visible'[s] = vis /\ rev_dep'[s] = rev /\ curr'[s] = tri
      /\ write'[s] = CalcWrite(s, vis, rev, curr)
  BY DEF CalcSymbol, TypeOK
<1>3. /\ CalcVisible(s, curr') = vis
      /\ CalcRevDep(s, vis, curr') = rev
      /\ CalcTri(s, vis, rev, defUser, defTri, curr') = tri
  BY <1>1, CalcsAgree
<1>4. CalcVisible(s, curr)' = CalcVisible(s, curr')
  BY <1>1 DEF CalcVisible
<1>5. CalcRevDep(s, visible[s], curr)' = CalcRevDep(s, vis, curr')
  <2>1. CASE IsMember(s)
    <3>1. rev = rev_dep[s]
      BY <2>1 DEF CalcRevDep
    <3> QED
      BY <1>2, <2>1, <3>1 DEF CalcRevDep, IsMember
  <2>2. CASE ~IsMember(s)
    BY <1>1, <1>2, <2>2 DEF CalcRevDep, GetType, IsMember
  <2> QED
    BY <2>1, <2>2
<1>6. CalcTri(s, visible[s], rev_dep[s], defUser, defTri, curr)'
        = CalcTri(s, vis, rev, defUser, defTri, curr')
  <2>1. DefaultValue(s, curr)' = DefaultValue(s, curr')
    BY DEF DefaultValue, LiveDefaults
  <2> QED
    BY <1>1, <1>2, <2>1 DEF CalcTri, GetType, IsMember
<1>7. tri = mod => Type[s] = "tristate" /\ modules_val # no
  BY DEF CalcTri, GetType, mod, yes
<1> HIDE DEF vis, rev, tri
<1>8. SeenRight(s)'
  BY <1>2, <1>3, <1>4, <1>5 DEF SeenRight
<1>9. VisibleCoherent'
  <2> SUFFICES ASSUME NEW r \in Symbol, valid'[r] PROVE SeenRight(r)'
    BY DEF VisibleCoherent
  <2>1. CASE r = s
    BY <1>8, <2>1
  <2>2. CASE r # s
    <3>1. valid[r]
      BY <1>1, <2>2 DEF TypeOK
    <3> QED
      BY <1>1, <3>1, SameForRight DEF VisibleCoherent
  <2> QED
    BY <2>1, <2>2
<1>10. ModsOnly'
  <2> SUFFICES ASSUME NEW r \in Symbol, valid'[r], curr'[r] = mod
               PROVE  Type[r] = "tristate" /\ modules_val' # no
    BY DEF ModsOnly
  <2>1. CASE r = s
    BY <1>1, <1>2, <1>7, <2>1
  <2>2. CASE r # s
    <3>1. valid[r]
      BY <1>1, <2>2 DEF TypeOK
    <3> QED
      BY <1>1, <3>1 DEF ModsOnly, SameFor
  <2> QED
    BY <2>1, <2>2
<1> QED
  BY <1>2, <1>3, <1>6, <1>9, <1>10

LEMMA CalcChoiceSymbolSeen ==
  ASSUME TypeOK, OwnValues, Settled, VisibleCoherent, ModsOnly, op # "start",
         NEW c \in Choice, CalcChoiceSymbol(c)
  PROVE  /\ (VisibleCoherent /\ ModsOnly)'
         /\ visible'[c] = ChoiceVis(c) /\ rev_dep'[c] = ChoiceRev(c)
         /\ ChoiceTri(c) = CalcTri(c, visible'[c], rev_dep'[c], defUser, defTri, curr')
<1>1. /\ ~valid[c] /\ valid' = [valid EXCEPT ![c] = TRUE]
      /\ UNCHANGED modules_val
      /\ \A r \in Symbol : valid[r] => SameFor(r)
      /\ \A r \in Reads(c) : curr'[r] = curr[r]
  BY CalcChoiceSymbolSame
<1>2. /\ visible' = Seen(c)
      /\ rev_dep' = [rev_dep EXCEPT ![c] = ChoiceRev(c)]
      /\ curr' = [curr EXCEPT ![c] =
                     IF ChoiceTri(c) = yes /\ Pick(c) = None THEN no ELSE ChoiceTri(c)]
  BY CalcChoiceSymbolSteps
<1>3. c \in Symbol /\ ~IsMember(c)
  BY SymbolAssumption, MemberHasChoice DEF IsMember
<1>4. /\ visible'[c] = ChoiceVis(c) /\ rev_dep'[c] = ChoiceRev(c)
      /\ curr'[c] = IF ChoiceTri(c) = yes /\ Pick(c) = None THEN no ELSE ChoiceTri(c)
  BY <1>2, <1>3 DEF Seen, TypeOK
<1>5. /\ CalcVisible(c, curr') = ChoiceVis(c)
      /\ CalcRevDep(c, ChoiceVis(c), curr') = ChoiceRev(c)
      /\ CalcTri(c, ChoiceVis(c), ChoiceRev(c), defUser, defTri, curr') = ChoiceTri(c)
  BY <1>1, <1>3, CalcsAgree DEF ChoiceVis, ChoiceRev, ChoiceTri
<1>6. CalcVisible(c, curr)' = CalcVisible(c, curr')
  BY <1>1 DEF CalcVisible
<1>7. CalcRevDep(c, visible[c], curr)' = CalcRevDep(c, ChoiceVis(c), curr')
  BY <1>1, <1>3, <1>4 DEF CalcRevDep, GetType, IsMember
<1>8. curr'[c] = mod => Type[c] = "tristate" /\ modules_val # no
  BY <1>4 DEF ChoiceTri, CalcTri, GetType, mod, yes, no
<1>9. SeenRight(c)'
  BY <1>4, <1>5, <1>6, <1>7 DEF SeenRight
<1>10. \A r \in Symbol : valid'[r] /\ r # c => valid[r]
  BY <1>1 DEF TypeOK
<1>11. VisibleCoherent'
  BY <1>1, <1>9, <1>10, SameForRight DEF VisibleCoherent
<1>12. ModsOnly'
  <2> SUFFICES ASSUME NEW r \in Symbol, valid'[r], curr'[r] = mod
               PROVE  Type[r] = "tristate" /\ modules_val' # no
    BY DEF ModsOnly
  <2>1. CASE r = c
    BY <1>1, <1>8, <2>1
  <2>2. CASE r # c
    <3>1. valid[r] /\ curr[r] = mod
      BY <1>1, <1>10, <2>2 DEF SameFor
    <3> QED
      BY <1>1, <3>1 DEF ModsOnly
  <2> QED
    BY <2>1, <2>2
<1> QED
  BY <1>4, <1>5, <1>11, <1>12

LEMMA SameCacheSeen ==
  ASSUME VisibleCoherent, ModsOnly, UNCHANGED <<valid, curr, visible, rev_dep, modules_val>>
  PROVE  (VisibleCoherent /\ ModsOnly)'
BY DEF VisibleCoherent, ModsOnly, SeenRight, CalcVisible, CalcRevDep, GetType

LEMMA NothingValidSeen ==
  ASSUME \A s \in Symbol : ~valid[s]
  PROVE  VisibleCoherent /\ ModsOnly
BY DEF VisibleCoherent, ModsOnly

(* The user settings that make a step that calculates everything anew.       *)
LEMMA RecalculatingSteps ==
  ASSUME TypeOK, OwnValues
  PROVE  /\ ReadStart \/ (\E f \in HandMade \cup {file} : Load(f))
            => \E f \in Config : /\ ReadLines(f) /\ op' \in {"reading", "loading"}
                                 /\ Recalculate(defUser', defTri')
                                 /\ defUser' \in [Symbol -> BOOLEAN]
                                 /\ defTri' \in [Symbol -> Tristate]
         /\ ReadMissing \/ (WriteStart /\ ~changed)
            => /\ Recalculate(defUser, defTri) /\ UNCHANGED user
               /\ defUser \in [Symbol -> BOOLEAN] /\ defTri \in [Symbol -> Tristate]
         /\ \A s \in Symbol, val \in Tristate : Set(s, val) /\ curr[s] # val
            => /\ Recalculate(defUser', defTri')
               /\ defUser' \in [Symbol -> BOOLEAN] /\ defTri' \in [Symbol -> Tristate]
<1>1. ASSUME NEW f \in Config, ReadLines(f)
      PROVE  /\ Recalculate(defUser', defTri')
             /\ defUser' \in [Symbol -> BOOLEAN] /\ defTri' \in [Symbol -> Tristate]
  BY <1>1, ReadLinesType DEF ReadLines
<1>2. ReadStart => file \in Config /\ ReadLines(file) /\ op' = "reading"
  BY DEF ReadStart, TypeOK
<1>3. ASSUME NEW f \in HandMade \cup {file}, Load(f)
      PROVE  f \in Config /\ ReadLines(f) /\ op' = "loading"
  BY <1>3, FileAssumption DEF Load, TypeOK
<1>4. ReadMissing \/ (WriteStart /\ ~changed)
      => /\ Recalculate(defUser, defTri) /\ UNCHANGED user
         /\ defUser \in [Symbol -> BOOLEAN] /\ defTri \in [Symbol -> Tristate]
  BY DEF ReadMissing, WriteStart, TypeOK
<1>5. ASSUME NEW s \in Symbol, NEW val \in Tristate, Set(s, val), curr[s] # val
      PROVE  /\ Recalculate(defUser', defTri')
             /\ defUser' \in [Symbol -> BOOLEAN] /\ defTri' \in [Symbol -> Tristate]
  BY <1>5, SetType DEF Set, TypeOK
<1> QED
  BY <1>1, <1>2, <1>3, <1>4, <1>5

LEMMA SeenStep ==
  ASSUME TypeOK, OwnValues, Settled, VisibleCoherent, ModsOnly, [Next]_vars
  PROVE  (VisibleCoherent /\ ModsOnly)'
<1>1. CASE CalcValue
  BY <1>1, CalcSymbolSeen, CalcChoiceSymbolSeen DEF CalcValue
<1>2. ASSUME NEW s \in Symbol, NEW val \in Tristate, Set(s, val)
      PROVE  (VisibleCoherent /\ ModsOnly)'
  <2>1. CASE curr[s] # val
    BY <1>2, <2>1, RecalculatingSteps, RecalculateSeen, TypeStep
  <2>2. CASE curr[s] = val
    BY <1>2, <2>2, SameCacheSeen DEF Set, cache
  <2> QED
    BY <2>1, <2>2
<1>3. ASSUME NEW s \in Symbol, NEW val \in Tristate, SetTristate(s, val)
      PROVE  (VisibleCoherent /\ ModsOnly)'
  BY <1>2, <1>3 DEF SetTristate
<1>4. ASSUME NEW s \in Symbol, Toggle(s) PROVE (VisibleCoherent /\ ModsOnly)'
  BY <1>2, <1>4, ToggledType DEF Toggle
<1>5. CASE ReadStart \/ \E f \in HandMade \cup {file} : Load(f)
  BY <1>5, RecalculatingSteps, RecalculateSeen
<1>6. CASE ReadMissing \/ (WriteStart /\ ~changed)
  BY <1>6, RecalculatingSteps, RecalculateSeen
<1>7. CASE ReadFinish \/ (WriteStart /\ changed)
  BY <1>7, SameCacheSeen DEF ReadFinish, WriteStart, cache
<1>8. CASE WriteFinish
  BY <1>8, SameCacheSeen DEF WriteFinish, Emitted
<1>9. CASE Restart
  BY <1>9 DEF Restart, VisibleCoherent, ModsOnly, Unset
<1>10. CASE UNCHANGED vars
  BY <1>10, SameCacheSeen DEF vars, cache
<1> QED
  BY <1>1, <1>3, <1>4, <1>5, <1>6, <1>7, <1>8, <1>9, <1>10 DEF Next

LEMMA SeenInit ==
  ASSUME Init
  PROVE  VisibleCoherent /\ ModsOnly
BY DEF Init, Unset, VisibleCoherent, ModsOnly

(* What every reachable state of any menu has.                               *)
SeenInv == TypeOK /\ OwnValues /\ Settled /\ VisibleCoherent /\ ModsOnly

LEMMA SeenInvInit == Init => SeenInv
BY TypeInit, SettledInit, SeenInit DEF SeenInv

LEMMA SeenInvStep == SeenInv /\ [Next]_vars => SeenInv'
BY TypeStep, SettledStep, SeenStep DEF SeenInv

(* sym->visible and sym->rev_dep.tri of a calculated symbol are those a      *)
(* calculation would give now, in every menu, with choices of every kind.    *)
THEOREM VisibilityCoherent == Spec => []VisibleCoherent
<1>1. SeenInv => VisibleCoherent
  BY DEF SeenInv
<1> QED
  BY <1>1, SeenInvInit, SeenInvStep, PTL DEF Spec

(* The user settings do not say what a plain choice is.                      *)
LEMMA PlainChoiceTri ==
  ASSUME PlainChoices, NEW c \in Choice, NEW v \in [Symbol -> Tristate],
         NEW vis, NEW rev, vis = CalcVisible(c, v), rev = CalcRevDep(c, vis, v),
         NEW du, NEW dt \in [Symbol -> Tristate], NEW du2, NEW dt2 \in [Symbol -> Tristate]
  PROVE  /\ CalcTri(c, vis, rev, du, dt, v) = CalcTri(c, vis, rev, du2, dt2, v)
         /\ vis # no => CalcTri(c, vis, rev, du, dt, v) = yes
<1>1. /\ c \in Symbol /\ ~IsMember(c) /\ Type[c] = "boolean"
      /\ \A x : GetType(c, x) = "boolean"
  BY SymbolAssumption, MemberHasChoice DEF IsMember, PlainChoices, GetType
<1>2. CASE vis = no
  BY <1>2 DEF CalcTri
<1>3. CASE vis # no
  <2>1. Eval(Prompt[c], v) # no
    BY <1>1, <1>3 DEF CalcVisible, no, mod
  <2>2. Eval(RevDep[c], v) # no /\ Eval(RevDep[c], v) \in Tristate
    BY <2>1, EvalType DEF PlainChoices
  <2>3. rev = yes
    BY <1>1, <2>2 DEF CalcRevDep, Tristate
  <2>4. DefaultValue(c, v) = no
    BY DEF DefaultValue
  <2>5. vis \in Tristate
    BY EvalType DEF CalcVisible, Tristate
  <2>6. \A w \in Tristate : Or(w, yes) = yes
    BY DEF Or, Tristate, no, mod, yes
  <2>7. no \in Tristate /\ yes # mod
    BY DEF Tristate, yes, mod
  <2>8. ASSUME NEW u, NEW t \in [Symbol -> Tristate]
        PROVE  CalcTri(c, vis, rev, u, t, v) = yes
    <3>1. And(t[c], vis) \in Tristate
      BY <1>1, <2>5, TristateFacts
    <3>2. (IF vis # no /\ u[c] THEN And(t[c], vis) ELSE DefaultValue(c, v)) \in Tristate
      BY <2>4, <2>7, <3>1
    <3> QED
      BY <1>1, <2>3, <2>6, <2>7, <3>2 DEF CalcTri
  <2> QED
    BY <2>8
<1> QED
  BY <1>2, <1>3

-----------------------------------------------------------------------------
(* The values are what they would be.                                        *)

(* A choice value the user has not set has no user value but n.              *)
MemberDt == \A m \in Member : ~defUser[m] => defTri[m] = no

ValuesRight == \A s \in Symbol : valid[s] => ValueRight(s)

LEMMA MemberDtInit == Init => MemberDt
BY MemberHasChoice DEF Init, MemberDt, AllNo, Unset

LEMMA MemberDtStep ==
  ASSUME TypeOK, OwnValues, Settled, MemberDt, [Next]_vars
  PROVE  MemberDt'
<1>0. Member \subseteq Symbol \ Choice
  BY MemberHasChoice
<1>1. ASSUME NEW s \in Symbol \ Choice, CalcSymbol(s) PROVE MemberDt'
  BY <1>1 DEF CalcSymbol, user, MemberDt
<1>2. ASSUME NEW c \in Choice, CalcChoiceSymbol(c), op # "start" PROVE MemberDt'
  <2>1. UNCHANGED defTri /\ \A r \in Symbol : r # c => defUser'[r] = defUser[r]
    BY <1>2, CalcChoiceSymbolSame
  <2> QED
    BY <1>0, <2>1 DEF MemberDt
<1>3. CASE CalcValue
  BY <1>1, <1>2, <1>3 DEF CalcValue
<1>4. ASSUME NEW s \in Symbol, NEW val \in Tristate, Set(s, val) PROVE MemberDt'
  <2>1. defTri' = [defTri EXCEPT ![s] = val] /\ defUser'[s]
        /\ \A r \in Symbol : defUser[r] => defUser'[r]
    BY <1>4 DEF Set
  <2> QED
    BY <1>0, <2>1 DEF MemberDt, TypeOK
<1>5. ASSUME NEW s \in Symbol, NEW val \in Tristate, SetTristate(s, val) PROVE MemberDt'
  BY <1>4, <1>5 DEF SetTristate
<1>6. ASSUME NEW s \in Symbol, Toggle(s) PROVE MemberDt'
  BY <1>4, <1>6, ToggledType DEF Toggle
<1>7. ASSUME NEW f \in Config, ReadLines(f) PROVE MemberDt'
  BY <1>0, <1>7 DEF ReadLines, MemberDt
<1>8. CASE ReadStart \/ \E f \in HandMade \cup {file} : Load(f)
  BY <1>7, <1>8, RecalculatingSteps
<1>9. CASE ReadFinish
  BY <1>0, <1>9 DEF ReadFinish, MemberDt, IsMember
<1>10. CASE Restart
  BY <1>0, <1>10 DEF Restart, MemberDt, AllNo
<1>11. CASE ReadMissing \/ WriteStart \/ WriteFinish \/ UNCHANGED vars
  BY <1>11 DEF ReadMissing, WriteStart, WriteFinish, Emitted, vars, user, MemberDt
<1> QED
  BY <1>3, <1>5, <1>6, <1>8, <1>9, <1>10, <1>11 DEF Next

(* Setting a symbol to the value it has does not change what a calculation   *)
(* gives: the value is no higher than the visibility, or it comes from the   *)
(* reverse dependency.                                                       *)
LEMMA SettingAlgebra ==
  ASSUME NEW w \in Tristate, NEW rev \in Tristate, NEW vis \in Tristate, NEW val,
         NEW bool \in BOOLEAN, w <= vis, vis # no, bool => vis = yes,
         val = IF Or(w, rev) = mod /\ bool THEN yes ELSE Or(w, rev)
  PROVE  LET t == Or(And(val, vis), rev)
         IN  val = IF t = mod /\ bool THEN yes ELSE t
BY DEF Or, And, Tristate, no, mod, yes

LEMMA SettingKept ==
  ASSUME PlainDefaults, TypeOK, NEW s \in Symbol \ Choice,
         SeenRight(s), ValueRight(s), visible[s] # no,
         NEW du, NEW dt, du[s] = TRUE, dt[s] = curr[s]
  PROVE  CalcTri(s, visible[s], rev_dep[s], du, dt, curr) = curr[s]
<1> DEFINE vis == visible[s]
           rev == rev_dep[s]
           bool == GetType(s, vis) = "boolean"
           w == IF vis # no /\ defUser[s] THEN And(defTri[s], vis) ELSE DefaultValue(s, curr)
<1>1. curr[s] = CalcTri(s, vis, rev, defUser, defTri, curr)
  BY DEF ValueRight, TriNow
<1>2. CASE IsMember(s) /\ vis = yes
  BY <1>1, <1>2 DEF CalcTri
<1>3. CASE ~(IsMember(s) /\ vis = yes)
  <2>1. vis \in Tristate /\ rev \in Tristate /\ defTri[s] \in Tristate
    BY DEF TypeOK
  <2>2. bool => vis = yes
    BY <1>3, EvalType DEF SeenRight, CalcVisible, GetType, Tristate
  <2>3. DefaultValue(s, curr) <= vis /\ DefaultValue(s, curr) \in Tristate
    <3>1. Eval(Prompt[s], curr) # no /\ Eval(Prompt[s], curr) \in Tristate
      BY EvalType DEF SeenRight, CalcVisible, no, mod, yes
    <3>2. Eval(Prompt[s], curr) <= vis
      BY <3>1 DEF SeenRight, CalcVisible, no, mod, yes, Tristate
    <3>3. DefaultValue(s, curr) \in Tristate
      <4>1. no \in Tristate
        BY DEF Tristate
      <4> QED
        BY <4>1, EvalType, TristateFacts DEF DefaultValue
    <3>4. CASE Type[s] = "tristate"
      <4>1. DefaultValue(s, curr) <= Eval(Prompt[s], curr)
        BY <3>1, <3>4 DEF PlainDefaults, TypeOK
      <4> QED
        BY <2>1, <3>1, <3>2, <3>3, <4>1 DEF Tristate, no, mod, yes
    <3>5. CASE Type[s] # "tristate"
      <4>1. vis = yes
        BY <2>2, <3>5 DEF GetType
      <4> QED
        BY <3>3, <4>1 DEF Tristate, no, mod, yes
    <3> QED
      BY <3>3, <3>4, <3>5
  <2>4. And(defTri[s], vis) \in Tristate /\ And(defTri[s], vis) <= vis
    BY <2>1 DEF And, Tristate, no, mod, yes
  <2>5. w \in Tristate /\ w <= vis
    BY <2>3, <2>4
  <2>6. curr[s] = IF Or(w, rev) = mod /\ bool THEN yes ELSE Or(w, rev)
    BY <1>1, <1>3 DEF CalcTri
  <2>7. CalcTri(s, vis, rev, du, dt, curr)
          = LET t == Or(And(curr[s], vis), rev) IN IF t = mod /\ bool THEN yes ELSE t
    BY <1>3 DEF CalcTri
  <2> HIDE DEF vis, rev, bool, w
  <2>8. bool \in BOOLEAN /\ vis # no
    BY DEF bool, vis
  <2>9. curr[s] = LET t == Or(And(curr[s], vis), rev) IN IF t = mod /\ bool THEN yes ELSE t
    BY <2>1, <2>2, <2>5, <2>6, <2>8, SettingAlgebra
  <2>10. CalcTri(s, vis, rev, du, dt, curr) = curr[s]
    BY <2>7, <2>9
  <2> QED
    BY <2>10 DEF vis, rev
<1> QED
  BY <1>2, <1>3

(* A choice value the user has not set is n unless chosen, whatever marks it. *)
LEMMA SiblingKept ==
  ASSUME PlainDefaults, TypeOK, NEW m \in Member, NEW vis \in Tristate, NEW rev, NEW v,
         defTri[m] = no, NEW du, NEW dt, dt[m] = no
  PROVE  CalcTri(m, vis, rev, du, dt, v) = CalcTri(m, vis, rev, defUser, defTri, v)
<1>1. DefaultValue(m, v) = no
  BY MemberHasChoice DEF PlainDefaults, DefaultValue, LiveDefaults
<1>2. And(no, vis) = no
  BY DEF And, Tristate, no, mod, yes
<1> QED
  BY <1>1, <1>2 DEF CalcTri

LEMMA CachedSetRight ==
  ASSUME PlainChoices, PlainDefaults, SeenInv, ValuesRight, MemberDt,
         NEW s \in Symbol, NEW val \in Tristate, Set(s, val), curr[s] = val,
         valid[s], visible[s] # no
  PROVE  ValuesRight'
<1>1. /\ UNCHANGED <<valid, curr, chosen, visible, rev_dep, modules_val>>
      /\ defTri' = [defTri EXCEPT ![s] = val]
      /\ defUser' = [r \in Symbol |->
           \/ defUser[r] \/ r = s
           \/ (IsMember(s) /\ val = yes) /\ r = ChoiceOf(s)
           \/ (IsMember(s) /\ val = yes) /\ r \in ElementsOf(Members[ChoiceOf(s)]) /\ visible[r] # no]
  BY DEF Set, cache
<1>2. TypeOK /\ VisibleCoherent
  BY DEF SeenInv
<1>3. defTri' \in [Symbol -> Tristate]
  BY <1>1, <1>2 DEF TypeOK
<1> SUFFICES ASSUME NEW r \in Symbol, valid[r] PROVE ValueRight(r)'
  BY <1>1 DEF ValuesRight
<1>4. SeenRight(r) /\ ValueRight(r)
  BY <1>2 DEF VisibleCoherent, ValuesRight
<1>5. TriNow(r)' = CalcTri(r, visible[r], rev_dep[r], defUser', defTri', curr)
  BY <1>1 DEF TriNow, CalcTri, GetType, DefaultValue, LiveDefaults
<1>6. SUFFICES CalcTri(r, visible[r], rev_dep[r], defUser', defTri', curr) = TriNow(r)
  BY <1>1, <1>4, <1>5 DEF ValueRight
<1>7. CASE r \in Choice
  BY <1>2, <1>3, <1>4, <1>7, PlainChoiceTri DEF SeenRight, TriNow, TypeOK
<1>8. CASE r \notin Choice /\ r = s
  <2>1. defUser'[s] = TRUE /\ defTri'[s] = curr[s]
    BY <1>1, <1>2 DEF TypeOK
  <2> QED
    BY <1>2, <1>4, <1>8, <2>1, SettingKept DEF ValueRight
<1>9. CASE r \notin Choice /\ r # s /\ defUser'[r] # defUser[r]
  <2>1. IsMember(s) /\ val = yes /\ (r = ChoiceOf(s) \/ r \in ElementsOf(Members[ChoiceOf(s)]))
        /\ ~defUser[r]
    BY <1>1, <1>2, <1>9 DEF TypeOK
  <2>2. r \in Member
    BY <1>9, <2>1, MemberHasChoice, MemberFacts DEF IsMember
  <2>3. defTri[r] = no /\ defTri'[r] = no
    BY <1>1, <1>2, <1>9, <2>1, <2>2 DEF MemberDt, TypeOK
  <2> QED
    BY <1>2, <2>2, <2>3, SiblingKept DEF TriNow, TypeOK
<1>10. CASE r # s /\ defUser'[r] = defUser[r]
  <2>1. defTri'[r] = defTri[r]
    BY <1>1, <1>2, <1>10 DEF TypeOK
  <2> QED
    BY <1>10, <2>1 DEF TriNow, CalcTri
<1> QED
  BY <1>7, <1>8, <1>9, <1>10

LEMMA RecalculateRight ==
  ASSUME TypeOK, defUser' \in [Symbol -> BOOLEAN], defTri' \in [Symbol -> Tristate],
         Recalculate(defUser', defTri')
  PROVE  ValuesRight'
<1>1. /\ valid' = [s \in Symbol |-> s = Modules]
      /\ Modules \in Symbol \ Choice
      /\ curr'[Modules] = CalcTri(Modules, visible[Modules], rev_dep[Modules], defUser, defTri, curr)'
  <2>1. \A du \in [Symbol -> BOOLEAN], dt \in [Symbol -> Tristate] :
          Recalculate(du, dt) =>
          /\ valid' = [s \in Symbol |-> s = Modules]
          /\ Modules \in Symbol \ Choice
          /\ curr'[Modules] = CalcTri(Modules, visible[Modules], rev_dep[Modules], du, dt, curr)'
    BY RecalculateSeen
  <2> QED
    BY <2>1
<1> QED
  BY <1>1 DEF ValuesRight, ValueRight, TriNow

LEMMA CalcSymbolRight ==
  ASSUME SeenInv, ValuesRight, op # "start", NEW s \in Symbol \ Choice, CalcSymbol(s)
  PROVE  ValuesRight'
<1>1. /\ valid' = [valid EXCEPT ![s] = TRUE]
      /\ UNCHANGED <<modules_val, chosen, defUser, defTri>>
      /\ \A r \in Symbol : valid[r] => SameFor(r)
  BY CalcSymbolSame DEF SeenInv
<1>2. curr'[s] = TriNow(s)'
  BY CalcSymbolSeen DEF SeenInv, TriNow
<1> SUFFICES ASSUME NEW r \in Symbol, valid'[r] PROVE ValueRight(r)'
  BY DEF ValuesRight
<1>3. CASE r = s
  BY <1>2, <1>3 DEF ValueRight
<1>4. CASE r # s
  <2>1. valid[r]
    BY <1>1, <1>4 DEF SeenInv, TypeOK
  <2>2. SameFor(r)
    BY <1>1, <2>1
  <2>3. TriNow(r)' = TriNow(r)
    BY <1>1, <2>2, SameForRight
  <2> QED
    BY <1>1, <2>1, <2>2, <2>3 DEF ValuesRight, ValueRight, SameFor
<1> QED
  BY <1>3, <1>4

(* The calculation of a choice gives it the value it would have after it.    *)
LEMMA ChoiceTriAfter ==
  ASSUME PlainChoices, SeenInv, op # "start", NEW c \in Choice, CalcChoiceSymbol(c)
  PROVE  SeenRight(c)' /\ TriNow(c)' = ChoiceTri(c)
<1>1. /\ valid' = [valid EXCEPT ![c] = TRUE]
      /\ UNCHANGED modules_val
  BY CalcChoiceSymbolSame DEF SeenInv
<1>2. /\ VisibleCoherent'
      /\ ChoiceTri(c) = CalcTri(c, visible'[c], rev_dep'[c], defUser, defTri, curr')
  BY CalcChoiceSymbolSeen DEF SeenInv
<1>3. TypeOK /\ TypeOK' /\ c \in Symbol /\ ~IsMember(c)
  <2>1. c \in Symbol /\ ~IsMember(c)
    BY SymbolAssumption, MemberHasChoice DEF IsMember
  <2>2. TypeOK'
    BY CalcChoiceSymbolType DEF SeenInv
  <2> QED
    BY <2>1, <2>2 DEF SeenInv
<1>4. SeenRight(c)'
  BY <1>1, <1>2, <1>3 DEF VisibleCoherent, TypeOK
<1>5. /\ visible'[c] = CalcVisible(c, curr')
      /\ rev_dep'[c] = CalcRevDep(c, visible'[c], curr')
  BY <1>1, <1>3, <1>4 DEF SeenRight, CalcVisible, CalcRevDep, GetType, IsMember
<1>6. TriNow(c)' = CalcTri(c, visible'[c], rev_dep'[c], defUser', defTri', curr')
  <2>1. DefaultValue(c, curr)' = DefaultValue(c, curr')
    BY DEF DefaultValue, LiveDefaults
  <2> QED
    BY <1>1, <1>3, <2>1 DEF TriNow, CalcTri, GetType, IsMember
<1>7. curr' \in [Symbol -> Tristate] /\ defTri \in [Symbol -> Tristate]
      /\ defTri' \in [Symbol -> Tristate]
  BY <1>3 DEF TypeOK
<1>8. CalcTri(c, visible'[c], rev_dep'[c], defUser', defTri', curr')
        = CalcTri(c, visible'[c], rev_dep'[c], defUser, defTri, curr')
  BY <1>5, <1>7, PlainChoiceTri
<1> QED
  BY <1>2, <1>4, <1>6, <1>8

LEMMA CalcChoiceSymbolRight ==
  ASSUME PlainChoices, SeenInv, ValuesRight, op # "start", NEW c \in Choice, CalcChoiceSymbol(c)
  PROVE  ValuesRight'
<1>1. /\ valid' = [valid EXCEPT ![c] = TRUE]
      /\ UNCHANGED <<modules_val, defTri>>
      /\ \A r \in Symbol : valid[r] => SameFor(r)
      /\ \A r \in Symbol : r # c => defUser'[r] = defUser[r]
      /\ \A d \in Choice : d # c => chosen'[d] = chosen[d]
      /\ \A m \in ElementsOf(Members[c]) : ~valid[m]
  BY CalcChoiceSymbolSame DEF SeenInv
<1>3. TypeOK /\ TypeOK' /\ c \in Symbol /\ ~IsMember(c)
  <2>1. c \in Symbol /\ ~IsMember(c)
    BY SymbolAssumption, MemberHasChoice DEF IsMember
  <2>2. TypeOK'
    BY CalcChoiceSymbolType DEF SeenInv
  <2> QED
    BY <2>1, <2>2 DEF SeenInv
<1>4. /\ chosen'[c] = Pick(c)
      /\ curr'[c] = IF ChoiceTri(c) = yes /\ Pick(c) = None THEN no ELSE ChoiceTri(c)
  <2>1. /\ chosen' = [chosen EXCEPT ![c] = Pick(c)]
        /\ curr' = [curr EXCEPT ![c] =
                      IF ChoiceTri(c) = yes /\ Pick(c) = None THEN no ELSE ChoiceTri(c)]
    BY CalcChoiceSymbolSteps
  <2> QED
    BY <1>3, <2>1 DEF TypeOK
<1>5. TriNow(c)' = ChoiceTri(c)
  BY ChoiceTriAfter
<1> SUFFICES ASSUME NEW r \in Symbol, valid'[r] PROVE ValueRight(r)'
  BY DEF ValuesRight
<1>6. CASE r = c
  BY <1>4, <1>5, <1>6 DEF ValueRight
<1>7. CASE r # c
  <2>1. valid[r]
    BY <1>1, <1>3, <1>7 DEF TypeOK
  <2>2. SameFor(r)
    BY <1>1, <2>1
  <2>3. IsMember(r) => chosen'[ChoiceOf(r)] = chosen[ChoiceOf(r)]
    BY <1>1, <2>1, MemberHasChoice DEF IsMember
  <2>4. defUser'[r] = defUser[r] /\ defTri'[r] = defTri[r]
    BY <1>1, <1>7
  <2>5. TriNow(r)' = TriNow(r)
    BY <1>1, <2>2, <2>3, <2>4, SameForRight
  <2>6. r \in Choice => chosen'[r] = chosen[r]
    BY <1>1, <1>7
  <2> QED
    BY <2>1, <2>2, <2>5, <2>6 DEF ValuesRight, ValueRight, SameFor
<1> QED
  BY <1>6, <1>7

LEMMA SameCacheRight ==
  ASSUME ValuesRight,
         UNCHANGED <<valid, curr, chosen, visible, rev_dep, modules_val, defTri>>,
         \A s \in Symbol : visible[s] # no => defUser'[s] = defUser[s]
  PROVE  ValuesRight'
<1> SUFFICES ASSUME NEW r \in Symbol, valid[r] PROVE ValueRight(r)'
  BY DEF ValuesRight
<1>1. TriNow(r)' = TriNow(r)
  BY DEF TriNow, CalcTri, GetType, DefaultValue, LiveDefaults
<1> QED
  BY <1>1 DEF ValueRight, ValuesRight

CoherentInv == SeenInv /\ MemberDt /\ ValuesRight

LEMMA CoherentInvInit == Init => CoherentInv
BY SeenInvInit, MemberDtInit DEF CoherentInv, ValuesRight, Init, Unset

LEMMA CoherentInvStep ==
  ASSUME PlainChoices, PlainDefaults, CoherentInv, [Next]_vars
  PROVE  CoherentInv'
<1>1. SeenInv /\ MemberDt /\ ValuesRight /\ TypeOK /\ OwnValues /\ Settled
  BY DEF CoherentInv, SeenInv
<1>2. SeenInv'
  BY <1>1, SeenInvStep
<1>3. MemberDt'
  BY <1>1, MemberDtStep
<1> SUFFICES ValuesRight'
  BY <1>2, <1>3 DEF CoherentInv
<1>4. CASE CalcValue
  BY <1>1, <1>4, CalcSymbolRight, CalcChoiceSymbolRight DEF CalcValue
<1>5. ASSUME NEW s \in Symbol, NEW val \in Tristate, Set(s, val), valid[s], visible[s] # no
      PROVE  ValuesRight'
  <2>1. CASE curr[s] # val
    BY <1>1, <1>5, <2>1, RecalculatingSteps, RecalculateRight
  <2>2. CASE curr[s] = val
    BY <1>1, <1>5, <2>2, CachedSetRight
  <2> QED
    BY <2>1, <2>2
<1>6. ASSUME NEW s \in Symbol, NEW val \in Tristate, SetTristate(s, val) PROVE ValuesRight'
  BY <1>5, <1>6 DEF SetTristate, Editable
<1>7. ASSUME NEW s \in Symbol, Toggle(s) PROVE ValuesRight'
  BY <1>1, <1>5, <1>7, ToggledType DEF Toggle, Editable
<1>8. CASE ReadStart \/ \E f \in HandMade \cup {file} : Load(f)
  BY <1>1, <1>8, RecalculatingSteps, RecalculateRight
<1>9. CASE ReadMissing \/ (WriteStart /\ ~changed)
  <2>1. Recalculate(defUser, defTri) /\ defUser' = defUser /\ defTri' = defTri
        /\ defUser \in [Symbol -> BOOLEAN] /\ defTri \in [Symbol -> Tristate]
    BY <1>1, <1>9, RecalculatingSteps DEF user
  <2> QED
    BY <1>1, <2>1, RecalculateRight
<1>10. CASE WriteStart /\ changed
  BY <1>1, <1>10, SameCacheRight DEF WriteStart, cache, user
<1>11. CASE ReadFinish
  BY <1>1, <1>11, SameCacheRight DEF ReadFinish, cache, TypeOK
<1>12. CASE WriteFinish
  BY <1>1, <1>12, SameCacheRight DEF WriteFinish, Emitted, user
<1>13. CASE Restart
  BY <1>13 DEF Restart, ValuesRight, Unset
<1>14. CASE UNCHANGED vars
  BY <1>1, <1>14, SameCacheRight DEF vars, cache, user
<1> QED
  BY <1>4, <1>6, <1>7, <1>8, <1>9, <1>10, <1>11, <1>12, <1>13, <1>14 DEF Next

(* Whatever reads, settings and partial calculations came before, a symbol   *)
(* marked SYMBOL_VALID has the value a calculation from the present user     *)
(* settings would give, so sym_set_tristate_value may leave the cache alone  *)
(* when the value asked for is the value there is.                           *)
THEOREM CacheCoherent ==
  ASSUME PlainChoices, PlainDefaults
  PROVE  Spec => []Coherent
<1>1. ASSUME CoherentInv PROVE Coherent
  <2> SUFFICES ASSUME NEW s \in Symbol, valid[s]
               PROVE  LET vis == CalcVisible(s, curr)
                          rev == CalcRevDep(s, vis, curr)
                          tri == CalcTri(s, vis, rev, defUser, defTri, curr)
                      IN  /\ visible[s] = vis
                          /\ curr[s] = IF s \in Choice /\ chosen[s] = None /\ tri = yes
                                       THEN no ELSE tri
    BY DEF Coherent
  <2>1. SeenRight(s) /\ ValueRight(s)
    BY <1>1 DEF CoherentInv, SeenInv, VisibleCoherent, ValuesRight
  <2> QED
    BY <2>1 DEF SeenRight, ValueRight, TriNow
<1>2. CoherentInv /\ [Next]_vars => CoherentInv'
  BY CoherentInvStep
<1> QED
  BY <1>1, <1>2, CoherentInvInit, PTL DEF Spec

-----------------------------------------------------------------------------
(* A configuration that does not count as changed is the one in the file.    *)

(* While the start of the program reads the file, the user settings are its. *)
FromFile ==
  op = "reading" => /\ file # None
                    /\ \A s \in Symbol \ Choice : /\ defUser[s] <=> file[s] # None
                                                  /\ file[s] # None => defTri[s] = file[s]

(* Nothing is stale in an unchanged configuration, so nothing can still turn *)
(* out to differ from the file.                                              *)
Saved ==
  op = "idle" /\ ~changed /\ file # None =>
    \A s \in Symbol : valid[s] /\ (s \notin Choice /\ file[s] # None => file[s] = curr[s])

LEMMA SavedInit == Init => FromFile /\ Saved
BY DEF Init, FromFile, Saved

LEMMA SavedStep ==
  ASSUME SeenInv, FromFile, Saved, [Next]_vars
  PROVE  (FromFile /\ Saved)'
<1>0. TypeOK /\ OwnValues /\ Settled /\ None \notin Tristate
  BY SymbolAssumption DEF SeenInv
<1>1. ASSUME NEW s \in Symbol \ Choice, CalcSymbol(s), op # "start" PROVE (FromFile /\ Saved)'
  BY <1>0, <1>1, CalcSymbolSame DEF FromFile, Saved, TypeOK
<1>2. ASSUME NEW c \in Choice, CalcChoiceSymbol(c), op # "start" PROVE (FromFile /\ Saved)'
  <2>1. /\ ~valid[c] /\ c \in Symbol
        /\ UNCHANGED <<defTri, op, changed, file>>
        /\ \A r \in Symbol \ Choice : defUser'[r] = defUser[r]
    BY <1>0, <1>2, CalcChoiceSymbolSame, SymbolAssumption
  <2> QED
    BY <2>1 DEF FromFile, Saved
<1>3. CASE CalcValue
  BY <1>1, <1>2, <1>3 DEF CalcValue
<1>4. ASSUME NEW s \in Symbol, NEW val \in Tristate, Set(s, val), op = "idle"
      PROVE  (FromFile /\ Saved)'
  BY <1>4 DEF Set, FromFile, Saved, cache
<1>5. ASSUME NEW s \in Symbol, NEW val \in Tristate, SetTristate(s, val)
      PROVE  (FromFile /\ Saved)'
  BY <1>4, <1>5 DEF SetTristate, Editable
<1>6. ASSUME NEW s \in Symbol, Toggle(s) PROVE (FromFile /\ Saved)'
  BY <1>0, <1>4, <1>6, ToggledType DEF Toggle, Editable
<1>7. CASE ReadStart
  <2>1. /\ file' = file /\ file # None /\ op' = "reading"
        /\ defUser' = [s \in Symbol |-> IF s \in Choice THEN Clash(file, s) = {} ELSE file[s] # None]
        /\ defTri' = [s \in Symbol |-> IF s \in Choice THEN ReadTri(file, s)
                                       ELSE IF file[s] = None THEN no ELSE file[s]]
    BY <1>7 DEF ReadStart, ReadLines
  <2> QED
    BY <2>1 DEF FromFile, Saved
<1>8. CASE ReadMissing
  BY <1>8 DEF ReadMissing, FromFile, Saved
<1>9. CASE ReadFinish
  <2>1. op' = "idle" /\ UNCHANGED <<valid, curr, file>> /\ \A s \in Symbol : valid[s]
    BY <1>9 DEF ReadFinish, cache
  <2>2. ASSUME ~changed', NEW s \in Symbol \ Choice, file[s] # None PROVE file[s] = curr[s]
    <3>1. op = "reading" /\ Unsaved = {}
      BY <1>9, <2>2 DEF ReadFinish
    <3>2. defUser[s] /\ defTri[s] = file[s]
      BY <2>2, <3>1 DEF FromFile
    <3>3. s \notin Unsaved
      BY <3>1
    <3> QED
      BY <3>2, <3>3 DEF Unsaved
  <2> QED
    BY <2>1, <2>2 DEF FromFile, Saved
<1>10. ASSUME NEW f, Load(f) PROVE (FromFile /\ Saved)'
  BY <1>10 DEF Load, FromFile, Saved
<1>11. CASE WriteStart
  BY <1>11 DEF WriteStart, FromFile, Saved
<1>12. CASE WriteFinish
  <2>1. /\ op' = "idle" /\ UNCHANGED <<valid, curr>> /\ \A s \in Symbol : valid[s]
        /\ file' = [s \in Symbol \ Choice |-> IF write[s] THEN curr[s] ELSE None]
    BY <1>12 DEF WriteFinish, Emitted, Written
  <2> QED
    BY <2>1 DEF FromFile, Saved
<1>13. CASE Restart
  BY <1>13 DEF Restart, FromFile, Saved
<1>14. CASE UNCHANGED vars
  BY <1>14 DEF vars, cache, user, FromFile, Saved
<1> QED
  BY <1>3, <1>5, <1>6, <1>7, <1>8, <1>9, <1>10, <1>11, <1>12, <1>13, <1>14 DEF Next

(* While conf_get_changed() is false, no calculated value differs from what  *)
(* the file says of it, in every menu: leaving without saving loses nothing. *)
THEOREM UnchangedSaved == Spec => []UnchangedMeansSaved
<1>1. Saved => UnchangedMeansSaved
  BY DEF Saved, UnchangedMeansSaved
<1>2. SeenInv /\ FromFile /\ Saved /\ [Next]_vars => (FromFile /\ Saved)'
  BY SavedStep
<1> QED
  BY <1>1, <1>2, SavedInit, SeenInvInit, SeenInvStep, PTL DEF Spec

-----------------------------------------------------------------------------
(* What is marked to be written. *)

(* From the moment something changed or a read or write has begun until the  *)
(* write is over, the marks are to be relied on.                             *)
Marking == changed \/ op \in {"reading", "loading", "writing"}

ChoiceWritten(c) == visible[c] # no \/ rev_dep[c] # no

Marked == \A s \in Symbol \ Choice : valid[s] /\ MustWrite(s) => write[s]

(* The calculation of a choice marks the values it saw, and theirs, later,   *)
(* leaves the mark alone.                                                    *)
MembersMarked ==
  \A c \in Choice : valid[c] /\ curr[c] = yes /\ ChoiceWritten(c) =>
    \A m \in ElementsOf(Members[c]) : visible[m] # no => write[m]

(* A symbol that is no choice value is marked only by its own calculation.   *)
PlainMarks == \A s \in Symbol \ (Choice \cup Member) : valid[s] /\ write[s] => MustWrite(s)

LEMMA MustWriteParts ==
  ASSUME NEW s \in Symbol \ Choice
  PROVE  /\ IsMember(s) => (MustWrite(s) <=> /\ visible[s] # no
                                             /\ visible[s] = mod \/ ChoiceWritten(ChoiceOf(s)))
         /\ ~IsMember(s) => (MustWrite(s) <=> \/ visible[s] # no \/ rev_dep[s] # no
                                              \/ LiveDefaults(s, curr) # {})
<1>1. ASSUME IsMember(s)
      PROVE  MustWrite(s) <=> visible[s] # no /\ (visible[s] = mod \/ ChoiceWritten(ChoiceOf(s)))
  <2>1. ChoiceOf(s) \in Choice /\ ~IsMember(ChoiceOf(s))
    BY <1>1, MemberHasChoice DEF IsMember
  <2> QED
    BY <1>1, <2>1 DEF MustWrite, CalcWrite, ChoiceWritten
<1>2. ASSUME ~IsMember(s)
      PROVE  MustWrite(s) <=> visible[s] # no \/ rev_dep[s] # no \/ LiveDefaults(s, curr) # {}
  BY <1>2 DEF MustWrite
<1> QED
  BY <1>1, <1>2

LEMMA MustWriteSame ==
  ASSUME NEW s \in Symbol \ Choice, UNCHANGED modules_val,
         SameFor(s), IsMember(s) => SameFor(ChoiceOf(s))
  PROVE  MustWrite(s)' <=> MustWrite(s)
<1>1. LiveDefaults(s, curr)' = LiveDefaults(s, curr)
  BY SameForCalcs
<1>2. CASE IsMember(s)
  <2>1. ChoiceOf(s) \in Choice /\ ~IsMember(ChoiceOf(s))
    BY <1>2, MemberHasChoice DEF IsMember
  <2> QED
    BY <1>2, <2>1 DEF MustWrite, CalcWrite, SameFor, IsMember
<1>3. CASE ~IsMember(s)
  BY <1>1, <1>3 DEF MustWrite, SameFor, IsMember
<1> QED
  BY <1>2, <1>3

(* Recalculate starts over: only modules_sym is calculated, and marked       *)
(* exactly when it must be written.                                          *)
LEMMA RecalculateMarks ==
  ASSUME TypeOK, NEW du \in [Symbol -> BOOLEAN], NEW dt \in [Symbol -> Tristate],
         Recalculate(du, dt)
  PROVE  (Marked /\ MembersMarked /\ PlainMarks)'
<1> DEFINE vis == CalcVisible(Modules, curr)
           rev == CalcRevDep(Modules, vis, curr)
<1>1. /\ valid' = [s \in Symbol |-> s = Modules]
      /\ Modules \in Symbol \ Choice /\ ~IsMember(Modules)
  BY RecalculateSeen DEF IsMember
<1>2. /\ visible' = [visible EXCEPT ![Modules] = vis]
      /\ rev_dep' = [rev_dep EXCEPT ![Modules] = rev]
      /\ write' = [write EXCEPT ![Modules] = CalcWrite(Modules, vis, rev, curr)]
  BY DEF Recalculate
<1>3. /\ visible'[Modules] = vis /\ rev_dep'[Modules] = rev
      /\ write'[Modules] = (vis # no \/ rev # no \/ LiveDefaults(Modules, curr) # {})
  BY <1>1, <1>2 DEF TypeOK, CalcWrite
<1>4. LiveDefaults(Modules, curr)' = LiveDefaults(Modules, curr)
  <2>1. LiveDefaults(Modules, curr') = LiveDefaults(Modules, curr)
    BY <1>1, ModulesAssumption, CalcsAgree
  <2> QED
    BY <2>1 DEF LiveDefaults
<1> HIDE DEF vis, rev
<1>5. write'[Modules] <=> MustWrite(Modules)'
  BY <1>1, <1>3, <1>4 DEF MustWrite, IsMember
<1>6. \A s \in Symbol : valid'[s] <=> s = Modules
  BY <1>1
<1> QED
  BY <1>1, <1>5, <1>6, SymbolAssumption DEF Marked, MembersMarked, PlainMarks

LEMMA SameCacheMarks ==
  ASSUME UNCHANGED <<valid, curr, visible, rev_dep, write>>
  PROVE  /\ Marked' <=> Marked
         /\ MembersMarked' <=> MembersMarked
         /\ PlainMarks' <=> PlainMarks
<1>1. \A s \in Symbol \ Choice : MustWrite(s)' <=> MustWrite(s)
  BY DEF MustWrite, CalcWrite, LiveDefaults, IsMember
<1> QED
  BY <1>1 DEF Marked, MembersMarked, PlainMarks, ChoiceWritten

(* A choice value that is calculated after its choice is visible as y only   *)
(* if the choice is y and had seen it.                                       *)
LEMMA VisibleMember ==
  ASSUME SeenInv, NEW m \in Member, valid[ChoiceOf(m)], CalcVisible(m, curr) = yes
  PROVE  curr[ChoiceOf(m)] = yes /\ visible[m] = yes
<1> DEFINE c == ChoiceOf(m)
<1>1. TypeOK /\ Settled /\ ModsOnly
  BY DEF SeenInv
<1>2. c \in Choice /\ m \in ElementsOf(Members[c]) /\ m \in Symbol
  BY MemberHasChoice
<1>3. /\ Eval(Prompt[m], curr) <= curr[c]
      /\ Type[c] = "tristate" /\ Type[m] = "boolean" /\ curr[c] # yes => Eval(Prompt[m], curr) = no
  <2>1. \A v \in [Symbol -> Tristate] :
          /\ Eval(Prompt[m], v) <= v[c]
          /\ Type[c] = "tristate" /\ Type[m] = "boolean" /\ v[c] # yes => Eval(Prompt[m], v) = no
    BY <1>2, ChoiceAssumption
  <2>2. curr \in [Symbol -> Tristate]
    BY <1>1 DEF TypeOK
  <2> QED
    BY <2>1, <2>2
<1>4. Eval(Prompt[m], curr) \in Tristate /\ curr[c] \in Tristate /\ c \in Symbol
  BY <1>1, <1>2, EvalType, SymbolAssumption DEF TypeOK
<1>5. curr[c] = yes
  <2>1. CASE Eval(Prompt[m], curr) = yes
    BY <1>3, <1>4, <2>1 DEF Tristate, no, mod, yes
  <2>2. CASE Eval(Prompt[m], curr) # yes
    <3>1. Eval(Prompt[m], curr) = mod /\ (Type[m] # "tristate" \/ modules_val = no)
      BY <2>2 DEF CalcVisible
    <3>2. curr[c] = mod \/ curr[c] = yes
      BY <1>3, <1>4, <3>1 DEF Tristate, no, mod, yes
    <3>3. ASSUME curr[c] = mod PROVE FALSE
      <4>1. Type[c] = "tristate" /\ modules_val # no
        BY <1>1, <1>4, <3>3 DEF ModsOnly
      <4>2. Type[m] = "boolean"
        BY <1>2, <3>1, <4>1, SymbolAssumption
      <4>3. Eval(Prompt[m], curr) = no
        BY <1>3, <3>3, <4>1, <4>2 DEF mod, yes
      <4> QED
        BY <3>1, <4>3 DEF mod, no
    <3> QED
      BY <3>2, <3>3
  <2> QED
    BY <2>1, <2>2
<1> QED
  BY <1>1, <1>2, <1>5 DEF Settled, ChoiceSeen

LEMMA CalcSymbolMarks ==
  ASSUME SeenInv, op # "start", NEW s \in Symbol \ Choice, CalcSymbol(s)
  PROVE  /\ PlainMarks => PlainMarks'
         /\ Marked /\ MembersMarked => (Marked /\ MembersMarked)'
<1>0. TypeOK /\ Settled /\ VisibleCoherent /\ ModsOnly
  BY DEF SeenInv
<1>1. /\ ~valid[s] /\ valid' = [valid EXCEPT ![s] = TRUE]
      /\ UNCHANGED modules_val
      /\ \A r \in Symbol : valid[r] => SameFor(r) /\ write'[r] = write[r]
      /\ \A r \in Reads(s) : curr'[r] = curr[r]
      /\ \A r \in Symbol : r # s => visible'[r] = visible[r] /\ curr'[r] = curr[r]
                                    /\ rev_dep'[r] = rev_dep[r] /\ write'[r] = write[r]
  BY <1>0, CalcSymbolSame
<1>2. /\ visible'[s] = CalcVisible(s, curr) /\ \A r \in Reads(s) : valid[r]
      /\ write'[s] = CalcWrite(s, visible'[s], rev_dep'[s], curr)
  <2>1. /\ visible' = [visible EXCEPT ![s] = CalcVisible(s, curr)] /\ \A r \in Reads(s) : valid[r]
    BY DEF CalcSymbol
  <2>2. write'[s] = CalcWrite(s, visible'[s], rev_dep'[s], curr)
    BY <1>0, CalcSymbolSeen
  <2> QED
    BY <1>0, <2>1, <2>2 DEF TypeOK
<1>3. \A r \in Symbol : valid'[r] /\ r # s => valid[r]
  BY <1>0, <1>1 DEF TypeOK
<1>4. \A r \in Symbol \ Choice : valid'[r] /\ r # s => (MustWrite(r)' <=> MustWrite(r))
  <2> SUFFICES ASSUME NEW r \in Symbol \ Choice, valid'[r], r # s
               PROVE  MustWrite(r)' <=> MustWrite(r)
    OBVIOUS
  <2>1. valid[r] /\ SameFor(r)
    BY <1>1, <1>3
  <2>2. IsMember(r) => SameFor(ChoiceOf(r))
    <3>1. ASSUME IsMember(r)
          PROVE  ChoiceOf(r) \in Symbol /\ ChoiceOf(r) \in Reads(r)
      BY <3>1, MemberHasChoice, MemberFacts, SymbolAssumption DEF IsMember
    <3>2. \A q \in Reads(r) : valid[q]
      BY <1>0, <2>1 DEF Settled, ReadsClosed
    <3> QED
      BY <1>1, <3>1, <3>2
  <2> QED
    BY <1>1, <2>1, <2>2, MustWriteSame
<1>5. CASE ~IsMember(s)
  <2>1. LiveDefaults(s, curr)' = LiveDefaults(s, curr)
    <3>1. LiveDefaults(s, curr') = LiveDefaults(s, curr)
      BY <1>1, CalcsAgree
    <3> QED
      BY <3>1 DEF LiveDefaults
  <2>2. write'[s] <=> MustWrite(s)'
    BY <1>2, <1>5, <2>1 DEF CalcWrite, MustWrite, IsMember
  <2>3. PlainMarks => PlainMarks'
    BY <1>1, <1>3, <1>4, <2>2 DEF PlainMarks
  <2>4. Marked => Marked'
    BY <1>1, <1>3, <1>4, <2>2 DEF Marked
  <2>5. MembersMarked => MembersMarked'
    <3>1. \A c \in Choice : c \in Symbol /\ c # s
      BY SymbolAssumption
    <3>2. \A c \in Choice : \A m \in ElementsOf(Members[c]) : m \in Symbol /\ m # s
      BY <1>5, MemberFacts DEF IsMember
    <3> QED
      BY <1>1, <1>3, <3>1, <3>2 DEF MembersMarked, ChoiceWritten
  <2> QED
    BY <2>3, <2>4, <2>5
<1>6. CASE IsMember(s)
  <2> DEFINE c == ChoiceOf(s)
  <2>1. c \in Choice /\ c \in Symbol /\ c # s /\ c \in Reads(s) /\ s \in Member
        /\ s \in ElementsOf(Members[c])
    BY <1>6, MemberHasChoice, MemberFacts, SymbolAssumption DEF IsMember
  <2>2. valid[c] /\ SameFor(c)
    BY <1>1, <1>2, <2>1
  <2>3. write[s] \/ visible'[s] = mod => write'[s]
    BY <1>2, <1>6 DEF CalcWrite
  <2>4. PlainMarks => PlainMarks'
    BY <1>1, <1>3, <1>4, <2>1 DEF PlainMarks
  <2>5. ASSUME Marked, MembersMarked PROVE Marked'
    <3>1. ASSUME MustWrite(s)' PROVE write'[s]
      <4>1. visible'[s] # no /\ (visible'[s] = mod \/ ChoiceWritten(c)')
        <5>1. ~IsMember(c)
          BY <2>1, MemberHasChoice DEF IsMember
        <5> QED
          BY <1>6, <2>1, <3>1, <5>1 DEF MustWrite, CalcWrite, ChoiceWritten, IsMember
      <4>2. CASE visible'[s] = mod
        BY <2>3, <4>2
      <4>3. CASE visible'[s] # mod
        <5>1. visible'[s] = yes
          BY <1>0, <1>2, <4>1, <4>3, CalcTypes DEF Tristate
        <5>2. curr[c] = yes /\ visible[s] = yes
          BY <1>2, <2>1, <2>2, <5>1, VisibleMember
        <5>3. ChoiceWritten(c)
          BY <2>2, <4>1, <4>3 DEF ChoiceWritten, SameFor
        <5>4. write[s]
          BY <2>1, <2>2, <2>5, <5>2, <5>3 DEF MembersMarked, no, yes
        <5> QED
          BY <2>3, <5>4
      <4> QED
        BY <4>2, <4>3
    <3> QED
      BY <1>1, <1>3, <1>4, <2>5, <3>1 DEF Marked
  <2>6. ASSUME MembersMarked PROVE MembersMarked'
    <3> SUFFICES ASSUME NEW d \in Choice, valid'[d], curr'[d] = yes, ChoiceWritten(d)',
                        NEW m \in ElementsOf(Members[d]), visible'[m] # no
                 PROVE  write'[m]
      BY DEF MembersMarked
    <3>1. d \in Symbol /\ d # s /\ m \in Symbol /\ m \in Member
      BY MemberFacts, SymbolAssumption
    <3>2. valid[d] /\ curr[d] = yes /\ ChoiceWritten(d)
      BY <1>1, <1>3, <3>1 DEF ChoiceWritten
    <3>3. CASE m = s
      <4>1. visible[s] = CalcVisible(s, curr)
        BY <1>0, <3>2, <3>3 DEF Settled, ChoiceSeen
      <4>2. write[s]
        BY <1>2, <2>6, <3>2, <3>3, <4>1 DEF MembersMarked
      <4> QED
        BY <2>3, <3>3, <4>2
    <3>4. CASE m # s
      BY <1>1, <2>6, <3>1, <3>2, <3>4 DEF MembersMarked
    <3> QED
      BY <3>3, <3>4
  <2> QED
    BY <2>4, <2>5, <2>6
<1> QED
  BY <1>5, <1>6

LEMMA CalcChoiceSymbolMarks ==
  ASSUME SeenInv, op # "start", NEW c \in Choice, CalcChoiceSymbol(c)
  PROVE  /\ PlainMarks => PlainMarks'
         /\ Marked /\ MembersMarked => (Marked /\ MembersMarked)'
<1>0. TypeOK /\ OwnValues /\ Settled /\ VisibleCoherent /\ ModsOnly /\ c \in Symbol
  BY SymbolAssumption DEF SeenInv
<1>1. /\ ~valid[c] /\ valid' = [valid EXCEPT ![c] = TRUE]
      /\ UNCHANGED modules_val
      /\ \A r \in Symbol : valid[r] => SameFor(r)
      /\ \A r \in Symbol : r # c => curr'[r] = curr[r] /\ rev_dep'[r] = rev_dep[r]
      /\ \A m \in ElementsOf(Members[c]) : ~valid[m] /\ ~valid'[m]
  BY <1>0, CalcChoiceSymbolSame
<1>2. /\ visible' = Seen(c)
      /\ write' = [s \in Symbol |->
            IF s = c THEN FALSE
            ELSE write[s] \/ (s \in ElementsOf(Members[c]) /\ Seen(c)[s] # no
                              /\ CalcWrite(c, ChoiceVis(c), ChoiceRev(c), curr))]
      /\ visible'[c] = ChoiceVis(c) /\ rev_dep'[c] = ChoiceRev(c)
  BY <1>0, CalcChoiceSymbolSteps, CalcChoiceSymbolSeen
<1>3. \A r \in Symbol : valid'[r] /\ r # c => valid[r]
  BY <1>0, <1>1 DEF TypeOK
<1>4. /\ \A r \in Symbol : r # c /\ write[r] => write'[r]
      /\ \A r \in Symbol : r # c /\ r \notin ElementsOf(Members[c]) => write'[r] = write[r]
  BY <1>0, <1>2 DEF TypeOK
<1>5. \A r \in Symbol \ Choice : valid'[r] => valid[r] /\ (MustWrite(r)' <=> MustWrite(r))
  <2> SUFFICES ASSUME NEW r \in Symbol \ Choice, valid'[r]
               PROVE  valid[r] /\ (MustWrite(r)' <=> MustWrite(r))
    OBVIOUS
  <2>1. valid[r] /\ SameFor(r)
    BY <1>1, <1>3
  <2>2. IsMember(r) => SameFor(ChoiceOf(r))
    <3>1. ASSUME IsMember(r)
          PROVE  ChoiceOf(r) \in Symbol /\ ChoiceOf(r) \in Reads(r)
      BY <3>1, MemberHasChoice, MemberFacts, SymbolAssumption DEF IsMember
    <3>2. \A q \in Reads(r) : valid[q]
      BY <1>0, <2>1 DEF Settled, ReadsClosed
    <3> QED
      BY <1>1, <3>1, <3>2
  <2> QED
    BY <1>1, <2>1, <2>2, MustWriteSame
<1>6. Marked => Marked'
  BY <1>4, <1>5 DEF Marked
<1>7. PlainMarks => PlainMarks'
  <2> SUFFICES ASSUME PlainMarks, NEW r \in Symbol \ (Choice \cup Member), valid'[r], write'[r]
               PROVE  MustWrite(r)'
    BY DEF PlainMarks
  <2>1. r # c /\ r \notin ElementsOf(Members[c])
    BY MemberFacts
  <2> QED
    BY <1>4, <1>5, <2>1 DEF PlainMarks
<1>8. MembersMarked => MembersMarked'
  <2> SUFFICES ASSUME MembersMarked,
                      NEW d \in Choice, valid'[d], curr'[d] = yes, ChoiceWritten(d)',
                      NEW m \in ElementsOf(Members[d]), visible'[m] # no
               PROVE  write'[m]
    BY DEF MembersMarked
  <2>1. m \in Symbol /\ m # c /\ ChoiceOf(m) = d /\ d \in Symbol
    BY MemberFacts, SymbolAssumption
  <2>2. CASE d = c
    <3>1. ~IsMember(c)
      BY MemberHasChoice DEF IsMember
    <3>2. CalcWrite(c, ChoiceVis(c), ChoiceRev(c), curr)
      BY <1>2, <2>2, <3>1 DEF ChoiceWritten, CalcWrite
    <3> QED
      BY <1>2, <2>1, <2>2, <3>2
  <2>3. CASE d # c
    <3>1. m \notin ElementsOf(Members[c])
      BY <2>1, <2>3, MemberFacts
    <3>2. visible'[m] = visible[m]
      BY <1>2, <2>1, <3>1 DEF Seen
    <3>3. valid[d] /\ SameFor(d)
      BY <1>1, <1>3, <2>1, <2>3
    <3>4. curr[d] = yes /\ ChoiceWritten(d)
      BY <3>3 DEF ChoiceWritten, SameFor
    <3> QED
      BY <1>4, <2>1, <3>2, <3>3, <3>4 DEF MembersMarked
  <2> QED
    BY <2>2, <2>3
<1> QED
  BY <1>6, <1>7, <1>8

MarksInv == (Marking => Marked /\ MembersMarked) /\ PlainMarks

LEMMA MarksInit == Init => MarksInv
BY DEF Init, MarksInv, Marking, PlainMarks, Unset

LEMMA MarksStep ==
  ASSUME SeenInv, MarksInv, [Next]_vars
  PROVE  MarksInv'
<1>0. TypeOK /\ OwnValues
  BY DEF SeenInv
<1>1. ASSUME NEW s \in Symbol \ Choice, CalcSymbol(s), op # "start" PROVE MarksInv'
  <2>1. UNCHANGED <<op, changed>>
    BY <1>1 DEF CalcSymbol
  <2> QED
    BY <1>1, <2>1, CalcSymbolMarks DEF MarksInv, Marking
<1>2. ASSUME NEW c \in Choice, CalcChoiceSymbol(c), op # "start" PROVE MarksInv'
  <2>1. UNCHANGED <<op, changed>>
    BY <1>2, CalcChoiceSymbolSteps
  <2> QED
    BY <1>2, <2>1, CalcChoiceSymbolMarks DEF MarksInv, Marking
<1>3. CASE CalcValue
  BY <1>1, <1>2, <1>3 DEF CalcValue
<1>4. ASSUME NEW s \in Symbol, NEW val \in Tristate, Set(s, val) PROVE MarksInv'
  <2>1. CASE curr[s] # val
    BY <1>0, <1>4, <2>1, RecalculatingSteps, RecalculateMarks DEF MarksInv
  <2>2. CASE curr[s] = val
    BY <1>4, <2>2, SameCacheMarks DEF Set, cache, MarksInv, Marking
  <2> QED
    BY <2>1, <2>2
<1>5. ASSUME NEW s \in Symbol, NEW val \in Tristate, SetTristate(s, val) PROVE MarksInv'
  BY <1>4, <1>5 DEF SetTristate
<1>6. ASSUME NEW s \in Symbol, Toggle(s) PROVE MarksInv'
  BY <1>0, <1>4, <1>6, ToggledType DEF Toggle
<1>7. CASE ReadStart \/ \E f \in HandMade \cup {file} : Load(f)
  BY <1>0, <1>7, RecalculatingSteps, RecalculateMarks DEF MarksInv
<1>8. CASE ReadMissing \/ (WriteStart /\ ~changed)
  BY <1>0, <1>8, RecalculatingSteps, RecalculateMarks DEF MarksInv
<1>9. CASE ReadFinish \/ (WriteStart /\ changed) \/ UNCHANGED vars
  <2>1. UNCHANGED <<valid, curr, visible, rev_dep, write>> /\ (Marking' => Marking)
    BY <1>9 DEF ReadFinish, WriteStart, vars, cache, Marking
  <2> QED
    BY <2>1, SameCacheMarks DEF MarksInv
<1>10. CASE WriteFinish
  BY <1>10 DEF WriteFinish, Emitted, MarksInv, Marking, PlainMarks
<1>11. CASE Restart
  BY <1>11 DEF Restart, Unset, MarksInv, Marking, PlainMarks
<1> QED
  BY <1>3, <1>5, <1>6, <1>7, <1>8, <1>9, <1>10, <1>11 DEF Next

(* conf_write saves the value of every symbol the configuration is made of,  *)
(* in every menu, although the marks it goes by are cleared by each write    *)
(* and set only by calculations.                                             *)
THEOREM SavedComplete == Spec => FileComplete
<1>1. MarksInv /\ WriteFinish => \A s \in Symbol \ Choice : MustWrite(s) => file'[s] = curr[s]
  <2> SUFFICES ASSUME MarksInv, WriteFinish, NEW s \in Symbol \ Choice, MustWrite(s)
               PROVE  file'[s] = curr[s]
    OBVIOUS
  <2>1. valid[s] /\ Marking /\ file'[s] = IF write[s] THEN curr[s] ELSE None
    BY DEF WriteFinish, Emitted, Written, Marking
  <2> QED
    BY <2>1 DEF MarksInv, Marked
<1>2. SeenInv /\ MarksInv /\ [Next]_vars => MarksInv'
  BY MarksStep
<1> QED
  BY <1>1, <1>2, MarksInit, SeenInvInit, SeenInvStep, PTL DEF Spec, FileComplete

(* It saves no symbol that has dropped out of the configuration, where there *)
(* are no choices: a choice value keeps its mark from one calculation to the *)
(* next.                                                                     *)
THEOREM SavedMinimal ==
  ASSUME Member = {}
  PROVE  Spec => FileMinimal
<1>1. MarksInv /\ WriteFinish => \A s \in Symbol \ Choice : file'[s] # None => MustWrite(s)
  <2> SUFFICES ASSUME MarksInv, WriteFinish, NEW s \in Symbol \ Choice, file'[s] # None
               PROVE  MustWrite(s)
    OBVIOUS
  <2>1. valid[s] /\ write[s]
    BY DEF WriteFinish, Emitted, Written
  <2> QED
    BY <2>1 DEF MarksInv, PlainMarks
<1>2. SeenInv /\ MarksInv /\ [Next]_vars => MarksInv'
  BY MarksStep
<1> QED
  BY <1>1, <1>2, MarksInit, SeenInvInit, SeenInvStep, PTL DEF Spec, FileMinimal

-----------------------------------------------------------------------------
(* What is set sticks. *)

(* What sym_calc_choice would pick now for a choice that is y.               *)
ChoiceYes(c) == [curr EXCEPT ![c] = yes]
SeenNow(c) == [m \in Symbol |-> CalcVisible(m, ChoiceYes(c))]
ChosenRight(c) ==
  chosen[c] = IF TriNow(c) = yes THEN CalcChoice(c, SeenNow(c), ChoiceYes(c)) ELSE None

(* The whole of what is cached of s is what a calculation would give.        *)
Right(s) == SeenRight(s) /\ ValueRight(s) /\ (s \in Choice => ChosenRight(s))

ChoicesRight ==
  \A c \in Choice : valid[c] =>
    ChosenRight(c) /\ (TriNow(c) = yes => \A r \in ChoiceReads(c) : valid[r])

(* A choice value is not selected: CalcRevDep leaves its n alone.            *)
MemberRev == \A m \in Member : rev_dep[m] = no

ModulesVal == modules_val = curr[Modules]

(* sym_choice_default goes by the visibilities of the values and the symbols *)
(* in the conditions of the defaults.                                        *)
LEMMA ChoiceDefaultAgree ==
  ASSUME NEW c \in Choice, NEW vis, NEW vis2, NEW v, NEW w,
         \A m \in ElementsOf(Members[c]) : vis[m] = vis2[m],
         \A r \in ChoiceReads(c) \cup {c} : v[r] = w[r]
  PROVE  ChoiceDefaultSym(c, vis, v) = ChoiceDefaultSym(c, vis2, w)
<1>1. \A i \in DOMAIN ChoiceDefault[c] :
        /\ Eval(ChoiceDefault[c][i].cond, v) = Eval(ChoiceDefault[c][i].cond, w)
        /\ vis[ChoiceDefault[c][i].sym] = vis2[ChoiceDefault[c][i].sym]
  <2> SUFFICES ASSUME NEW i \in DOMAIN ChoiceDefault[c]
               PROVE  /\ Eval(ChoiceDefault[c][i].cond, v) = Eval(ChoiceDefault[c][i].cond, w)
                      /\ vis[ChoiceDefault[c][i].sym] = vis2[ChoiceDefault[c][i].sym]
    OBVIOUS
  <2>1. \A r \in SymbolsOf(ChoiceDefault[c][i].cond) : r \in ChoiceReads(c) \cup {c}
    <3> DEFINE conds == UNION {SymbolsOf(ChoiceDefault[c][j].cond) : j \in DOMAIN ChoiceDefault[c]}
    <3>1. SymbolsOf(ChoiceDefault[c][i].cond) \subseteq conds
      OBVIOUS
    <3> DEFINE prompts == UNION {SymbolsOf(Prompt[m]) : m \in ElementsOf(Members[c])}
    <3>2. ChoiceReads(c) = (prompts \cup conds) \ {c}
      BY DEF ChoiceReads
    <3> HIDE DEF prompts, conds
    <3> QED
      BY <3>1, <3>2
  <2>2. Eval(ChoiceDefault[c][i].cond, v) = Eval(ChoiceDefault[c][i].cond, w)
    BY <2>1, EvalAgree
  <2>3. ChoiceDefault[c][i].sym \in ElementsOf(Members[c])
    BY ChoiceAssumption
  <2> QED
    BY <2>2, <2>3
<1>2. \A i \in DOMAIN Members[c] : vis[Members[c][i]] = vis2[Members[c][i]]
  BY DEF ElementsOf
<1> DEFINE live(x, y) == {i \in DOMAIN ChoiceDefault[c] :
                            /\ Eval(ChoiceDefault[c][i].cond, y) # no
                            /\ x[ChoiceDefault[c][i].sym] # no}
           seen(x) == {i \in DOMAIN Members[c] : x[Members[c][i]] # no}
<1>3. live(vis, v) = live(vis2, w)
  BY <1>1
<1>4. seen(vis) = seen(vis2)
  BY <1>2
<1> QED
  BY <1>3, <1>4 DEF ChoiceDefaultSym

(* sym_calc_choice goes by the user's choice besides.                        *)
LEMMA CalcChoiceAgree ==
  ASSUME OwnValues, NEW c \in Choice, NEW vis, NEW vis2, NEW v, NEW w,
         \A m \in ElementsOf(Members[c]) : vis[m] = vis2[m],
         \A r \in ChoiceReads(c) \cup {c} : v[r] = w[r]
  PROVE  CalcChoice(c, vis, v) = CalcChoice(c, vis2, w)
<1>1. ChoiceDefaultSym(c, vis, v) = ChoiceDefaultSym(c, vis2, w)
  BY ChoiceDefaultAgree
<1>2. defVal[c] # None => vis[defVal[c]] = vis2[defVal[c]]
  BY DEF OwnValues
<1> QED
  BY <1>1, <1>2 DEF CalcChoice

(* A choice for which nothing is picked has no visible value.                *)
LEMMA NothingPicked ==
  ASSUME NEW c \in Choice, NEW vis, NEW v, TypeOK, CalcChoice(c, vis, v) = None,
         NEW m \in ElementsOf(Members[c])
  PROVE  vis[m] = no
<1> DEFINE live == {i \in DOMAIN ChoiceDefault[c] :
                      /\ Eval(ChoiceDefault[c][i].cond, v) # no
                      /\ vis[ChoiceDefault[c][i].sym] # no}
           seen == {i \in DOMAIN Members[c] : vis[Members[c][i]] # no}
<1>1. ChoiceDefaultSym(c, vis, v) = None
  BY DEF CalcChoice
<1>2. live \in SUBSET Nat /\ seen \in SUBSET Nat
  BY ChoiceAssumption
<1>3. live = {}
  <2>1. ASSUME live # {} PROVE FALSE
    <3>1. FirstOf(live) \in live
      BY <1>2, <2>1, FirstOfFact
    <3>2. ChoiceDefault[c][FirstOf(live)].sym \in ElementsOf(Members[c])
      BY <3>1, ChoiceAssumption
    <3>3. ChoiceDefault[c][FirstOf(live)].sym # None
      BY <3>2, MemberFacts
    <3> QED
      BY <1>1, <2>1, <3>3 DEF ChoiceDefaultSym
  <2> QED
    BY <2>1
<1>4. seen = {}
  <2>1. ASSUME seen # {} PROVE FALSE
    <3>1. FirstOf(seen) \in seen
      BY <1>2, <2>1, FirstOfFact
    <3>2. Members[c][FirstOf(seen)] # None
      BY <3>1, MemberFacts DEF ElementsOf
    <3> QED
      BY <1>1, <1>3, <2>1, <3>2 DEF ChoiceDefaultSym
  <2> QED
    BY <2>1
<1> QED
  BY <1>4 DEF ElementsOf

LEMMA PromptReads ==
  ASSUME NEW c \in Choice, NEW m \in ElementsOf(Members[c])
  PROVE  SymbolsOf(Prompt[m]) \subseteq ChoiceReads(c) \cup {c}
<1>1. SymbolsOf(Prompt[m]) \subseteq UNION {SymbolsOf(Prompt[n]) : n \in ElementsOf(Members[c])}
  OBVIOUS
<1> QED
  BY <1>1 DEF ChoiceReads

LEMMA VisibleAgree ==
  ASSUME NEW s, NEW v, NEW w, \A r \in SymbolsOf(Prompt[s]) : v[r] = w[r]
  PROVE  CalcVisible(s, v) = CalcVisible(s, w)
BY EvalAgree DEF CalcVisible

(* A plain choice's value is what its dependencies make it.                  *)
LEMMA ChoiceTriSame ==
  ASSUME PlainChoices, TypeOK, TypeOK', NEW c \in Choice, SeenRight(c), SameFor(c),
         UNCHANGED modules_val
  PROVE  TriNow(c)' = TriNow(c)
<1>1. c \in Symbol /\ ~IsMember(c)
  BY SymbolAssumption, MemberHasChoice DEF IsMember
<1>2. TriNow(c) = CalcTri(c, visible[c], rev_dep[c], defUser', defTri', curr)
  BY PlainChoiceTri DEF SeenRight, TriNow, TypeOK
<1>3. CalcTri(c, visible[c], rev_dep[c], defUser', defTri', curr)
        = CalcTri(c, visible[c], rev_dep[c], defUser', defTri', curr')
  BY <1>1, CalcsAgree DEF SameFor
<1>4. DefaultValue(c, curr)' = DefaultValue(c, curr')
  BY DEF DefaultValue, LiveDefaults
<1>5. TriNow(c)' = CalcTri(c, visible[c], rev_dep[c], defUser', defTri', curr')
  BY <1>1, <1>4 DEF TriNow, CalcTri, GetType, SameFor, IsMember
<1> QED
  BY <1>2, <1>3, <1>5

LEMMA ChoiceReadsSymbols ==
  ASSUME NEW c \in Choice
  PROVE  ChoiceReads(c) \subseteq Symbol /\ c \notin ChoiceReads(c)
<1>1. \A e \in Exprs(Symbol) : SymbolsOf(e) \subseteq Symbol
  BY DEF Exprs, Literals, SymbolsOf
<1> DEFINE prompts == UNION {SymbolsOf(Prompt[m]) : m \in ElementsOf(Members[c])}
           conds == UNION {SymbolsOf(ChoiceDefault[c][i].cond) : i \in DOMAIN ChoiceDefault[c]}
<1>2. prompts \subseteq Symbol
  BY <1>1, ExprAssumption, MemberFacts
<1>3. conds \subseteq Symbol
  BY <1>1, ChoiceAssumption
<1>4. ChoiceReads(c) = (prompts \cup conds) \ {c}
  BY DEF ChoiceReads
<1> HIDE DEF prompts, conds
<1> QED
  BY <1>2, <1>3, <1>4

LEMMA PickSame ==
  ASSUME TypeOK, TypeOK', OwnValues, NEW c \in Choice, UNCHANGED modules_val,
         defVal'[c] = defVal[c], \A r \in ChoiceReads(c) : curr'[r] = curr[r]
  PROVE  CalcChoice(c, SeenNow(c), ChoiceYes(c))' = CalcChoice(c, SeenNow(c), ChoiceYes(c))
<1> DEFINE after == [curr' EXCEPT ![c] = yes]
           seen == [m \in Symbol |-> CalcVisible(m, after)]
<1>1. c \in Symbol
  BY SymbolAssumption
<1>2. \A r \in ChoiceReads(c) \cup {c} : after[r] = ChoiceYes(c)[r]
  BY <1>1, ChoiceReadsSymbols DEF TypeOK, ChoiceYes
<1>3. ASSUME NEW m \in ElementsOf(Members[c]) PROVE seen[m] = SeenNow(c)[m]
  <2>1. m \in Symbol /\ SymbolsOf(Prompt[m]) \subseteq ChoiceReads(c) \cup {c}
    BY MemberFacts, PromptReads
  <2>2. CalcVisible(m, after) = CalcVisible(m, ChoiceYes(c))
    BY <1>2, <2>1, VisibleAgree
  <2> QED
    BY <2>1, <2>2 DEF SeenNow
<1>4. CalcChoice(c, SeenNow(c), ChoiceYes(c))' = CalcChoice(c, seen, after)
  BY DEF CalcChoice, SeenNow, ChoiceYes, CalcVisible, ChoiceDefaultSym
<1> HIDE DEF seen, after
<1>5. CalcChoice(c, seen, after) = CalcChoice(c, SeenNow(c), ChoiceYes(c))
  BY <1>2, <1>3, CalcChoiceAgree
<1> QED
  BY <1>4, <1>5

(* What is cached of k stays right while nothing it was calculated from      *)
(* changes.                                                                  *)
LEMMA RightKept ==
  ASSUME PlainChoices, TypeOK, TypeOK', OwnValues, NEW k \in Symbol, Right(k), SameFor(k),
         UNCHANGED modules_val,
         k \in Choice => /\ chosen'[k] = chosen[k] /\ defVal'[k] = defVal[k]
                         /\ TriNow(k) = yes => \A r \in ChoiceReads(k) : curr'[r] = curr[r],
         k \notin Choice => /\ defUser'[k] = defUser[k] /\ defTri'[k] = defTri[k]
                            /\ IsMember(k) => chosen'[ChoiceOf(k)] = chosen[ChoiceOf(k)]
  PROVE  Right(k)' /\ TriNow(k)' = TriNow(k)
<1>1. SeenRight(k)'
  BY SameForRight DEF Right
<1>2. CASE k \in Choice
  <2>1. TriNow(k)' = TriNow(k)
    BY <1>2, ChoiceTriSame DEF Right
  <2>2. TriNow(k) = yes => CalcChoice(k, SeenNow(k), ChoiceYes(k))'
                            = CalcChoice(k, SeenNow(k), ChoiceYes(k))
    BY <1>2, PickSame
  <2> HIDE DEF Right
  <2>3. ChosenRight(k)'
    BY <1>2, <2>1, <2>2 DEF Right, ChosenRight
  <2>4. ValueRight(k)'
    BY <1>2, <2>1 DEF Right, ValueRight, SameFor
  <2> QED
    BY <1>1, <2>1, <2>3, <2>4 DEF Right
<1>3. CASE k \notin Choice
  <2>1. TriNow(k)' = TriNow(k)
    BY <1>3, SameForRight
  <2>2. ValueRight(k)'
    BY <1>3, <2>1 DEF Right, ValueRight, SameFor
  <2> QED
    BY <1>1, <1>3, <2>1, <2>2 DEF Right
<1> QED
  BY <1>2, <1>3

LEMMA CalcSymbolRev ==
  ASSUME TypeOK, NEW s \in Symbol \ Choice, CalcSymbol(s)
  PROVE  \A r \in Member : rev_dep'[r] = rev_dep[r]
<1>1. /\ rev_dep' = [rev_dep EXCEPT ![s] = CalcRevDep(s, CalcVisible(s, curr), curr)]
      /\ IsMember(s) => CalcRevDep(s, CalcVisible(s, curr), curr) = rev_dep[s]
  BY DEF CalcSymbol, CalcRevDep
<1> QED
  BY <1>1, MemberHasChoice DEF TypeOK, IsMember

LEMMA PlainValuesInit == Init => ModulesVal /\ MemberRev /\ ChoicesRight
BY MemberHasChoice, SymbolAssumption
DEF Init, ModulesVal, MemberRev, ChoicesRight, AllNo, Unset

LEMMA RecalculateParts ==
  ASSUME TypeOK, NEW du, NEW dt, Recalculate(du, dt)
  PROVE  /\ valid' = [s \in Symbol |-> s = Modules] /\ UNCHANGED chosen
         /\ (ModulesVal /\ ChoicesRight)' /\ (MemberRev => MemberRev')
         /\ \A s \in Symbol : s # Modules => visible'[s] = visible[s] /\ rev_dep'[s] = rev_dep[s]
                                             /\ curr'[s] = curr[s]
<1>1. /\ valid' = [s \in Symbol |-> s = Modules] /\ UNCHANGED chosen
      /\ Modules \in Symbol \ Choice /\ Modules \notin Member
      /\ \E x : visible' = [visible EXCEPT ![Modules] = x]
      /\ \E x : rev_dep' = [rev_dep EXCEPT ![Modules] = x]
      /\ curr' = [curr EXCEPT ![Modules] = modules_val']
  BY SymbolAssumption, MemberHasChoice DEF Recalculate
<1>2. ModulesVal'
  BY <1>1 DEF TypeOK, ModulesVal
<1>3. ChoicesRight'
  BY <1>1, SymbolAssumption DEF ChoicesRight
<1>4. MemberRev => MemberRev'
  BY <1>1, MemberHasChoice DEF TypeOK, MemberRev
<1> QED
  BY <1>1, <1>2, <1>3, <1>4 DEF TypeOK

(* The valid symbols stay right when another is calculated.                  *)
LEMMA ChoicesCalcSymbol ==
  ASSUME PlainChoices, CoherentInv, ModulesVal, MemberRev, ChoicesRight, op # "start",
         NEW s \in Symbol \ Choice, CalcSymbol(s)
  PROVE  (ModulesVal /\ MemberRev /\ ChoicesRight)'
<1>0. TypeOK /\ TypeOK' /\ OwnValues /\ Settled /\ VisibleCoherent /\ ValuesRight
  BY CalcSymbolType DEF CoherentInv, SeenInv
<1>1. /\ ~valid[s] /\ valid' = [valid EXCEPT ![s] = TRUE]
      /\ UNCHANGED <<modules_val, chosen, defUser, defTri, defVal>>
      /\ \A r \in Symbol : valid[r] => SameFor(r)
      /\ \A r \in Symbol : r # s => curr'[r] = curr[r]
  BY <1>0, CalcSymbolSame
<1>2. ModulesVal'
  <2>1. s # Modules
    BY <1>0, <1>1, CalcSymbolSame DEF Settled, ModulesFirst
  <2> QED
    BY <1>1, <2>1, SymbolAssumption DEF ModulesVal
<1>3. MemberRev'
  BY <1>0, CalcSymbolRev DEF MemberRev
<1>4. ASSUME NEW c \in Choice, valid'[c]
      PROVE  ChosenRight(c)' /\ (TriNow(c)' = yes => \A r \in ChoiceReads(c) : valid'[r])
  <2>1. c \in Symbol /\ valid[c]
    BY <1>0, <1>1, <1>4, SymbolAssumption DEF TypeOK
  <2>2. SameFor(c) /\ Right(c)
    BY <1>0, <1>1, <2>1 DEF Right, VisibleCoherent, ValuesRight, ChoicesRight
  <2>3. TriNow(c) = yes => \A r \in ChoiceReads(c) : valid[r]
    BY <2>1 DEF ChoicesRight
  <2>4. TriNow(c) = yes => \A r \in ChoiceReads(c) : curr'[r] = curr[r]
    BY <1>1, <2>3, ChoiceReadsSymbols
  <2>5. Right(c)' /\ TriNow(c)' = TriNow(c)
    BY <1>0, <1>1, <2>1, <2>2, <2>4, RightKept
  <2>6. TriNow(c) = yes => \A r \in ChoiceReads(c) : valid'[r]
    BY <1>0, <1>1, <2>3, ChoiceReadsSymbols DEF TypeOK
  <2> QED
    BY <2>5, <2>6 DEF Right
<1>5. ChoicesRight'
  BY <1>4 DEF ChoicesRight, ChoiceReads
<1> QED
  BY <1>2, <1>3, <1>5

(* What sym_calc_choice picks is what it would pick now.                     *)
LEMMA PickNow ==
  ASSUME TypeOK, OwnValues, NEW c \in Choice, SeenRight(c)
  PROVE  /\ ChoiceVis(c) = visible[c] /\ ChoiceRev(c) = rev_dep[c] /\ ChoiceTri(c) = TriNow(c)
         /\ TriNow(c) = yes =>
              /\ WithTri(c) = ChoiceYes(c)
              /\ \A m \in ElementsOf(Members[c]) : Seen(c)[m] = SeenNow(c)[m]
         /\ Pick(c) = IF TriNow(c) = yes THEN CalcChoice(c, SeenNow(c), ChoiceYes(c)) ELSE None
<1>1. ChoiceVis(c) = visible[c] /\ ChoiceRev(c) = rev_dep[c] /\ ChoiceTri(c) = TriNow(c)
  BY DEF SeenRight, ChoiceVis, ChoiceRev, ChoiceTri, TriNow
<1>2. CASE TriNow(c) = yes
  <2>1. WithTri(c) = ChoiceYes(c)
    BY <1>1, <1>2 DEF WithTri, ChoiceYes
  <2>2. \A m \in ElementsOf(Members[c]) : Seen(c)[m] = SeenNow(c)[m]
    BY <1>1, <1>2, <2>1, MemberFacts DEF Seen, SeenNow
  <2>3. CalcChoice(c, Seen(c), WithTri(c)) = CalcChoice(c, SeenNow(c), ChoiceYes(c))
    BY <2>1, <2>2, CalcChoiceAgree
  <2> QED
    BY <1>1, <1>2, <2>1, <2>2, <2>3 DEF Pick
<1>3. CASE TriNow(c) # yes
  BY <1>1, <1>3 DEF Pick
<1> QED
  BY <1>1, <1>2, <1>3

(* A choice that has just been calculated is right.                          *)
LEMMA ChoicesCalcChoice ==
  ASSUME PlainChoices, CoherentInv, ModulesVal, MemberRev, ChoicesRight, op # "start",
         NEW c \in Choice, CalcChoiceSymbol(c), (SeenInv /\ ValuesRight)'
  PROVE  (ModulesVal /\ MemberRev /\ ChoicesRight)'
<1>0. /\ TypeOK /\ TypeOK' /\ OwnValues /\ OwnValues' /\ Settled /\ VisibleCoherent /\ ValuesRight
      /\ VisibleCoherent' /\ c \in Symbol /\ ~IsMember(c)
  <2>1. c \in Symbol /\ ~IsMember(c)
    BY SymbolAssumption, MemberHasChoice DEF IsMember
  <2> QED
    BY <2>1 DEF CoherentInv, SeenInv
<1>1. /\ ~valid[c] /\ valid' = [valid EXCEPT ![c] = TRUE]
      /\ UNCHANGED <<modules_val, defTri, defVal>>
      /\ \A r \in Symbol : valid[r] => SameFor(r)
      /\ \A r \in Symbol : r # c => curr'[r] = curr[r] /\ rev_dep'[r] = rev_dep[r]
      /\ \A d \in Choice : d # c => chosen'[d] = chosen[d]
  BY <1>0, CalcChoiceSymbolSame
<1>2. /\ ChoiceTri(c) = yes => \A r \in ChoiceReads(c) : valid[r]
      /\ visible' = Seen(c)
      /\ curr' = [curr EXCEPT ![c] =
                     IF ChoiceTri(c) = yes /\ Pick(c) = None THEN no ELSE ChoiceTri(c)]
      /\ chosen'[c] = Pick(c)
  <2>1. chosen' = [chosen EXCEPT ![c] = Pick(c)]
    BY CalcChoiceSymbolSteps
  <2> QED
    BY <1>0, <2>1, CalcChoiceSymbolSteps DEF TypeOK
<1>3. ModulesVal'
  BY <1>1, SymbolAssumption DEF ModulesVal
<1>4. MemberRev'
  BY <1>1, MemberHasChoice DEF MemberRev
<1>5. TriNow(c)' = ChoiceTri(c)
  BY ChoiceTriAfter DEF CoherentInv
<1>7. ChosenRight(c)'
  <2> DEFINE after == [curr' EXCEPT ![c] = yes]
             seen == [m \in Symbol |-> CalcVisible(m, after)]
  <2>1. CASE ChoiceTri(c) = yes
    <3>1. after = WithTri(c)
      <4>1. after = [curr EXCEPT ![c] = yes]
        BY <1>0, <1>2 DEF TypeOK
      <4> QED
        BY <2>1, <4>1 DEF WithTri
    <3>2. \A m \in ElementsOf(Members[c]) : seen[m] = Seen(c)[m]
      BY <2>1, <3>1, MemberFacts DEF Seen
    <3>3. CalcChoice(c, SeenNow(c), ChoiceYes(c))' = CalcChoice(c, seen, after)
      BY <1>1 DEF CalcChoice, SeenNow, ChoiceYes, CalcVisible, ChoiceDefaultSym
    <3> HIDE DEF seen, after
    <3>4. CalcChoice(c, seen, after) = CalcChoice(c, Seen(c), WithTri(c))
      BY <1>0, <3>1, <3>2, CalcChoiceAgree
    <3>5. chosen'[c] = CalcChoice(c, SeenNow(c), ChoiceYes(c))'
      BY <1>2, <2>1, <3>3, <3>4 DEF Pick
    <3> QED
      BY <1>5, <2>1, <3>5 DEF ChosenRight
  <2>2. CASE ChoiceTri(c) # yes
    <3>1. chosen'[c] = None
      BY <1>2, <2>2 DEF Pick
    <3> QED
      BY <1>5, <2>2, <3>1 DEF ChosenRight
  <2> QED
    BY <2>1, <2>2
<1>8. \A r \in Symbol : valid[r] => valid'[r]
  BY <1>0, <1>1 DEF TypeOK
<1>9. ASSUME NEW d \in Choice, valid'[d]
      PROVE  ChosenRight(d)' /\ (TriNow(d)' = yes => \A r \in ChoiceReads(d) : valid'[r])
  <2>1. CASE d = c
    BY <1>2, <1>5, <1>7, <1>8, <2>1, ChoiceReadsSymbols
  <2>2. CASE d # c
    <3>1. d \in Symbol /\ valid[d]
      BY <1>0, <1>1, <1>9, <2>2, SymbolAssumption DEF TypeOK
    <3>2. SameFor(d) /\ Right(d)
      BY <1>0, <1>1, <3>1 DEF Right, VisibleCoherent, ValuesRight, ChoicesRight
    <3>3. TriNow(d) = yes => \A r \in ChoiceReads(d) : valid[r]
      BY <3>1 DEF ChoicesRight
    <3>4. TriNow(d) = yes => \A r \in ChoiceReads(d) : curr'[r] = curr[r]
      BY <1>1, <3>3, ChoiceReadsSymbols
    <3>5. Right(d)' /\ TriNow(d)' = TriNow(d)
      BY <1>0, <1>1, <2>2, <3>1, <3>2, <3>4, RightKept
    <3> QED
      BY <1>8, <3>3, <3>5, ChoiceReadsSymbols DEF Right
  <2> QED
    BY <2>1, <2>2
<1>10. ChoicesRight'
  BY <1>9 DEF ChoicesRight, ChoiceReads
<1> QED
  BY <1>3, <1>4, <1>10

(* A visible choice value that is y is visible as y and the chosen one.      *)
LEMMA MemberYes ==
  ASSUME PlainDefaults, CoherentInv, MemberRev, NEW s \in Member,
         valid[s], visible[s] # no, curr[s] = yes
  PROVE  /\ visible[s] = yes /\ CalcVisible(s, curr) = yes
         /\ valid[ChoiceOf(s)] /\ curr[ChoiceOf(s)] = yes /\ chosen[ChoiceOf(s)] = s
<1> DEFINE c == ChoiceOf(s)
<1>1. TypeOK /\ Settled /\ VisibleCoherent /\ ValuesRight /\ SeenInv
  BY DEF CoherentInv, SeenInv
<1>2. /\ s \in Symbol \ Choice /\ IsMember(s) /\ c \in Choice /\ c \in Symbol /\ c \in Reads(s)
      /\ s \in ElementsOf(Members[c])
  BY MemberHasChoice, MemberFacts, SymbolAssumption DEF IsMember
<1>3. SeenRight(s) /\ ValueRight(s) /\ curr[s] = TriNow(s)
  BY <1>1, <1>2 DEF VisibleCoherent, ValuesRight, ValueRight
<1>4. visible[s] = yes
  <2>1. ASSUME visible[s] = mod PROVE FALSE
    <3>1. GetType(s, mod) = "tristate"
      BY <1>2, <1>3, <2>1 DEF SeenRight, CalcVisible, GetType, mod, yes
    <3>2. DefaultValue(s, curr) = no
      BY <1>2 DEF PlainDefaults, DefaultValue, LiveDefaults
    <3>3. defTri[s] \in Tristate
      BY <1>1, <1>2 DEF TypeOK
    <3>4. Or(And(defTri[s], mod), no) # yes /\ Or(no, no) # yes
      BY <3>3 DEF Or, And, Tristate, no, mod, yes
    <3>5. rev_dep[s] = no
      BY DEF MemberRev
    <3>6. TriNow(s) # yes
      BY <2>1, <3>1, <3>2, <3>4, <3>5 DEF TriNow, CalcTri, mod, yes
    <3> QED
      BY <1>3, <3>6
  <2>2. visible[s] \in Tristate
    BY <1>1, <1>2 DEF TypeOK
  <2> QED
    BY <2>1, <2>2 DEF Tristate
<1>5. CalcVisible(s, curr) = yes
  BY <1>3, <1>4 DEF SeenRight
<1>6. valid[c]
  BY <1>1, <1>2 DEF Settled, ReadsClosed
<1>7. curr[c] = yes
  BY <1>1, <1>5, <1>6, VisibleMember
<1>8. chosen[c] = s
  BY <1>2, <1>3, <1>4, MemberValue DEF TriNow
<1> QED
  BY <1>4, <1>5, <1>6, <1>7, <1>8

PlainInv == CoherentInv /\ ModulesVal /\ MemberRev /\ ChoicesRight

LEMMA PlainInvParts ==
  ASSUME PlainInv
  PROVE  /\ TypeOK /\ OwnValues /\ Settled /\ VisibleCoherent /\ ValuesRight /\ ModsOnly
         /\ SeenInv /\ MemberDt /\ CoherentInv /\ ModulesVal /\ MemberRev /\ ChoicesRight
BY DEF PlainInv, CoherentInv, SeenInv

LEMMA ValidRight ==
  ASSUME PlainInv, NEW k \in Symbol, valid[k]
  PROVE  Right(k)
BY PlainInvParts DEF VisibleCoherent, ValuesRight, ChoicesRight, Right

LEMMA SameCacheChoices ==
  ASSUME PlainChoices, PlainInv, TypeOK',
         UNCHANGED <<valid, curr, chosen, visible, rev_dep, modules_val, defVal>>
  PROVE  (ModulesVal /\ MemberRev /\ ChoicesRight)'
<1>1. ASSUME NEW c \in Choice, valid[c] PROVE ChosenRight(c)' /\ TriNow(c)' = TriNow(c)
  <2>1. c \in Symbol
    BY SymbolAssumption
  <2>2. SameFor(c)
    BY DEF SameFor
  <2> QED
    BY <1>1, <2>1, <2>2, ValidRight, PlainInvParts, RightKept DEF Right
<1>2. ModulesVal' /\ MemberRev'
  BY DEF PlainInv, ModulesVal, MemberRev
<1>3. ChoicesRight'
  BY <1>1 DEF PlainInv, ChoicesRight
<1> QED
  BY <1>2, <1>3

LEMMA CachedSetChoices ==
  ASSUME PlainChoices, PlainDefaults, PlainInv, TypeOK',
         NEW s \in Symbol, NEW val \in Tristate, Set(s, val), curr[s] = val,
         valid[s], visible[s] # no
  PROVE  (ModulesVal /\ MemberRev /\ ChoicesRight)'
<1>0. /\ UNCHANGED <<valid, curr, chosen, visible, rev_dep, modules_val>>
      /\ defVal' = [c \in Choice |-> IF (IsMember(s) /\ val = yes) /\ c = ChoiceOf(s)
                                     THEN s ELSE defVal[c]]
  BY DEF Set, cache
<1>1. ASSUME NEW c \in Choice, valid[c] PROVE ChosenRight(c)' /\ TriNow(c)' = TriNow(c)
  <2>1. c \in Symbol /\ SameFor(c) /\ Right(c)
    BY <1>0, <1>1, SymbolAssumption, ValidRight DEF SameFor
  <2>2. TriNow(c)' = TriNow(c)
    BY <1>0, <2>1, PlainInvParts, ChoiceTriSame DEF Right
  <2>3. CASE ~(IsMember(s) /\ val = yes /\ c = ChoiceOf(s))
    BY <1>0, <2>1, <2>3, PlainInvParts, RightKept DEF Right
  <2>4. CASE IsMember(s) /\ val = yes /\ c = ChoiceOf(s)
    <3>1. visible[s] = yes /\ CalcVisible(s, curr) = yes /\ curr[c] = yes /\ chosen[c] = s
      BY <2>4, PlainInvParts, MemberYes DEF IsMember
    <3>2. TriNow(c) = yes
      BY <2>1, <3>1 DEF Right, ValueRight, no, yes
    <3>3. ChoiceYes(c) = curr
      BY <2>1, <3>1, PlainInvParts DEF ChoiceYes, TypeOK
    <3>4. SeenNow(c)'[s] = yes
      <4>1. SeenNow(c)' = SeenNow(c)
        BY <1>0 DEF SeenNow, ChoiceYes, CalcVisible
      <4> QED
        BY <3>1, <3>3, <4>1 DEF SeenNow
    <3>5. defVal'[c] = s /\ s # None
      BY <1>0, <2>4, SymbolAssumption
    <3>6. CalcChoice(c, SeenNow(c), ChoiceYes(c))' = s
      BY <3>4, <3>5 DEF CalcChoice, no, yes
    <3> QED
      BY <1>0, <2>2, <3>1, <3>2, <3>6 DEF ChosenRight
  <2> QED
    BY <2>2, <2>3, <2>4
<1>2. ModulesVal' /\ MemberRev'
  BY <1>0 DEF PlainInv, ModulesVal, MemberRev
<1>3. ChoicesRight'
  BY <1>0, <1>1 DEF PlainInv, ChoicesRight
<1> QED
  BY <1>2, <1>3

LEMMA PlainInvInit == Init => PlainInv
BY CoherentInvInit, PlainValuesInit DEF PlainInv

LEMMA PlainInvStep ==
  ASSUME PlainChoices, PlainDefaults, PlainInv, [Next]_vars
  PROVE  PlainInv'
<1>0. CoherentInv' /\ TypeOK'
  BY PlainInvParts, CoherentInvStep, TypeStep
<1>00. TypeOK /\ OwnValues
  BY PlainInvParts
<1> SUFFICES (ModulesVal /\ MemberRev /\ ChoicesRight)'
  BY <1>0 DEF PlainInv
<1>1. ASSUME NEW s \in Symbol \ Choice, CalcSymbol(s), op # "start"
      PROVE  (ModulesVal /\ MemberRev /\ ChoicesRight)'
  BY <1>1, PlainInvParts, ChoicesCalcSymbol
<1>2. ASSUME NEW c \in Choice, CalcChoiceSymbol(c), op # "start"
      PROVE  (ModulesVal /\ MemberRev /\ ChoicesRight)'
  BY <1>0, <1>2, PlainInvParts, ChoicesCalcChoice DEF CoherentInv
<1>3. CASE CalcValue
  BY <1>1, <1>2, <1>3 DEF CalcValue
<1>4. ASSUME NEW du, NEW dt, Recalculate(du, dt)
      PROVE  (ModulesVal /\ MemberRev /\ ChoicesRight)'
  BY <1>4, PlainInvParts, RecalculateParts
<1>5. ASSUME NEW s \in Symbol, NEW val \in Tristate, Set(s, val), valid[s], visible[s] # no
      PROVE  (ModulesVal /\ MemberRev /\ ChoicesRight)'
  <2>1. CASE curr[s] # val
    BY <1>4, <1>5, <2>1 DEF Set
  <2>2. CASE curr[s] = val
    BY <1>0, <1>5, <2>2, CachedSetChoices
  <2> QED
    BY <2>1, <2>2
<1>6. ASSUME NEW s \in Symbol, NEW val \in Tristate, SetTristate(s, val)
      PROVE  (ModulesVal /\ MemberRev /\ ChoicesRight)'
  BY <1>5, <1>6 DEF SetTristate, Editable
<1>7. ASSUME NEW s \in Symbol, Toggle(s) PROVE (ModulesVal /\ MemberRev /\ ChoicesRight)'
  BY <1>00, <1>5, <1>7, ToggledType DEF Toggle, Editable
<1>8. CASE ReadStart \/ \E f \in HandMade \cup {file} : Load(f)
  BY <1>00, <1>4, <1>8, RecalculatingSteps
<1>9. CASE ReadMissing \/ (WriteStart /\ ~changed)
  BY <1>00, <1>4, <1>9, RecalculatingSteps
<1>10. CASE ReadFinish \/ (WriteStart /\ changed) \/ WriteFinish \/ UNCHANGED vars
  <2>1. UNCHANGED <<valid, curr, chosen, visible, rev_dep, modules_val, defVal>>
    BY <1>10 DEF ReadFinish, WriteStart, WriteFinish, Emitted, vars, cache, user
  <2> QED
    BY <1>0, <2>1, SameCacheChoices
<1>11. CASE Restart
  BY <1>11, SymbolAssumption, MemberHasChoice
  DEF Restart, ModulesVal, MemberRev, ChoicesRight, AllNo, Unset
<1> QED
  BY <1>3, <1>6, <1>7, <1>8, <1>9, <1>10, <1>11 DEF Next

(* A set of symbols, stale or not, that is right as it stands and reads      *)
(* nothing else.                                                             *)
Closed(K) ==
  \A k \in K : /\ Reads(k) \subseteq K /\ Right(k)
               /\ k \in Choice /\ TriNow(k) = yes => ChoiceReads(k) \subseteq K

(* Why the symbol s that was set to val has or will have that value: it is   *)
(* already right, or a calculation will give it, or it has become the user's *)
(* choice in a choice that is y.                                             *)
HasIt(K, s, val) == s \in K /\ curr[s] = val
WillHaveIt(K, s, val) ==
  /\ s \in Symbol \ Choice /\ Reads(s) \subseteq K
  /\ SeenRight(s) /\ TriNow(s) = val /\ (valid[s] => curr[s] = val)
WillBeChosen(K, s, val) ==
  LET c == ChoiceOf(s)
  IN  /\ s \in Member /\ val = yes
      /\ c \notin K /\ Reads(c) \subseteq K /\ ChoiceReads(c) \subseteq K
      /\ SeenRight(c) /\ curr[c] = yes /\ TriNow(c) = yes /\ defVal[c] = s
      /\ CalcVisible(s, curr) = yes
      /\ valid[c] => chosen[c] = s
      /\ valid[s] => valid[c] /\ curr[s] = yes

Stuck(s, val) ==
  \E K \in SUBSET Symbol :
    Closed(K) /\ (HasIt(K, s, val) \/ WillHaveIt(K, s, val) \/ WillBeChosen(K, s, val))

StickInv ==
  \A s \in Symbol, val \in Tristate : asked # None /\ asked = [sym |-> s, val |-> val] =>
    op \in {"idle", "writing"} /\ Stuck(s, val)

(* What a step leaves alone of the symbols in K.                             *)
Frame(K) ==
  /\ UNCHANGED modules_val
  /\ \A k \in K :
       /\ visible'[k] = visible[k] /\ rev_dep'[k] = rev_dep[k] /\ curr'[k] = curr[k]
       /\ k \in Choice => chosen'[k] = chosen[k] /\ defVal'[k] = defVal[k]
       /\ k \notin Choice => defUser'[k] = defUser[k] /\ defTri'[k] = defTri[k]

LEMMA MemberChoiceIn ==
  ASSUME NEW k \in Symbol, IsMember(k)
  PROVE  /\ ChoiceOf(k) \in Reads(k) /\ ChoiceOf(k) \in Choice /\ ChoiceOf(k) \in Symbol
         /\ k \in ElementsOf(Members[ChoiceOf(k)]) /\ k \in Member /\ k \notin Choice
BY MemberHasChoice, MemberFacts, SymbolAssumption DEF IsMember

LEMMA ClosedKept ==
  ASSUME PlainChoices, TypeOK, TypeOK', OwnValues, NEW K \in SUBSET Symbol, Closed(K), Frame(K)
  PROVE  Closed(K)'
<1> SUFFICES ASSUME NEW k \in K PROVE Right(k)' /\ TriNow(k)' = TriNow(k)
  BY DEF Closed, Reads, DefaultReads, ChoiceReads
<1>1. Reads(k) \subseteq K /\ Right(k)
      /\ (k \in Choice /\ TriNow(k) = yes => ChoiceReads(k) \subseteq K)
  BY DEF Closed
<1>2. SameFor(k)
  BY <1>1 DEF Frame, SameFor
<1>3. IsMember(k) => chosen'[ChoiceOf(k)] = chosen[ChoiceOf(k)]
  BY <1>1, MemberChoiceIn DEF Frame
<1>4. TriNow(k) = yes /\ k \in Choice => \A r \in ChoiceReads(k) : curr'[r] = curr[r]
  BY <1>1 DEF Frame
<1> QED
  BY <1>1, <1>2, <1>3, <1>4, RightKept DEF Frame

LEMMA ReadersKept ==
  ASSUME TypeOK, TypeOK', NEW K \in SUBSET Symbol, Frame(K),
         NEW s \in Symbol \ Choice, Reads(s) \subseteq K, SeenRight(s),
         visible'[s] = visible[s], rev_dep'[s] = rev_dep[s],
         defUser'[s] = defUser[s], defTri'[s] = defTri[s]
  PROVE  SeenRight(s)' /\ TriNow(s)' = TriNow(s)
<1>1. \A r \in Reads(s) : curr'[r] = curr[r]
  BY DEF Frame
<1>2. /\ CalcVisible(s, curr') = CalcVisible(s, curr)
      /\ CalcRevDep(s, visible[s], curr') = CalcRevDep(s, visible[s], curr)
      /\ DefaultValue(s, curr') = DefaultValue(s, curr)
  BY <1>1, CalcsAgree
<1>3. /\ CalcVisible(s, curr)' = CalcVisible(s, curr')
      /\ CalcRevDep(s, visible[s], curr)' = CalcRevDep(s, visible[s], curr')
      /\ DefaultValue(s, curr)' = DefaultValue(s, curr')
  BY DEF CalcVisible, CalcRevDep, GetType, DefaultValue, LiveDefaults, Frame
<1>4. IsMember(s) => chosen'[ChoiceOf(s)] = chosen[ChoiceOf(s)]
  BY MemberChoiceIn DEF Frame
<1>5. SeenRight(s)'
  BY <1>2, <1>3 DEF SeenRight
<1>6. TriNow(s)' = TriNow(s)
  BY <1>2, <1>3, <1>4 DEF TriNow, CalcTri, GetType, Frame, IsMember
<1> QED
  BY <1>5, <1>6

(* A calculation of a symbol of K changes nothing.                           *)
LEMMA CalcSymbolFrame ==
  ASSUME TypeOK, Settled, op # "start", NEW K \in SUBSET Symbol, Closed(K),
         NEW r \in Symbol \ Choice, CalcSymbol(r)
  PROVE  Frame(K)
<1>1. /\ UNCHANGED <<modules_val, chosen, defUser, defTri, defVal>>
      /\ \A k \in Symbol : k # r => visible'[k] = visible[k] /\ curr'[k] = curr[k]
                                    /\ rev_dep'[k] = rev_dep[k]
  BY CalcSymbolSame
<1>2. ASSUME r \in K
      PROVE  visible'[r] = visible[r] /\ rev_dep'[r] = rev_dep[r] /\ curr'[r] = curr[r]
  <2>1. Right(r)
    BY <1>2 DEF Closed
  <2>2. /\ CalcVisible(r, curr) = visible[r] /\ CalcRevDep(r, visible[r], curr) = rev_dep[r]
        /\ CalcTri(r, visible[r], rev_dep[r], defUser, defTri, curr) = curr[r]
    BY <2>1 DEF Right, SeenRight, ValueRight, TriNow
  <2> QED
    BY <2>2 DEF CalcSymbol, TypeOK
<1> QED
  BY <1>1, <1>2 DEF Frame

(* A choice value is invisible while its choice is n.                        *)
LEMMA MemberUnseen ==
  ASSUME TypeOK, NEW c \in Choice, NEW m \in ElementsOf(Members[c]), curr[c] = no
  PROVE  CalcVisible(m, curr) = no
<1>1. \A v \in [Symbol -> Tristate] : Eval(Prompt[m], v) <= v[c]
  BY ChoiceAssumption
<1>2. curr \in [Symbol -> Tristate]
  BY DEF TypeOK
<1>3. Eval(Prompt[m], curr) <= no /\ Eval(Prompt[m], curr) \in Tristate
  BY <1>1, <1>2, EvalType
<1>4. Eval(Prompt[m], curr) = no
  BY <1>3 DEF Tristate, no, mod, yes
<1> QED
  BY <1>4 DEF CalcVisible, no, mod

(* What the calculation of a right choice makes visible is visible.          *)
LEMMA RightChoiceSeen ==
  ASSUME TypeOK, OwnValues, NEW c \in Choice, Right(c),
         NEW m \in ElementsOf(Members[c]), visible[m] = CalcVisible(m, curr)
  PROVE  Seen(c)[m] = visible[m]
<1>0. m \in Symbol /\ m # c /\ c \in Symbol /\ SeenRight(c)
  BY MemberFacts, SymbolAssumption DEF Right
<1>1. CASE TriNow(c) # yes
  BY <1>0, <1>1, PickNow DEF Seen
<1>2. CASE TriNow(c) = yes
  <2>1. Seen(c)[m] = CalcVisible(m, ChoiceYes(c)) /\ Seen(c)[m] = SeenNow(c)[m]
    BY <1>0, <1>2, PickNow DEF SeenNow
  <2>2. CASE chosen[c] # None
    <3>1. curr[c] = yes
      BY <1>0, <1>2, <2>2 DEF Right, ValueRight
    <3>2. ChoiceYes(c) = curr
      BY <1>0, <3>1 DEF ChoiceYes, TypeOK
    <3> QED
      BY <2>1, <3>2
  <2>3. CASE chosen[c] = None
    <3>1. curr[c] = no
      BY <1>2, <2>3 DEF Right, ValueRight
    <3>2. visible[m] = no
      BY <3>1, MemberUnseen
    <3>3. CalcChoice(c, SeenNow(c), ChoiceYes(c)) = None
      BY <1>2, <2>3 DEF Right, ChosenRight
    <3>4. SeenNow(c)[m] = no
      BY <3>3, NothingPicked
    <3> QED
      BY <2>1, <3>2, <3>4
  <2> QED
    BY <2>2, <2>3
<1> QED
  BY <1>1, <1>2

LEMMA CalcChoiceFrame ==
  ASSUME TypeOK, OwnValues, Settled, op # "start", NEW K \in SUBSET Symbol, Closed(K),
         NEW d \in Choice, CalcChoiceSymbol(d)
  PROVE  /\ Frame(K)
         /\ \A m \in Symbol \ {d} :
              m \notin ElementsOf(Members[d]) \/ (d \in K /\ visible[m] = CalcVisible(m, curr))
              => visible'[m] = visible[m]
<1>1. /\ UNCHANGED <<modules_val, defTri, defVal>>
      /\ \A r \in Symbol : r # d => curr'[r] = curr[r] /\ rev_dep'[r] = rev_dep[r]
                                    /\ defUser'[r] = defUser[r]
      /\ \A c \in Choice : c # d => chosen'[c] = chosen[c]
  BY CalcChoiceSymbolSame
<1>2. /\ visible' = Seen(d)
      /\ rev_dep' = [rev_dep EXCEPT ![d] = ChoiceRev(d)]
      /\ chosen' = [chosen EXCEPT ![d] = Pick(d)]
      /\ curr' = [curr EXCEPT ![d] =
                     IF ChoiceTri(d) = yes /\ Pick(d) = None THEN no ELSE ChoiceTri(d)]
      /\ d \in Symbol
  BY CalcChoiceSymbolSteps, SymbolAssumption
<1>3. ASSUME NEW m \in Symbol \ {d},
             m \notin ElementsOf(Members[d]) \/ (d \in K /\ visible[m] = CalcVisible(m, curr))
      PROVE  visible'[m] = visible[m]
  <2>1. CASE m \notin ElementsOf(Members[d])
    BY <1>2, <2>1 DEF Seen
  <2>2. CASE m \in ElementsOf(Members[d])
    BY <1>2, <1>3, <2>2, RightChoiceSeen DEF Closed
  <2> QED
    BY <2>1, <2>2
<1>4. ASSUME d \in K
      PROVE  /\ visible'[d] = visible[d] /\ rev_dep'[d] = rev_dep[d]
             /\ curr'[d] = curr[d] /\ chosen'[d] = chosen[d]
  <2>1. Right(d) /\ SeenRight(d)
    BY <1>4 DEF Closed, Right
  <2>2. ChoiceVis(d) = visible[d] /\ ChoiceRev(d) = rev_dep[d] /\ ChoiceTri(d) = TriNow(d)
    BY <2>1, PickNow
  <2>3. Pick(d) = chosen[d]
    BY <2>1, PickNow DEF Right, ChosenRight
  <2>4. curr[d] = IF ChoiceTri(d) = yes /\ Pick(d) = None THEN no ELSE ChoiceTri(d)
    BY <2>1, <2>2, <2>3 DEF Right, ValueRight
  <2> QED
    BY <1>2, <2>2, <2>3, <2>4 DEF TypeOK, Seen
<1>5. ASSUME NEW k \in K, k # d PROVE visible'[k] = visible[k]
  <2>1. CASE k \in ElementsOf(Members[d])
    <3>1. d \in Reads(k)
      BY <2>1, MemberFacts
    <3>2. d \in K /\ SeenRight(k)
      BY <3>1 DEF Closed, Right
    <3> QED
      BY <1>3, <1>5, <3>2 DEF SeenRight
  <2>2. CASE k \notin ElementsOf(Members[d])
    BY <1>3, <1>5, <2>2
  <2> QED
    BY <2>1, <2>2
<1>6. Frame(K)
  <2> SUFFICES ASSUME NEW k \in K
               PROVE  /\ visible'[k] = visible[k] /\ rev_dep'[k] = rev_dep[k] /\ curr'[k] = curr[k]
                      /\ k \in Choice => chosen'[k] = chosen[k] /\ defVal'[k] = defVal[k]
                      /\ k \notin Choice => defUser'[k] = defUser[k] /\ defTri'[k] = defTri[k]
    BY <1>1 DEF Frame
  <2>1. CASE k = d
    BY <1>1, <1>4, <2>1
  <2>2. CASE k # d
    BY <1>1, <1>5, <2>2
  <2> QED
    BY <2>1, <2>2
<1> QED
  BY <1>3, <1>6

(* What becomes of the user's choice while its choice and what it reads are  *)
(* left alone.                                                               *)
LEMMA ChosenKept ==
  ASSUME PlainChoices, TypeOK, TypeOK', NEW K \in SUBSET Symbol, Frame(K),
         NEW s, NEW val, WillBeChosen(K, s, val),
         visible'[ChoiceOf(s)] = visible[ChoiceOf(s)], rev_dep'[ChoiceOf(s)] = rev_dep[ChoiceOf(s)],
         curr'[ChoiceOf(s)] = curr[ChoiceOf(s)]
  PROVE  /\ SeenRight(ChoiceOf(s))' /\ TriNow(ChoiceOf(s))' = yes
         /\ CalcVisible(s, curr)' = yes
<1> DEFINE c == ChoiceOf(s)
<1>1. /\ s \in Member /\ Reads(c) \subseteq K /\ ChoiceReads(c) \subseteq K
      /\ SeenRight(c) /\ TriNow(c) = yes /\ CalcVisible(s, curr) = yes
  BY DEF WillBeChosen
<1>2. c \in Choice /\ c \in Symbol /\ s \in ElementsOf(Members[c])
  BY <1>1, MemberHasChoice, SymbolAssumption
<1>3. SameFor(c) /\ UNCHANGED modules_val
  BY <1>1 DEF Frame, SameFor
<1>4. SeenRight(c)'
  BY <1>1, <1>2, <1>3, SameForRight
<1>5. TriNow(c)' = yes
  BY <1>1, <1>2, <1>3, ChoiceTriSame
<1>6. \A r \in SymbolsOf(Prompt[s]) : curr'[r] = curr[r]
  BY <1>1, <1>2, PromptReads DEF Frame
<1>7. CalcVisible(s, curr') = CalcVisible(s, curr)
  BY <1>6, VisibleAgree
<1>8. CalcVisible(s, curr)' = CalcVisible(s, curr')
  BY <1>3 DEF CalcVisible
<1> QED
  BY <1>1, <1>4, <1>5, <1>7, <1>8

LEMMA StuckCalcSymbol ==
  ASSUME PlainChoices, PlainInv, op # "start", NEW s \in Symbol, NEW val \in Tristate,
         Stuck(s, val), NEW r \in Symbol \ Choice, CalcSymbol(r)
  PROVE  Stuck(s, val)'
<1>0. TypeOK /\ TypeOK' /\ OwnValues /\ Settled
  BY PlainInvParts, CalcSymbolType
<1>1. PICK K \in SUBSET Symbol :
        /\ Closed(K)
        /\ HasIt(K, s, val) \/ WillHaveIt(K, s, val) \/ WillBeChosen(K, s, val)
  BY DEF Stuck
<1>2. Frame(K) /\ Closed(K)'
  BY <1>0, <1>1, CalcSymbolFrame, ClosedKept
<1>3. /\ valid' = [valid EXCEPT ![r] = TRUE] /\ \A q \in Reads(r) : valid[q]
      /\ visible'[r] = CalcVisible(r, curr)
      /\ rev_dep'[r] = CalcRevDep(r, visible'[r], curr)
      /\ curr'[r] = CalcTri(r, visible'[r], rev_dep'[r], defUser, defTri, curr)
  BY <1>0 DEF CalcSymbol, TypeOK
<1>4. /\ UNCHANGED <<modules_val, chosen, defUser, defTri, defVal>>
      /\ \A k \in Symbol : k # r => visible'[k] = visible[k] /\ curr'[k] = curr[k]
                                    /\ rev_dep'[k] = rev_dep[k]
  BY <1>0, CalcSymbolSame
<1>5. \A k \in Symbol : k # r => valid'[k] = valid[k]
  BY <1>0, <1>3 DEF TypeOK
<1> SUFFICES (HasIt(K, s, val) \/ WillHaveIt(K, s, val) \/ WillBeChosen(K, s, val))'
  BY <1>2 DEF Stuck
<1>6. CASE HasIt(K, s, val)
  BY <1>2, <1>6 DEF HasIt, Frame
<1>7. CASE WillHaveIt(K, s, val)
  <2>1. s \in Symbol \ Choice /\ Reads(s) \subseteq K /\ SeenRight(s) /\ TriNow(s) = val
    BY <1>7 DEF WillHaveIt
  <2>2. visible'[s] = visible[s] /\ rev_dep'[s] = rev_dep[s]
    BY <1>3, <1>4, <2>1 DEF SeenRight
  <2>3. SeenRight(s)' /\ TriNow(s)' = TriNow(s)
    BY <1>0, <1>2, <1>4, <2>1, <2>2, ReadersKept
  <2>4. valid'[s] => curr'[s] = val
    <3>1. CASE r = s
      BY <1>3, <2>1, <2>2, <3>1 DEF TriNow
    <3>2. CASE r # s
      BY <1>4, <1>5, <1>7, <3>2 DEF WillHaveIt
    <3> QED
      BY <3>1, <3>2
  <2> QED
    BY <2>1, <2>3, <2>4 DEF WillHaveIt, Reads, DefaultReads
<1>8. CASE WillBeChosen(K, s, val)
  <2> DEFINE c == ChoiceOf(s)
  <2>1. /\ s \in Member /\ val = yes /\ c \notin K /\ Reads(c) \subseteq K
        /\ ChoiceReads(c) \subseteq K /\ curr[c] = yes /\ defVal[c] = s
        /\ CalcVisible(s, curr) = yes
        /\ valid[c] => chosen[c] = s
        /\ valid[s] => valid[c] /\ curr[s] = yes
    BY <1>8 DEF WillBeChosen
  <2>2. c \in Choice /\ c \in Symbol /\ c \in Reads(s) /\ c # r /\ s \in Symbol
    BY <2>1, MemberHasChoice, MemberFacts, SymbolAssumption
  <2>3. SeenRight(c)' /\ TriNow(c)' = yes /\ CalcVisible(s, curr)' = yes
    BY <1>0, <1>2, <1>4, <1>8, <2>2, ChosenKept
  <2>4. curr'[c] = yes /\ defVal'[c] = s /\ (valid'[c] => chosen'[c] = s)
    BY <1>4, <1>5, <2>1, <2>2
  <2>5. valid'[s] => valid'[c] /\ curr'[s] = yes
    <3>1. CASE r = s
      <4>1. valid[c] /\ chosen[c] = s /\ valid'[c]
        BY <1>3, <1>5, <2>1, <2>2, <3>1
      <4>2. visible'[s] = yes
        BY <1>3, <2>1, <3>1
      <4>3. CalcTri(s, yes, rev_dep'[s], defUser, defTri, curr) = yes
        BY <2>1, <4>1, MemberValue
      <4> QED
        BY <1>3, <3>1, <4>1, <4>2, <4>3
    <3>2. CASE r # s
      BY <1>4, <1>5, <2>1, <2>2, <3>2
    <3> QED
      BY <3>1, <3>2
  <2>6. Reads(c)' = Reads(c) /\ ChoiceReads(c)' = ChoiceReads(c)
    BY DEF Reads, DefaultReads, ChoiceReads
  <2> QED
    BY <2>1, <2>3, <2>4, <2>5, <2>6 DEF WillBeChosen
<1> QED
  BY <1>1, <1>6, <1>7, <1>8

LEMMA StuckCalcChoice ==
  ASSUME PlainChoices, PlainInv, op # "start", NEW s \in Symbol, NEW val \in Tristate,
         Stuck(s, val), NEW d \in Choice, CalcChoiceSymbol(d)
  PROVE  Stuck(s, val)'
<1>0. TypeOK /\ TypeOK' /\ OwnValues /\ Settled /\ d \in Symbol
  BY PlainInvParts, CalcChoiceSymbolType, SymbolAssumption
<1>1. PICK K \in SUBSET Symbol :
        /\ Closed(K)
        /\ HasIt(K, s, val) \/ WillHaveIt(K, s, val) \/ WillBeChosen(K, s, val)
  BY DEF Stuck
<1>2. /\ Frame(K) /\ Closed(K)'
      /\ \A m \in Symbol \ {d} :
           m \notin ElementsOf(Members[d]) \/ (d \in K /\ visible[m] = CalcVisible(m, curr))
           => visible'[m] = visible[m]
  BY <1>0, <1>1, CalcChoiceFrame, ClosedKept
<1>3. /\ ~valid[d] /\ valid' = [valid EXCEPT ![d] = TRUE]
      /\ UNCHANGED <<modules_val, defTri, defVal>>
      /\ \A r \in Symbol : r # d => curr'[r] = curr[r] /\ rev_dep'[r] = rev_dep[r]
                                    /\ defUser'[r] = defUser[r]
      /\ \A c \in Choice : c # d => chosen'[c] = chosen[c]
      /\ \A m \in ElementsOf(Members[d]) : ~valid[m] /\ ~valid'[m]
  BY <1>0, CalcChoiceSymbolSame
<1>4. \A k \in Symbol : k # d => valid'[k] = valid[k]
  BY <1>0, <1>3 DEF TypeOK
<1> SUFFICES (HasIt(K, s, val) \/ WillHaveIt(K, s, val) \/ WillBeChosen(K, s, val))'
  BY <1>2 DEF Stuck
<1>5. CASE HasIt(K, s, val)
  BY <1>2, <1>5 DEF HasIt, Frame
<1>6. CASE WillHaveIt(K, s, val)
  <2>1. s \in Symbol \ Choice /\ Reads(s) \subseteq K /\ SeenRight(s) /\ TriNow(s) = val /\ s # d
    BY <1>6 DEF WillHaveIt
  <2>2. visible'[s] = visible[s] /\ rev_dep'[s] = rev_dep[s]
    <3>1. s \in ElementsOf(Members[d]) => d \in K
      BY <2>1, MemberFacts
    <3> QED
      BY <1>2, <1>3, <2>1, <3>1 DEF SeenRight
  <2>3. SeenRight(s)' /\ TriNow(s)' = TriNow(s)
    BY <1>0, <1>2, <1>3, <2>1, <2>2, ReadersKept
  <2>4. valid'[s] => curr'[s] = val
    BY <1>3, <1>4, <1>6, <2>1 DEF WillHaveIt
  <2> QED
    BY <2>1, <2>3, <2>4 DEF WillHaveIt, Reads, DefaultReads
<1>7. CASE WillBeChosen(K, s, val)
  <2> DEFINE c == ChoiceOf(s)
  <2>1. /\ s \in Member /\ val = yes /\ c \notin K /\ Reads(c) \subseteq K
        /\ ChoiceReads(c) \subseteq K /\ curr[c] = yes /\ TriNow(c) = yes /\ defVal[c] = s
        /\ CalcVisible(s, curr) = yes /\ SeenRight(c)
        /\ valid[c] => chosen[c] = s
        /\ valid[s] => valid[c] /\ curr[s] = yes
    BY <1>7 DEF WillBeChosen
  <2>2. /\ c \in Choice /\ c \in Symbol /\ s \in Symbol \ Choice /\ s # d
        /\ s \in ElementsOf(Members[c])
    BY <2>1, MemberHasChoice, SymbolAssumption
  <2>3. /\ visible'[c] = visible[c] /\ rev_dep'[c] = rev_dep[c] /\ curr'[c] = curr[c]
        /\ valid'[c] => chosen'[c] = s
    <3>1. CASE c = d
      <4>1. ChoiceVis(c) = visible[c] /\ ChoiceRev(c) = rev_dep[c] /\ ChoiceTri(c) = yes
            /\ Seen(c)[s] = SeenNow(c)[s]
        BY <1>0, <2>1, <2>2, PickNow
      <4>2. ChoiceYes(c) = curr
        BY <1>0, <2>1, <2>2 DEF ChoiceYes, TypeOK
      <4>3. Seen(c)[s] = yes
        BY <2>1, <2>2, <4>1, <4>2 DEF SeenNow
      <4>4. s # None
        BY <2>2, SymbolAssumption
      <4>5. Pick(c) = s
        BY <2>1, <4>1, <4>3, <4>4 DEF Pick, CalcChoice, no, yes
      <4>6. /\ visible' = Seen(c)
            /\ rev_dep' = [rev_dep EXCEPT ![c] = ChoiceRev(c)]
            /\ chosen' = [chosen EXCEPT ![c] = Pick(c)]
            /\ curr' = [curr EXCEPT ![c] =
                          IF ChoiceTri(c) = yes /\ Pick(c) = None THEN no ELSE ChoiceTri(c)]
        BY <3>1, CalcChoiceSymbolSteps
      <4> QED
        BY <1>0, <2>1, <2>2, <4>1, <4>4, <4>5, <4>6 DEF TypeOK, Seen
    <3>2. CASE c # d
      <4>1. c \notin ElementsOf(Members[d])
        BY <2>2, MemberFacts
      <4> QED
        BY <1>2, <1>3, <1>4, <2>1, <2>2, <3>2, <4>1
    <3> QED
      BY <3>1, <3>2
  <2>4. SeenRight(c)' /\ TriNow(c)' = yes /\ CalcVisible(s, curr)' = yes
    BY <1>0, <1>2, <1>7, <2>3, ChosenKept
  <2>5. valid'[s] => valid'[c] /\ curr'[s] = yes
    <3>1. valid'[s] => valid[s] /\ curr'[s] = curr[s]
      BY <1>3, <1>4, <2>2
    <3>2. valid[c] => valid'[c]
      BY <1>0, <1>3, <2>2 DEF TypeOK
    <3> QED
      BY <2>1, <3>1, <3>2
  <2>6. Reads(c)' = Reads(c) /\ ChoiceReads(c)' = ChoiceReads(c)
    BY DEF Reads, DefaultReads, ChoiceReads
  <2> QED
    BY <1>3, <2>1, <2>3, <2>4, <2>5, <2>6 DEF WillBeChosen
<1> QED
  BY <1>1, <1>5, <1>6, <1>7

(* A step that leaves the values and the user settings alone, and may make   *)
(* symbols stale.                                                            *)
LEMMA StuckSame ==
  ASSUME PlainChoices, PlainInv, TypeOK', NEW s \in Symbol, NEW val \in Tristate, Stuck(s, val),
         UNCHANGED <<curr, chosen, visible, rev_dep, modules_val, user>>,
         \A r \in Symbol : valid'[r] => valid[r],
         s \in Member /\ valid'[s] => valid'[ChoiceOf(s)]
  PROVE  Stuck(s, val)'
<1>0. TypeOK /\ OwnValues
  BY PlainInvParts
<1>1. PICK K \in SUBSET Symbol :
        /\ Closed(K)
        /\ HasIt(K, s, val) \/ WillHaveIt(K, s, val) \/ WillBeChosen(K, s, val)
  BY DEF Stuck
<1>2. Frame(K)
  BY DEF Frame, user
<1>3. Closed(K)'
  BY <1>0, <1>1, <1>2, ClosedKept
<1> SUFFICES (HasIt(K, s, val) \/ WillHaveIt(K, s, val) \/ WillBeChosen(K, s, val))'
  BY <1>3 DEF Stuck
<1>4. CASE HasIt(K, s, val)
  BY <1>4 DEF HasIt
<1>5. CASE WillHaveIt(K, s, val)
  <2>1. SeenRight(s)' /\ TriNow(s)' = TriNow(s)
    BY <1>0, <1>2, <1>5, ReadersKept DEF WillHaveIt, user
  <2> QED
    BY <1>5, <2>1 DEF WillHaveIt, Reads, DefaultReads
<1>6. CASE WillBeChosen(K, s, val)
  <2>1. SeenRight(ChoiceOf(s))' /\ TriNow(ChoiceOf(s))' = yes /\ CalcVisible(s, curr)' = yes
    BY <1>0, <1>2, <1>6, ChosenKept
  <2>2. ChoiceOf(s) \in Symbol
    BY <1>6, MemberHasChoice, SymbolAssumption DEF WillBeChosen
  <2>3. Reads(ChoiceOf(s))' = Reads(ChoiceOf(s)) /\ ChoiceReads(ChoiceOf(s))' = ChoiceReads(ChoiceOf(s))
    BY DEF Reads, DefaultReads, ChoiceReads
  <2> QED
    BY <1>6, <2>1, <2>2, <2>3 DEF WillBeChosen, user
<1> QED
  BY <1>1, <1>4, <1>5, <1>6

(* An accepted value is what a calculation makes of it.                      *)
LEMMA AcceptedValue ==
  ASSUME TypeOK, NEW s \in Symbol \ Choice, NEW val \in Tristate, WithinRange(s, val),
         ~(IsMember(s) /\ visible[s] = yes),
         NEW du, NEW dt, du[s] = TRUE, dt[s] = val
  PROVE  CalcTri(s, visible[s], rev_dep[s], du, dt, curr) = val
<1> DEFINE vis == visible[s]
           rev == rev_dep[s]
<1>1. /\ vis \in Tristate /\ rev \in Tristate /\ vis # no
      /\ val >= rev /\ val <= vis /\ ~(GetType(s, vis) = "boolean" /\ val = mod)
  BY DEF WithinRange, TypeOK
<1>2. CalcTri(s, vis, rev, du, dt, curr)
        = IF Or(And(val, vis), rev) = mod /\ GetType(s, vis) = "boolean" THEN yes
          ELSE Or(And(val, vis), rev)
  BY <1>1 DEF CalcTri
<1> HIDE DEF vis, rev
<1>3. Or(And(val, vis), rev) = val
  BY <1>1 DEF Or, And, Tristate, no, mod, yes
<1>4. CalcTri(s, vis, rev, du, dt, curr) = val
  BY <1>1, <1>2, <1>3
<1> QED
  BY <1>4 DEF vis, rev

(* A visible plain choice is selected: no other value is accepted for it.    *)
LEMMA ChoiceNotSet ==
  ASSUME PlainChoices, TypeOK, NEW c \in Choice, SeenRight(c), NEW val \in Tristate
  PROVE  ~WithinRange(c, val)
<1>1. /\ c \in Symbol /\ ~IsMember(c) /\ Type[c] = "boolean"
      /\ \A x : GetType(c, x) = "boolean"
  BY SymbolAssumption, MemberHasChoice DEF IsMember, PlainChoices, GetType
<1>2. CASE visible[c] = no
  BY <1>2 DEF WithinRange
<1>3. CASE visible[c] # no
  <2>1. Eval(Prompt[c], curr) # no
    BY <1>1, <1>3 DEF SeenRight, CalcVisible, no, mod
  <2>2. Eval(RevDep[c], curr) # no /\ Eval(RevDep[c], curr) \in Tristate
    BY <2>1, EvalType DEF PlainChoices, TypeOK
  <2>3. rev_dep[c] = yes
    BY <1>1, <2>2 DEF SeenRight, CalcRevDep, Tristate
  <2>4. visible[c] \in Tristate
    BY <1>1 DEF TypeOK
  <2> QED
    BY <2>3, <2>4 DEF WithinRange, Tristate, no, mod, yes
<1> QED
  BY <1>2, <1>3

(* Recalculate gives modules_sym the value it had, unless it is what is set. *)
LEMMA RecalculateSame ==
  ASSUME PlainInv, op # "start", NEW du, NEW dt, Recalculate(du, dt),
         du[Modules] = defUser[Modules], dt[Modules] = defTri[Modules]
  PROVE  UNCHANGED <<curr, chosen, visible, rev_dep, modules_val>>
<1>1. TypeOK /\ Modules \in Symbol \ Choice /\ valid[Modules] /\ modules_val = curr[Modules]
  BY PlainInvParts, SymbolAssumption DEF Settled, ModulesFirst, ModulesVal
<1>2. /\ CalcVisible(Modules, curr) = visible[Modules]
      /\ CalcRevDep(Modules, visible[Modules], curr) = rev_dep[Modules]
      /\ CalcTri(Modules, visible[Modules], rev_dep[Modules], defUser, defTri, curr) = curr[Modules]
  BY <1>1, ValidRight DEF Right, SeenRight, ValueRight, TriNow
<1>3. CalcTri(Modules, visible[Modules], rev_dep[Modules], du, dt, curr) = curr[Modules]
  BY <1>2 DEF CalcTri
<1>4. /\ visible' = [visible EXCEPT ![Modules] = visible[Modules]]
      /\ rev_dep' = [rev_dep EXCEPT ![Modules] = rev_dep[Modules]]
      /\ curr' = [curr EXCEPT ![Modules] = curr[Modules]]
      /\ modules_val' = curr[Modules] /\ UNCHANGED chosen
  BY <1>2, <1>3 DEF Recalculate
<1> QED
  BY <1>1, <1>4 DEF TypeOK

LEMMA StuckSetCached ==
  ASSUME PlainInv', NEW s \in Symbol, NEW val \in Tristate, valid'[s], curr'[s] = val
  PROVE  Stuck(s, val)'
<1>1. (Settled /\ VisibleCoherent /\ ValuesRight /\ ChoicesRight)'
  BY DEF PlainInv, CoherentInv, SeenInv
<1>2. PICK K \in SUBSET Symbol : K = {k \in Symbol : valid'[k]}
  OBVIOUS
<1>3. ASSUME NEW k \in K PROVE Right(k)'
  BY <1>1, <1>2 DEF VisibleCoherent, ValuesRight, ChoicesRight, Right
<1>4. ASSUME NEW k \in K PROVE Reads(k)' \subseteq K
  <2>1. Reads(k)' = Reads(k) /\ Reads(k) \subseteq Symbol
    BY <1>2, ReadsSymbols DEF Reads, DefaultReads
  <2>2. \A r \in Reads(k)' : valid'[r]
    BY <1>1, <1>2 DEF Settled, ReadsClosed
  <2> QED
    BY <1>2, <2>1, <2>2
<1>5. ASSUME NEW k \in K, k \in Choice, TriNow(k)' = yes PROVE ChoiceReads(k)' \subseteq K
  <2>1. ChoiceReads(k)' = ChoiceReads(k) /\ ChoiceReads(k) \subseteq Symbol
    BY <1>5, ChoiceReadsSymbols DEF ChoiceReads
  <2>2. \A r \in ChoiceReads(k)' : valid'[r]
    BY <1>1, <1>2, <1>5 DEF ChoicesRight
  <2> QED
    BY <1>2, <2>1, <2>2
<1>6. Closed(K)'
  BY <1>3, <1>4, <1>5 DEF Closed
<1>7. HasIt(K, s, val)'
  BY <1>2 DEF HasIt
<1> QED
  BY <1>6, <1>7 DEF Stuck

(* The calculated symbols of lower rank than n are a closed set.             *)
LEMMA LowerClosed ==
  ASSUME PlainInv, NEW rank \in [Symbol -> Nat], NEW n \in Nat, NEW K, 
         \A q \in Symbol : \A r \in Reads(q) : rank[r] < rank[q],
         \A c \in Choice : \A r \in ChoiceReads(c) : rank[r] < rank[c],
         K = {k \in Symbol : valid[k] /\ rank[k] < n}
  PROVE  /\ Closed(K)
         /\ \A q \in Symbol : valid[q] /\ rank[q] <= n =>
              /\ Reads(q) \subseteq K
              /\ q \in Choice /\ TriNow(q) = yes => ChoiceReads(q) \subseteq K
<1>1. ASSUME NEW q \in Symbol, valid[q], rank[q] <= n
      PROVE  /\ Reads(q) \subseteq K
             /\ q \in Choice /\ TriNow(q) = yes => ChoiceReads(q) \subseteq K
  <2>1. \A r \in Reads(q) : r \in Symbol /\ valid[r]
    BY <1>1, ReadsSymbols, PlainInvParts DEF Settled, ReadsClosed
  <2>2. q \in Choice /\ TriNow(q) = yes => \A r \in ChoiceReads(q) : r \in Symbol /\ valid[r]
    BY <1>1, ChoiceReadsSymbols, PlainInvParts DEF ChoicesRight
  <2>3. ASSUME NEW r \in Symbol, rank[r] < rank[q] PROVE rank[r] < n
    <3>1. rank[r] \in Nat /\ rank[q] \in Nat
      OBVIOUS
    <3> QED
      BY <1>1, <2>3, <3>1
  <2>4. Reads(q) \subseteq K
    BY <2>1, <2>3
  <2>5. q \in Choice /\ TriNow(q) = yes => ChoiceReads(q) \subseteq K
    BY <2>2, <2>3
  <2> QED
    BY <2>4, <2>5
<1>2. \A k \in K : k \in Symbol /\ valid[k] /\ rank[k] <= n
  OBVIOUS
<1>3. \A k \in K : Right(k)
  BY <1>2, ValidRight
<1>4. Closed(K)
  BY <1>1, <1>2, <1>3 DEF Closed
<1> QED
  BY <1>1, <1>4

LEMMA StuckSetFresh ==
  ASSUME PlainChoices, PlainDefaults, Acyclic, PlainInv, PlainInv', op = "idle",
         NEW s \in Symbol, NEW val \in Tristate, Set(s, val), curr[s] # val,
         valid[s], visible[s] # no, WithinRange(s, val)
  PROVE  Stuck(s, val)'
<1> DEFINE takes == IsMember(s) /\ val = yes
           c == ChoiceOf(s)
<1>0. /\ TypeOK /\ TypeOK' /\ OwnValues /\ Settled /\ op # "start"
      /\ Modules \in Symbol \ Choice /\ Modules \notin Member
  BY PlainInvParts, SymbolAssumption, MemberHasChoice DEF PlainInv, CoherentInv, SeenInv
<1>1. /\ Recalculate(defUser', defTri')
      /\ defUser' = [r \in Symbol |->
            \/ defUser[r] \/ r = s
            \/ takes /\ r = c
            \/ takes /\ r \in ElementsOf(Members[c]) /\ visible[r] # no]
      /\ defTri' = [defTri EXCEPT ![s] = val]
      /\ defVal' = [d \in Choice |-> IF takes /\ d = c THEN s ELSE defVal[d]]
  BY DEF Set
<1>2. Right(s) /\ SeenRight(s)
  BY ValidRight DEF Right
<1>3. s \notin Choice
  BY <1>0, <1>2, ChoiceNotSet
<1>4. takes <=> IsMember(s) /\ visible[s] = yes
  BY <1>0 DEF WithinRange, TypeOK, Tristate, no, mod, yes
<1>5. takes => c \in Choice /\ c \in Symbol /\ s \in Member /\ s \in ElementsOf(Members[c])
               /\ c \in Reads(s) /\ s # c /\ s # None
  BY MemberChoiceIn, MemberHasChoice DEF IsMember
<1>6. valid' = [r \in Symbol |-> r = Modules]
  BY <1>1 DEF Recalculate
<1>7. /\ defUser'[s] = TRUE /\ defTri'[s] = val
      /\ \A r \in Symbol \ {s} : defTri'[r] = defTri[r]
      /\ ~takes => \A r \in Symbol \ {s} : defUser'[r] = defUser[r]
      /\ \A r \in Symbol \ {s} : r \notin Member /\ r \notin Choice => defUser'[r] = defUser[r]
  BY <1>0, <1>1, <1>5, MemberFacts DEF TypeOK
\* modules_sym is calculated at once.
<1>8. CASE s = Modules
  <2>1. CalcTri(s, visible[s], rev_dep[s], defUser', defTri', curr) = val
    <3>1. s \in Symbol \ Choice /\ ~(IsMember(s) /\ visible[s] = yes)
      BY <1>0, <1>8 DEF IsMember
    <3>2. \A du, dt : du[s] = TRUE /\ dt[s] = val =>
            CalcTri(s, visible[s], rev_dep[s], du, dt, curr) = val
      BY <1>0, <3>1, AcceptedValue
    <3> QED
      BY <1>7, <3>2
  <2>2. CalcVisible(s, curr) = visible[s] /\ CalcRevDep(s, visible[s], curr) = rev_dep[s]
    BY <1>2 DEF SeenRight
  <2>3. curr'[s] = val
    BY <1>0, <1>1, <1>8, <2>1, <2>2 DEF Recalculate, TypeOK
  <2>4. valid'[s]
    BY <1>6, <1>8
  <2> QED
    BY <2>3, <2>4, StuckSetCached
<1>9. ASSUME s # Modules
      PROVE  UNCHANGED <<curr, chosen, visible, rev_dep, modules_val>>
  <2>1. defUser'[Modules] = defUser[Modules] /\ defTri'[Modules] = defTri[Modules]
    BY <1>0, <1>7, <1>9
  <2> QED
    BY <1>0, <1>1, <2>1, RecalculateSame
<1>10. PICK rank \in [Symbol -> Nat] :
         /\ \A q \in Symbol : \A r \in Reads(q) : rank[r] < rank[q]
         /\ \A d \in Choice : \A r \in ChoiceReads(d) : rank[r] < rank[d]
  BY DEF Acyclic, Ranks
<1>11. CASE s # Modules /\ ~takes
  <2>1. PICK K \in SUBSET Symbol : K = {k \in Symbol : valid[k] /\ rank[k] < rank[s]}
    OBVIOUS
  <2>2. Closed(K) /\ Reads(s) \subseteq K
    BY <1>10, <2>1, LowerClosed
  <2>3. s \notin K
    BY <2>1
  <2>4. Frame(K)
    BY <1>1, <1>7, <1>9, <1>11, <2>1, <2>3 DEF Frame
  <2>5. Closed(K)'
    BY <1>0, <2>2, <2>4, ClosedKept
  <2>6. SeenRight(s)'
    BY <1>2, <1>9, <1>11 DEF SeenRight, CalcVisible, CalcRevDep, GetType
  <2>7. TriNow(s)' = val
    <3>1. CalcTri(s, visible[s], rev_dep[s], defUser', defTri', curr) = val
      BY <1>0, <1>3, <1>4, <1>7, <1>11, AcceptedValue
    <3>2. TriNow(s)' = CalcTri(s, visible[s], rev_dep[s], defUser', defTri', curr)
      BY <1>9, <1>11 DEF TriNow, CalcTri, GetType, DefaultValue, LiveDefaults
    <3> QED
      BY <3>1, <3>2
  <2>8. Reads(s)' = Reads(s)
    BY DEF Reads, DefaultReads
  <2>9. WillHaveIt(K, s, val)'
    BY <1>3, <1>6, <1>11, <2>2, <2>6, <2>7, <2>8 DEF WillHaveIt
  <2> QED
    BY <2>5, <2>9 DEF Stuck
<1>12. CASE s # Modules /\ takes
  <2>1. PICK K \in SUBSET Symbol : K = {k \in Symbol : valid[k] /\ rank[k] < rank[c]}
    OBVIOUS
  <2>2. c \in Choice /\ c \in Symbol /\ s \in Member /\ s \in ElementsOf(Members[c])
        /\ c \in Reads(s) /\ s # None /\ val = yes
    BY <1>5, <1>12
  <2>3. valid[c] /\ CalcVisible(s, curr) = yes
    BY <1>0, <1>2, <1>4, <1>12, <2>2 DEF Settled, ReadsClosed, SeenRight
  <2>4. curr[c] = yes /\ Right(c)
    BY <2>2, <2>3, PlainInvParts, VisibleMember, ValidRight
  <2>5. TriNow(c) = yes /\ SeenRight(c)
    BY <2>2, <2>4 DEF Right, ValueRight, no, yes
  <2>6. Closed(K) /\ Reads(c) \subseteq K /\ ChoiceReads(c) \subseteq K
    <3>1. rank[c] \in Nat /\ rank[c] <= rank[c]
      BY <2>2
    <3>2. /\ Closed(K)
          /\ \A q \in Symbol : valid[q] /\ rank[q] <= rank[c] =>
               /\ Reads(q) \subseteq K
               /\ q \in Choice /\ TriNow(q) = yes => ChoiceReads(q) \subseteq K
      BY <1>10, <2>1, <3>1, LowerClosed
    <3> QED
      BY <2>2, <2>3, <2>5, <3>1, <3>2
  <2>7. c \notin K /\ s \notin K /\ \A m \in ElementsOf(Members[c]) : m \notin K
    <3>1. ASSUME NEW m \in ElementsOf(Members[c]) PROVE m \notin K
      <4>1. m \in Symbol /\ c \in Reads(m)
        BY <2>2, MemberFacts
      <4>2. rank[c] < rank[m] /\ rank[c] \in Nat /\ rank[m] \in Nat
        BY <1>10, <2>2, <4>1
      <4> QED
        BY <2>1, <4>2
    <3>2. rank[c] \in Nat
      BY <2>2
    <3> QED
      BY <2>1, <2>2, <3>1, <3>2
  <2>8. Frame(K)
    <3>1. \A k \in K : k \in Symbol /\ k # s /\ k # c /\ k \notin ElementsOf(Members[c])
      BY <2>7
    <3>2. \A k \in K : defUser'[k] = defUser[k]
      BY <1>0, <1>1, <3>1 DEF TypeOK
    <3> QED
      BY <1>1, <1>7, <1>9, <1>12, <3>1, <3>2 DEF Frame
  <2>9. Closed(K)'
    BY <1>0, <2>6, <2>8, ClosedKept
  <2>10. SeenRight(c)' /\ TriNow(c)' = TriNow(c)
    <3>1. SameFor(c) /\ UNCHANGED modules_val
      BY <1>9, <1>12 DEF SameFor
    <3> QED
      BY <1>0, <2>2, <2>5, <3>1, SameForRight, ChoiceTriSame
  <2>11. CalcVisible(s, curr)' = yes
    BY <1>9, <1>12, <2>3 DEF CalcVisible
  <2>12. defVal'[c] = s /\ ~valid'[c] /\ ~valid'[s] /\ curr'[c] = yes
    BY <1>0, <1>1, <1>6, <1>9, <1>12, <2>2, <2>4
  <2>13. Reads(c)' = Reads(c) /\ ChoiceReads(c)' = ChoiceReads(c)
    BY DEF Reads, DefaultReads, ChoiceReads
  <2>14. WillBeChosen(K, s, val)'
    BY <2>2, <2>5, <2>6, <2>7, <2>10, <2>11, <2>12, <2>13 DEF WillBeChosen
  <2> QED
    BY <2>9, <2>14 DEF Stuck
<1> QED
  BY <1>8, <1>11, <1>12

LEMMA StuckSet ==
  ASSUME PlainChoices, PlainDefaults, Acyclic, PlainInv, PlainInv', op = "idle",
         NEW s \in Symbol, NEW val \in Tristate, Set(s, val),
         valid[s], visible[s] # no, Accepts(s, val)
  PROVE  StickInv'
<1>1. asked' = [sym |-> s, val |-> val] /\ op' = op
  BY DEF Set
<1>2. Stuck(s, val)'
  <2>1. CASE curr[s] = val
    <3>1. valid'[s] /\ curr'[s] = val
      BY <2>1 DEF Set, cache
    <3> QED
      BY <3>1, StuckSetCached
  <2>2. CASE curr[s] # val
    BY <2>2, StuckSetFresh DEF Accepts
  <2> QED
    BY <2>1, <2>2
<1> SUFFICES ASSUME NEW q \in Symbol, NEW v \in Tristate, asked' = [sym |-> q, val |-> v]
             PROVE  op' \in {"idle", "writing"} /\ Stuck(q, v)'
  BY DEF StickInv
<1>3. q = s /\ v = val
  BY <1>1
<1> QED
  BY <1>1, <1>2, <1>3

LEMMA ToggledAccepted ==
  ASSUME NEW s \in Symbol
  PROVE  Accepts(s, Toggled(s))
BY DEF Toggled, Accepts

LEMMA StickInit == Init => StickInv
BY DEF Init, StickInv

LEMMA StickStep ==
  ASSUME PlainChoices, PlainDefaults, Acyclic, PlainInv, PlainInv', StickInv, [Next]_vars
  PROVE  StickInv'
<1>0. TypeOK /\ TypeOK' /\ OwnValues /\ Settled
  BY PlainInvParts DEF PlainInv, CoherentInv, SeenInv
<1>1. ASSUME UNCHANGED <<asked, op>>,
             \A s \in Symbol, val \in Tristate :
               asked = [sym |-> s, val |-> val] /\ Stuck(s, val) => Stuck(s, val)'
      PROVE  StickInv'
  BY <1>1 DEF StickInv
<1>2. ASSUME NEW r \in Symbol \ Choice, CalcSymbol(r), op # "start" PROVE StickInv'
  <2>1. UNCHANGED <<asked, op>>
    BY <1>2 DEF CalcSymbol
  <2> QED
    BY <1>1, <1>2, <2>1, StuckCalcSymbol
<1>3. ASSUME NEW d \in Choice, CalcChoiceSymbol(d), op # "start" PROVE StickInv'
  <2>1. UNCHANGED <<asked, op>>
    BY <1>3, CalcChoiceSymbolSteps
  <2> QED
    BY <1>1, <1>3, <2>1, StuckCalcChoice
<1>4. CASE CalcValue
  BY <1>2, <1>3, <1>4 DEF CalcValue
<1>5. ASSUME NEW s \in Symbol, NEW val \in Tristate, SetTristate(s, val) PROVE StickInv'
  BY <1>5, StuckSet DEF SetTristate, Editable
<1>6. ASSUME NEW s \in Symbol, Toggle(s) PROVE StickInv'
  BY <1>0, <1>6, ToggledType, ToggledAccepted, StuckSet DEF Toggle, Editable
<1>7. ASSUME asked' = None PROVE StickInv'
  BY <1>7 DEF StickInv
<1>8. CASE ReadStart \/ \E f \in HandMade \cup {file} : Load(f)
  BY <1>7, <1>8 DEF ReadStart, Load, ReadLines
<1>9. ASSUME UNCHANGED <<asked, curr, chosen, visible, rev_dep, modules_val, user>>,
             op' \in {"idle", "writing"}, \A r \in Symbol : valid'[r] => valid[r],
             \A m \in Member : valid'[m] => valid'[ChoiceOf(m)]
      PROVE  StickInv'
  <2>1. ASSUME NEW s \in Symbol, NEW val \in Tristate, Stuck(s, val) PROVE Stuck(s, val)'
    BY <1>0, <1>9, <2>1, StuckSame
  <2> QED
    BY <1>9, <2>1 DEF StickInv
<1>10. \A m \in Member : m \in Symbol /\ ChoiceOf(m) \in Reads(m) /\ m # Modules
  BY MemberHasChoice, MemberFacts
<1>11. \A m \in Member : valid[m] => valid[ChoiceOf(m)]
  BY <1>0, <1>10 DEF Settled, ReadsClosed
<1>12. CASE WriteStart
  <2>1. CASE changed
    BY <1>9, <1>11, <1>12, <2>1 DEF WriteStart, cache
  <2>2. CASE ~changed
    <3>1. Recalculate(defUser, defTri) /\ op = "idle" /\ op' = "writing" /\ UNCHANGED <<asked, user>>
      BY <1>12, <2>2 DEF WriteStart
    <3>2. UNCHANGED <<curr, chosen, visible, rev_dep, modules_val>>
      BY <3>1, RecalculateSame
    <3>3. valid' = [r \in Symbol |-> r = Modules] /\ valid[Modules]
      BY <1>0, <3>1 DEF Recalculate, Settled, ModulesFirst
    <3> QED
      BY <1>9, <1>10, <3>1, <3>2, <3>3
  <2> QED
    BY <2>1, <2>2
<1>13. CASE WriteFinish
  BY <1>9, <1>11, <1>13 DEF WriteFinish, Emitted
<1>14. CASE Restart
  BY <1>7, <1>14 DEF Restart
<1>15. CASE ReadMissing \/ ReadFinish
  <2>1. op \notin {"idle", "writing"} /\ UNCHANGED asked
    BY <1>15 DEF ReadMissing, ReadFinish
  <2> QED
    BY <2>1 DEF StickInv
<1>16. CASE UNCHANGED vars
  <2>1. UNCHANGED <<asked, op, valid, curr, chosen, visible, rev_dep, modules_val, user>>
    BY <1>16 DEF vars, cache
  <2>2. CASE op \in {"idle", "writing"}
    BY <1>9, <1>11, <2>1, <2>2
  <2>3. CASE op \notin {"idle", "writing"}
    BY <2>1, <2>3 DEF StickInv
  <2> QED
    BY <2>2, <2>3
<1> QED
  BY <1>4, <1>5, <1>6, <1>8, <1>12, <1>13, <1>14, <1>15, <1>16 DEF Next

(* What the user is told was set is what the symbol is, whenever it is       *)
(* calculated, until the next setting or read: a setting makes every symbol  *)
(* stale, and the symbols it depends on come back with the values they had.  *)
THEOREM SettingSticks ==
  ASSUME PlainChoices, PlainDefaults, Acyclic
  PROVE  Spec => []SetSticks
<1>1. ASSUME PlainInv, StickInv PROVE SetSticks
  <2> SUFFICES ASSUME asked # None, valid[asked.sym] PROVE curr[asked.sym] = asked.val
    BY DEF SetSticks
  <2>1. PICK s \in Symbol, val \in Tristate : asked = [sym |-> s, val |-> val]
    BY <1>1, PlainInvParts DEF TypeOK
  <2>2. Stuck(s, val) /\ asked.sym = s /\ asked.val = val
    BY <1>1, <2>1 DEF StickInv
  <2>3. PICK K \in SUBSET Symbol :
          HasIt(K, s, val) \/ WillHaveIt(K, s, val) \/ WillBeChosen(K, s, val)
    BY <2>2 DEF Stuck
  <2> QED
    BY <2>2, <2>3 DEF HasIt, WillHaveIt, WillBeChosen
<1>2. PlainInv /\ [Next]_vars => PlainInv'
  BY PlainInvStep
<1>3. PlainInv /\ PlainInv' /\ StickInv /\ [Next]_vars => StickInv'
  BY StickStep
<1> QED
  BY <1>1, <1>2, <1>3, PlainInvInit, StickInit, PTL DEF Spec

-----------------------------------------------------------------------------
(* What is saved comes back. *)

(* The calculations again, as functions of the values v alone.               *)
VisOf(s, v) ==
  LET tri == Eval(Prompt[s], v)
  IN  IF tri = mod /\ (Type[s] # "tristate" \/ v[Modules] = no) THEN yes ELSE tri
TriOf(s, vis, v) == Type[s] = "tristate" /\ ~(s \in Member /\ vis = yes) /\ v[Modules] # no
RevOf(s, vis, v) ==
  LET tri == Eval(RevDep[s], v)
  IN  IF s \in Member THEN no
      ELSE IF tri = mod /\ ~TriOf(s, vis, v) THEN yes ELSE tri

(* The value of s when k are the chosen values and the user set s to want,    *)
(* or to nothing.                                                            *)
ValueOf(s, v, k, want) ==
  LET vis == VisOf(s, v)
      wanted == IF vis # no /\ want # None THEN And(want, vis) ELSE DefaultValue(s, v)
      tri == IF s \in Member /\ vis = yes THEN IF k[ChoiceOf(s)] = s THEN yes ELSE no
             ELSE Or(wanted, RevOf(s, vis, v))
  IN  IF tri = mod /\ ~TriOf(s, vis, v) THEN yes ELSE tri

(* The value a choice that is y takes when d is the user's.                  *)
WithYes(c, v) == [v EXCEPT ![c] = yes]
SeenIn(c, v) == [m \in Symbol |-> VisOf(m, WithYes(c, v))]
PickOf(c, v, d) ==
  IF d # None /\ SeenIn(c, v)[d] # no THEN d ELSE ChoiceDefaultSym(c, SeenIn(c, v), WithYes(c, v))

(* The values v and chosen values k are what the file f says they are.        *)
Solves(v, k, f) ==
  /\ \A s \in Symbol \ Choice : v[s] = ValueOf(s, v, k, f[s])
  /\ \A c \in Choice :
       /\ k[c] = IF ValueOf(c, v, k, None) = yes THEN PickOf(c, v, ReadVal(f, c)) ELSE None
       /\ v[c] = IF ValueOf(c, v, k, None) = yes /\ k[c] = None THEN no
                 ELSE ValueOf(c, v, k, None)

LEMMA VisOfAgree ==
  ASSUME NEW s \in Symbol, NEW v, NEW w, \A r \in SymbolsOf(Prompt[s]) : v[r] = w[r],
         v[Modules] = w[Modules] \/ s = Modules
  PROVE  VisOf(s, v) = VisOf(s, w)
<1>1. Eval(Prompt[s], v) = Eval(Prompt[s], w)
  BY EvalAgree
<1> QED
  BY <1>1, SymbolAssumption DEF VisOf

LEMMA ValueOfAgree ==
  ASSUME NEW s \in Symbol, NEW v, NEW w, NEW k, NEW l, \A r \in Reads(s) : v[r] = w[r],
         v[Modules] = w[Modules] \/ s = Modules,
         s \in Member => k[ChoiceOf(s)] = l[ChoiceOf(s)], NEW want
  PROVE  ValueOf(s, v, k, want) = ValueOf(s, w, l, want)
<1>1. VisOf(s, v) = VisOf(s, w)
  <2>1. \A r \in SymbolsOf(Prompt[s]) : v[r] = w[r]
    BY DEF Reads
  <2> QED
    BY <2>1, VisOfAgree
<1>2. \A vis : TriOf(s, vis, v) <=> TriOf(s, vis, w)
  BY SymbolAssumption DEF TriOf
<1>3. Eval(RevDep[s], v) = Eval(RevDep[s], w)
  <2>1. \A r \in SymbolsOf(RevDep[s]) : v[r] = w[r]
    BY DEF Reads
  <2> QED
    BY <2>1, EvalAgree
<1>4. \A vis : RevOf(s, vis, v) = RevOf(s, vis, w)
  BY <1>2, <1>3 DEF RevOf
<1>5. DefaultValue(s, v) = DefaultValue(s, w)
  BY CalcsAgree
<1> QED
  BY <1>1, <1>2, <1>4, <1>5 DEF ValueOf

LEMMA PickOfAgree ==
  ASSUME NEW c \in Choice, NEW v \in [Symbol -> Tristate], NEW w \in [Symbol -> Tristate],
         v[Modules] = w[Modules], \A r \in ChoiceReads(c) : v[r] = w[r],
         NEW d, d \in ElementsOf(Members[c]) \cup {None}
  PROVE  PickOf(c, v, d) = PickOf(c, w, d)
<1>1. c \in Symbol /\ c # Modules /\ Modules \in Symbol /\ ChoiceReads(c) \subseteq Symbol /\ c \notin ChoiceReads(c)
  BY SymbolAssumption, ChoiceReadsSymbols
<1>2. /\ \A r \in ChoiceReads(c) \cup {c} : WithYes(c, v)[r] = WithYes(c, w)[r]
      /\ WithYes(c, v)[Modules] = WithYes(c, w)[Modules]
  BY <1>1 DEF WithYes
<1>3. \A m \in ElementsOf(Members[c]) : SeenIn(c, v)[m] = SeenIn(c, w)[m]
  <2> SUFFICES ASSUME NEW m \in ElementsOf(Members[c]) PROVE SeenIn(c, v)[m] = SeenIn(c, w)[m]
    OBVIOUS
  <2>1. m \in Symbol /\ \A r \in SymbolsOf(Prompt[m]) : WithYes(c, v)[r] = WithYes(c, w)[r]
    BY <1>2, MemberFacts, PromptReads
  <2>2. VisOf(m, WithYes(c, v)) = VisOf(m, WithYes(c, w))
    BY <1>2, <2>1, VisOfAgree
  <2> QED
    BY <2>1, <2>2 DEF SeenIn
<1>4. ChoiceDefaultSym(c, SeenIn(c, v), WithYes(c, v)) = ChoiceDefaultSym(c, SeenIn(c, w), WithYes(c, w))
  BY <1>2, <1>3, ChoiceDefaultAgree
<1> QED
  BY <1>3, <1>4 DEF PickOf

(* The user's choice in a file is the value of the last of its y lines.      *)
LEMMA ReadValFact ==
  ASSUME NEW f, NEW c \in Choice
  PROVE  /\ ReadVal(f, c) \in ElementsOf(Members[c]) \cup {None}
         /\ Yeses(f, c) = {} => ReadVal(f, c) = None
         /\ Yeses(f, c) # {} => ReadVal(f, c) \in ElementsOf(Members[c]) /\ f[ReadVal(f, c)] = yes
<1> DEFINE n == Len(Members[c])
<1>1. n \in Nat /\ DOMAIN Members[c] = 1 .. n
  BY ChoiceAssumption
<1>2. Yeses(f, c) \in SUBSET (1 .. n)
  BY <1>1 DEF Yeses, LinesOf
<1>3. CASE Yeses(f, c) # {}
  <2> DEFINE last == CHOOSE i \in Yeses(f, c) : \A j \in Yeses(f, c) : j <= i
  <2>1. last \in Yeses(f, c)
    BY <1>1, <1>2, <1>3, LastOfFact
  <2>2. Members[c][last] \in ElementsOf(Members[c]) /\ f[Members[c][last]] = yes
    BY <1>1, <1>2, <2>1 DEF ElementsOf, Yeses
  <2> QED
    BY <1>3, <2>2 DEF ReadVal
<1>4. CASE Yeses(f, c) = {}
  BY <1>4 DEF ReadVal
<1> QED
  BY <1>3, <1>4

(* A file says what every symbol of a menu without recursive dependencies is. *)
LEMMA OneSolution ==
  ASSUME Acyclic, NEW v \in [Symbol -> Tristate], NEW w \in [Symbol -> Tristate],
         NEW k, NEW l, NEW f, Solves(v, k, f), Solves(w, l, f)
  PROVE  v = w
<1>1. PICK rank \in [Symbol -> Nat] : Ranks(rank)
  BY DEF Acyclic
<1>2. v[Modules] = w[Modules]
  <2>1. Modules \in Symbol \ Choice /\ Modules \notin Member /\ Reads(Modules) = {}
    BY SymbolAssumption, MemberHasChoice, ModulesAssumption
  <2>2. ValueOf(Modules, v, k, f[Modules]) = ValueOf(Modules, w, l, f[Modules])
    BY <2>1, ValueOfAgree
  <2> QED
    BY <2>1, <2>2 DEF Solves
<1> DEFINE Differ == {s \in Symbol : v[s] # w[s] \/ (s \in Choice /\ k[s] # l[s])}
<1>3. ASSUME NEW s \in Differ PROVE \E r \in Differ : rank[r] < rank[s]
  <2> SUFFICES ASSUME \A r \in Symbol : rank[r] < rank[s] =>
                        v[r] = w[r] /\ (r \in Choice => k[r] = l[r])
               PROVE  FALSE
    OBVIOUS
  <2>1. \A r \in Reads(s) : v[r] = w[r] /\ (r \in Choice => k[r] = l[r])
    BY <1>1, ReadsSymbols DEF Ranks
  <2>2. CASE s \notin Choice
    <3>1. s \in Member => k[ChoiceOf(s)] = l[ChoiceOf(s)]
      BY <2>1, MemberHasChoice, MemberFacts
    <3>2. s \in Symbol /\ \A r \in Reads(s) : v[r] = w[r]
      BY <2>1
    <3>3. \A want : ValueOf(s, v, k, want) = ValueOf(s, w, l, want)
      <4>1. CASE s \in Member
        BY <1>2, <3>1, <3>2, <4>1, ValueOfAgree
      <4>2. CASE s \notin Member
        BY <1>2, <3>2, <4>2, ValueOfAgree
      <4> QED
        BY <4>1, <4>2
    <3> QED
      BY <2>2, <3>3 DEF Solves
  <2>3. CASE s \in Choice
    <3>1. s \notin Member
      BY <2>3, MemberHasChoice
    <3>2. ValueOf(s, v, k, None) = ValueOf(s, w, l, None)
      BY <1>2, <2>1, <3>1, ValueOfAgree
    <3>3. PickOf(s, v, ReadVal(f, s)) = PickOf(s, w, ReadVal(f, s))
      <4>1. \A r \in ChoiceReads(s) : v[r] = w[r]
        BY <1>1, <2>3, ChoiceReadsSymbols DEF Ranks
      <4>2. ReadVal(f, s) \in ElementsOf(Members[s]) \cup {None}
        BY <2>3, ReadValFact
      <4> QED
        BY <1>2, <2>3, <4>1, <4>2, PickOfAgree
    <3>4. k[s] = l[s]
      BY <2>3, <3>2, <3>3 DEF Solves
    <3>5. v[s] = w[s]
      BY <2>3, <3>2, <3>4 DEF Solves
    <3> QED
      BY <3>4, <3>5
  <2> QED
    BY <2>2, <2>3
<1>4. Differ = {}
  <2> SUFFICES ASSUME Differ # {} PROVE FALSE
    OBVIOUS
  <2> DEFINE I == {rank[s] : s \in Differ}
  <2>1. I \in SUBSET Nat /\ I # {}
    OBVIOUS
  <2> HIDE DEF I
  <2>2. FirstOf(I) \in I /\ \A j \in I : FirstOf(I) <= j
    BY <2>1, FirstOfFact
  <2>3. PICK s \in Differ : rank[s] = FirstOf(I)
    BY <2>2 DEF I
  <2>4. PICK r \in Differ : rank[r] < rank[s]
    BY <1>3
  <2>5. rank[r] \in I /\ rank[r] \in Nat /\ rank[s] \in Nat
    BY DEF I
  <2> QED
    BY <2>2, <2>3, <2>4, <2>5
<1>5. \A s \in Symbol : v[s] = w[s]
  BY <1>4
<1> QED
  BY <1>5

(* The calculations of the program are those of its values.                  *)
LEMMA NowParts ==
  ASSUME TypeOK, ModulesVal, MemberRev, NEW s \in Symbol, SeenRight(s)
  PROVE  /\ visible[s] = VisOf(s, curr)
         /\ GetType(s, visible[s]) = "boolean" <=> ~TriOf(s, visible[s], curr)
         /\ rev_dep[s] = RevOf(s, visible[s], curr)
<1>1. visible[s] = VisOf(s, curr)
  BY DEF SeenRight, CalcVisible, VisOf, ModulesVal
<1>2. \A vis : GetType(s, vis) = "boolean" <=> ~TriOf(s, vis, curr)
  BY DEF GetType, TriOf, IsMember, ModulesVal
<1>3. rev_dep[s] = RevOf(s, visible[s], curr)
  BY <1>2 DEF SeenRight, CalcRevDep, RevOf, IsMember, MemberRev
<1> QED
  BY <1>1, <1>2, <1>3

LEMMA NowUnset ==
  ASSUME TypeOK, ModulesVal, MemberRev, NEW s \in Symbol, SeenRight(s), NEW du, NEW dt, du[s] = FALSE
  PROVE  CalcTri(s, visible[s], rev_dep[s], du, dt, curr) = ValueOf(s, curr, chosen, None)
<1>1. /\ visible[s] = VisOf(s, curr)
      /\ GetType(s, visible[s]) = "boolean" <=> ~TriOf(s, visible[s], curr)
      /\ rev_dep[s] = RevOf(s, visible[s], curr)
  BY NowParts
<1> QED
  BY <1>1 DEF CalcTri, ValueOf, IsMember

LEMMA NowSet ==
  ASSUME TypeOK, ModulesVal, MemberRev, NEW s \in Symbol, SeenRight(s), NEW du, NEW dt,
         du[s] = TRUE, dt[s] # None
  PROVE  CalcTri(s, visible[s], rev_dep[s], du, dt, curr) = ValueOf(s, curr, chosen, dt[s])
<1>1. /\ visible[s] = VisOf(s, curr)
      /\ GetType(s, visible[s]) = "boolean" <=> ~TriOf(s, visible[s], curr)
      /\ rev_dep[s] = RevOf(s, visible[s], curr)
  BY NowParts
<1> QED
  BY <1>1 DEF CalcTri, ValueOf, IsMember

(* When everything is calculated, the values are what a file says if it says *)
(* it of every symbol and every choice.                                      *)
LEMMA SolvesNow ==
  ASSUME PlainChoices, PlainInv, \A s \in Symbol : valid[s], NEW f,
         \A s \in Symbol \ Choice : curr[s] = ValueOf(s, curr, chosen, f[s]),
         \A c \in Choice : TriNow(c) = yes =>
           CalcChoice(c, SeenNow(c), ChoiceYes(c)) = PickOf(c, curr, ReadVal(f, c))
  PROVE  Solves(curr, chosen, f)
<1> SUFFICES ASSUME NEW c \in Choice
             PROVE  /\ chosen[c] = IF ValueOf(c, curr, chosen, None) = yes
                                   THEN PickOf(c, curr, ReadVal(f, c)) ELSE None
                    /\ curr[c] = IF ValueOf(c, curr, chosen, None) = yes /\ chosen[c] = None THEN no
                                 ELSE ValueOf(c, curr, chosen, None)
  BY DEF Solves
<1>1. TypeOK /\ ModulesVal /\ MemberRev /\ c \in Symbol
  BY PlainInvParts, SymbolAssumption
<1>2. SeenRight(c) /\ ValueRight(c) /\ ChosenRight(c)
  BY <1>1, ValidRight DEF Right
<1>3. Unset[c] = FALSE /\ Unset \in [Symbol -> BOOLEAN] /\ AllNo \in [Symbol -> Tristate]
  BY <1>1 DEF Unset, AllNo, Tristate
<1>4. CalcTri(c, visible[c], rev_dep[c], Unset, AllNo, curr) = ValueOf(c, curr, chosen, None)
  BY <1>1, <1>2, <1>3, NowUnset
<1>5. curr \in [Symbol -> Tristate] /\ defTri \in [Symbol -> Tristate]
  BY <1>1 DEF TypeOK
<1>6. CalcTri(c, visible[c], rev_dep[c], defUser, defTri, curr)
        = CalcTri(c, visible[c], rev_dep[c], Unset, AllNo, curr)
  <2>1. visible[c] = CalcVisible(c, curr) /\ rev_dep[c] = CalcRevDep(c, visible[c], curr)
    BY <1>2 DEF SeenRight
  <2> QED
    BY <1>3, <1>5, <2>1, PlainChoiceTri
<1>7. TriNow(c) = ValueOf(c, curr, chosen, None)
  BY <1>4, <1>6 DEF TriNow
<1> QED
  BY <1>2, <1>7 DEF ValueRight, ChosenRight

(* What calculations see while a choice is y.                                *)
LEMMA SeenNowIn ==
  ASSUME TypeOK, ModulesVal, NEW c \in Choice
  PROVE  SeenNow(c) = SeenIn(c, curr) /\ ChoiceYes(c) = WithYes(c, curr)
<1>1. ChoiceYes(c) = WithYes(c, curr)
  BY DEF ChoiceYes, WithYes
<1>2. WithYes(c, curr)[Modules] = modules_val
  BY SymbolAssumption DEF WithYes, TypeOK, ModulesVal
<1>3. \A m \in Symbol : CalcVisible(m, ChoiceYes(c)) = VisOf(m, WithYes(c, curr))
  BY <1>1, <1>2 DEF CalcVisible, VisOf
<1> QED
  BY <1>1, <1>3 DEF SeenNow, SeenIn

(* At the end of a read the values are what the file says.                   *)
LEMMA SolvedByRead ==
  ASSUME PlainChoices, PlainInv, \A s \in Symbol : valid[s], NEW f \in Config,
         \A s \in Symbol \ Choice : (f[s] = None => defUser[s] = FALSE)
                                    /\ (f[s] # None => defUser[s] = TRUE /\ defTri[s] = f[s]),
         \A c \in Choice : defVal[c] = ReadVal(f, c)
  PROVE  Solves(curr, chosen, f)
<1>1. TypeOK /\ ModulesVal /\ MemberRev
  BY PlainInvParts
<1>2. ASSUME NEW s \in Symbol \ Choice PROVE curr[s] = ValueOf(s, curr, chosen, f[s])
  <2>1. SeenRight(s) /\ ValueRight(s)
    BY ValidRight DEF Right
  <2>2. TriNow(s) = ValueOf(s, curr, chosen, f[s])
    <3>1. CASE f[s] = None
      BY <1>1, <2>1, <3>1, NowUnset DEF TriNow
    <3>2. CASE f[s] # None
      BY <1>1, <2>1, <3>2, NowSet DEF TriNow
    <3> QED
      BY <3>1, <3>2
  <2> QED
    BY <2>1, <2>2 DEF ValueRight
<1>3. ASSUME NEW c \in Choice
      PROVE  CalcChoice(c, SeenNow(c), ChoiceYes(c)) = PickOf(c, curr, ReadVal(f, c))
  BY <1>1, SeenNowIn DEF CalcChoice, PickOf
<1> QED
  BY <1>2, <1>3, SolvesNow

(* A hidden choice value is n.                                               *)
LEMMA HiddenMember ==
  ASSUME PlainDefaults, PlainInv, NEW m \in Member, valid[m], visible[m] = no
  PROVE  curr[m] = no
<1>1. m \in Symbol \ Choice /\ IsMember(m) /\ MemberRev
  BY PlainInvParts, MemberHasChoice DEF IsMember
<1>2. ValueRight(m)
  BY <1>1, ValidRight DEF Right
<1>3. DefaultValue(m, curr) = no
  BY DEF PlainDefaults, DefaultValue, LiveDefaults
<1>4. TriNow(m) = no
  BY <1>1, <1>3 DEF TriNow, CalcTri, MemberRev, Or, no, mod, yes
<1> QED
  BY <1>1, <1>2, <1>4 DEF ValueRight

(* So they are of the file a write leaves.                                   *)
LEMMA SolvedByWrite ==
  ASSUME PlainChoices, PlainDefaults, PlainMembers, PlainInv, MarksInv,
         op = "writing", \A s \in Symbol : valid[s]
  PROVE  Solves(curr, chosen, Written)
<1>1. TypeOK /\ ModulesVal /\ MemberRev /\ OwnValues /\ CoherentInv /\ Marked /\ MembersMarked
  BY PlainInvParts DEF MarksInv, Marking
<1>2. \A s \in Symbol \ Choice : Written[s] = IF write[s] THEN curr[s] ELSE None
  BY DEF Written
<1>3. \A s \in Symbol \ Choice : curr[s] \in Tristate /\ curr[s] # None
  BY <1>1, SymbolAssumption DEF TypeOK
<1>4. ASSUME NEW s \in Symbol \ Choice PROVE curr[s] = ValueOf(s, curr, chosen, Written[s])
  <2>1. SeenRight(s) /\ ValueRight(s) /\ curr[s] = TriNow(s)
    BY ValidRight DEF Right, ValueRight
  <2>2. visible[s] = VisOf(s, curr)
    BY <1>1, <2>1, NowParts
  <2>3. CASE visible[s] # no /\ s \notin Member
    <3>1. Written[s] = curr[s]
      BY <1>1, <1>2, <2>3, MustWriteParts DEF Marked, IsMember
    <3> DEFINE du == [r \in Symbol |-> TRUE]
    <3>2. CalcTri(s, visible[s], rev_dep[s], du, curr, curr) = ValueOf(s, curr, chosen, curr[s])
      <4>1. du[s] = TRUE
        OBVIOUS
      <4> HIDE DEF du
      <4> QED
        BY <1>1, <1>3, <2>1, <4>1, NowSet
    <3>3. CalcTri(s, visible[s], rev_dep[s], du, curr, curr) = curr[s]
      BY <1>1, <2>1, <2>3, SettingKept
    <3> QED
      BY <3>1, <3>2, <3>3
  <2>4. CASE visible[s] = no \/ s \in Member
    <3>1. s \in Member /\ visible[s] # no => visible[s] = yes
      BY <2>1, EvalType DEF PlainMembers, SeenRight, CalcVisible, Tristate
    <3>2. \A x, y : ValueOf(s, curr, chosen, x) = ValueOf(s, curr, chosen, y)
      BY <2>2, <2>4, <3>1 DEF ValueOf
    <3>3. CASE defUser[s] = FALSE
      BY <1>1, <2>1, <3>2, <3>3, NowUnset DEF TriNow
    <3>4. CASE defUser[s] = TRUE
      <4>1. defTri[s] # None
        BY <1>1, SymbolAssumption DEF TypeOK
      <4> QED
        BY <1>1, <2>1, <3>2, <3>4, <4>1, NowSet DEF TriNow
    <3>5. defUser[s] \in BOOLEAN
      BY <1>1 DEF TypeOK
    <3> QED
      BY <3>3, <3>4, <3>5
  <2> QED
    BY <2>3, <2>4
<1>5. ASSUME NEW c \in Choice, TriNow(c) = yes
      PROVE  CalcChoice(c, SeenNow(c), ChoiceYes(c)) = PickOf(c, curr, ReadVal(Written, c))
  <2> DEFINE seen == SeenNow(c)
             picked == CalcChoice(c, SeenNow(c), ChoiceYes(c))
             read == ReadVal(Written, c)
  <2>1. /\ c \in Symbol /\ SeenRight(c) /\ ValueRight(c) /\ chosen[c] = picked
    BY <1>5, ValidRight, SymbolAssumption DEF Right, ChosenRight
  <2>2. PickOf(c, curr, read) = IF read # None /\ seen[read] # no THEN read
                                ELSE ChoiceDefaultSym(c, seen, ChoiceYes(c))
    BY <1>1, SeenNowIn DEF PickOf
  <2>3. read \in ElementsOf(Members[c]) \cup {None}
    BY ReadValFact
  <2>4. CASE picked = None
    <3>1. \A m \in ElementsOf(Members[c]) : seen[m] = no
      BY <1>1, <2>4, NothingPicked
    <3>2. picked = ChoiceDefaultSym(c, seen, ChoiceYes(c))
      BY <2>4 DEF CalcChoice
    <3> QED
      BY <2>2, <2>3, <3>1, <3>2
  <2>5. CASE picked # None
    <3>1. picked \in ElementsOf(Members[c]) /\ seen[picked] # no
      BY <1>1, <2>5, CalcChoiceFact DEF OwnValues
    <3>2. picked \in Member /\ picked \in Symbol \ Choice /\ ChoiceOf(picked) = c
      BY <3>1, MemberFacts
    <3>3. curr[c] = yes
      BY <1>5, <2>1, <2>5 DEF ValueRight
    <3>4. ChoiceYes(c) = curr
      BY <1>1, <2>1, <3>3 DEF ChoiceYes, TypeOK
    <3>5. visible[picked] = yes
      <4>1. SeenRight(picked)
        BY <3>2, ValidRight DEF Right
      <4>2. visible[picked] # no
        BY <3>1, <3>2, <3>4, <4>1 DEF SeenNow, SeenRight
      <4> QED
        BY <3>2, <4>1, <4>2, EvalType DEF PlainMembers, SeenRight, CalcVisible, Tristate
    <3>6. curr[picked] = yes
      <4>1. ValueRight(picked)
        BY <3>2, ValidRight DEF Right
      <4>2. TriNow(picked) = yes
        BY <2>1, <3>2, <3>5 DEF TriNow, CalcTri, IsMember, mod, yes
      <4> QED
        BY <3>2, <4>1, <4>2 DEF ValueRight
    <3>7. ChoiceWritten(c)
      <4> SUFFICES ASSUME visible[c] = no, rev_dep[c] = no PROVE FALSE
        BY DEF ChoiceWritten
      <4>1. ~IsMember(c)
        BY <2>1, MemberHasChoice DEF IsMember
      <4>2. DefaultValue(c, curr) = no
        BY DEF DefaultValue
      <4> QED
        BY <1>5, <4>1, <4>2 DEF TriNow, CalcTri, Or, no, mod, yes
    <3>8. Written[picked] = yes
      BY <1>1, <1>2, <2>1, <3>1, <3>2, <3>3, <3>5, <3>6, <3>7 DEF MembersMarked, no, yes
    <3>9. Yeses(Written, c) # {}
      <4>1. PICK i \in DOMAIN Members[c] : Members[c][i] = picked
        BY <3>1 DEF ElementsOf
      <4>2. yes # None
        BY SymbolAssumption DEF Tristate
      <4> QED
        BY <3>8, <4>1, <4>2 DEF Yeses, LinesOf
    <3>10. read \in ElementsOf(Members[c]) /\ Written[read] = yes
      BY <3>9, ReadValFact
    <3>11. read \in Member /\ read \in Symbol \ Choice /\ ChoiceOf(read) = c /\ read # None
      BY <3>10, MemberFacts
    <3>12. curr[read] = yes
      BY <1>2, <3>10, <3>11, SymbolAssumption DEF Tristate
    <3>13. visible[read] # no
      BY <3>11, <3>12, HiddenMember DEF no, yes
    <3>14. chosen[c] = read
      BY <1>1, <3>11, <3>12, <3>13, MemberYes
    <3> QED
      BY <2>1, <2>2, <3>1, <3>11, <3>14
  <2> QED
    BY <2>4, <2>5
<1>6. \A c \in Choice : TriNow(c) = yes =>
        CalcChoice(c, SeenNow(c), ChoiceYes(c)) = PickOf(c, curr, ReadVal(Written, c))
  BY <1>5
<1>7. \A s \in Symbol \ Choice : curr[s] = ValueOf(s, curr, chosen, Written[s])
  BY <1>4
<1> HIDE DEF Written
<1> QED
  BY <1>6, <1>7, SolvesNow

(* The settings are those of the file from its lines to the end of the read.  *)
AsRead ==
  op \in {"reading", "loading"} =>
    /\ file \in Config
    /\ \A s \in Symbol \ Choice : (file[s] = None => defUser[s] = FALSE)
                                /\ (file[s] # None => defUser[s] = TRUE /\ defTri[s] = file[s])
    /\ \A c \in Choice : defVal[c] = ReadVal(file, c)

(* The values that were written are what the file says.                      *)
Recorded ==
  wrote # None =>
    /\ file \in Config
    /\ \E v \in [Symbol -> Tristate], k \in [Choice -> Member \cup {None}] :
         wrote = [s \in Symbol \ Choice |-> v[s]] /\ Solves(v, k, file)

LEMMA AsReadStep ==
  ASSUME SeenInv, AsRead, [Next]_vars
  PROVE  AsRead'
<1>0. TypeOK /\ OwnValues /\ Settled /\ Choice \subseteq Symbol
  BY SymbolAssumption DEF SeenInv
<1>1. ASSUME NEW f \in Config, ReadLines(f), file' = f PROVE AsRead'
  <2>1. /\ \A s \in Symbol \ Choice : defUser'[s] = (f[s] # None)
                                     /\ defTri'[s] = IF f[s] = None THEN no ELSE f[s]
        /\ \A c \in Choice : defVal'[c] = ReadVal(f, c)
    BY <1>1 DEF ReadLines
  <2>2. \A c \in Choice : ReadVal(file, c)' = ReadVal(f, c)
    BY <1>1 DEF ReadVal, Yeses, LinesOf
  <2> QED
    BY <1>1, <2>1, <2>2 DEF AsRead
<1>2. CASE ReadStart
  BY <1>0, <1>1, <1>2 DEF ReadStart, TypeOK
<1>3. ASSUME NEW f \in HandMade \cup {file}, Load(f) PROVE AsRead'
  BY <1>0, <1>1, <1>3, FileAssumption DEF Load, TypeOK
<1>4. ASSUME UNCHANGED <<op, file, defTri, defVal>>,
             \A s \in Symbol \ Choice : defUser'[s] = defUser[s]
      PROVE  AsRead'
  <2>1. \A c \in Choice : ReadVal(file, c)' = ReadVal(file, c)
    BY <1>4 DEF ReadVal, Yeses, LinesOf
  <2> QED
    BY <1>4, <2>1 DEF AsRead
<1>5. CASE CalcValue
  <2>1. ASSUME NEW s \in Symbol \ Choice, CalcSymbol(s) PROVE AsRead'
    BY <1>4, <2>1 DEF CalcSymbol, user
  <2>2. ASSUME NEW c \in Choice, CalcChoiceSymbol(c), op # "start" PROVE AsRead'
    <3>1. UNCHANGED <<op, file, defTri, defVal>>
      BY <2>2, CalcChoiceSymbolSteps
    <3>2. \A s \in Symbol : s # c => defUser'[s] = defUser[s]
      BY <1>0, <2>2, CalcChoiceSymbolSame
    <3> QED
      BY <1>4, <3>1, <3>2
  <2> QED
    BY <1>5, <2>1, <2>2 DEF CalcValue
<1>6. CASE UNCHANGED vars
  BY <1>4, <1>6 DEF vars, user
<1>7. ASSUME op' \notin {"reading", "loading"} PROVE AsRead'
  BY <1>7 DEF AsRead
<1>8. ASSUME NEW s \in Symbol, NEW val \in Tristate, SetTristate(s, val) PROVE AsRead'
  BY <1>7, <1>8 DEF SetTristate, Editable, Set
<1>9. ASSUME NEW s \in Symbol, Toggle(s) PROVE AsRead'
  BY <1>7, <1>9 DEF Toggle, Editable, Set
<1>10. CASE ReadMissing \/ ReadFinish \/ WriteStart \/ WriteFinish \/ Restart
  BY <1>7, <1>10 DEF ReadMissing, ReadFinish, WriteStart, WriteFinish, Emitted, Restart
<1> QED
  BY <1>2, <1>3, <1>5, <1>6, <1>8, <1>9, <1>10 DEF Next

LEMMA RecordedStep ==
  ASSUME PlainChoices, PlainDefaults, PlainMembers, PlainInv, MarksInv, Recorded, [Next]_vars
  PROVE  Recorded'
<1>0. TypeOK
  BY PlainInvParts
<1>1. ASSUME NEW v \in [Symbol -> Tristate], NEW k \in [Choice -> Member \cup {None}],
             file' \in Config, wrote' = [s \in Symbol \ Choice |-> v[s]], Solves(v, k, file')
      PROVE  Recorded'
  BY <1>1 DEF Recorded
<1>2. ASSUME UNCHANGED <<file, wrote>> PROVE Recorded'
  <2> SUFFICES ASSUME wrote # None PROVE Recorded'
    BY <1>2 DEF Recorded
  <2>1. file \in Config
    BY DEF Recorded
  <2>2. PICK v \in [Symbol -> Tristate], k \in [Choice -> Member \cup {None}] :
          wrote = [s \in Symbol \ Choice |-> v[s]] /\ Solves(v, k, file)
    BY DEF Recorded
  <2> QED
    BY <1>1, <1>2, <2>1, <2>2
<1>3. CASE WriteFinish
  <2>1. /\ op = "writing" /\ \A s \in Symbol : valid[s]
        /\ file' = Written /\ wrote' = [s \in Symbol \ Choice |-> curr[s]]
    BY <1>3 DEF WriteFinish, Emitted
  <2>2. Solves(curr, chosen, Written)
    BY <2>1, SolvedByWrite
  <2>3. Written \in Config
    BY <1>0 DEF Written, Config, TypeOK
  <2> QED
    BY <1>0, <1>1, <2>1, <2>2, <2>3 DEF TypeOK
<1>4. ASSUME NEW f \in HandMade \cup {file}, Load(f) PROVE Recorded'
  <2>1. CASE f = file
    BY <1>2, <1>4, <2>1 DEF Load
  <2>2. CASE f # file
    BY <1>4, <2>2 DEF Load, Recorded
  <2> QED
    BY <2>1, <2>2
<1>5. CASE CalcValue
  <2>1. ASSUME NEW s \in Symbol \ Choice, CalcSymbol(s) PROVE Recorded'
    BY <1>2, <2>1 DEF CalcSymbol
  <2>2. ASSUME NEW c \in Choice, CalcChoiceSymbol(c), op # "start" PROVE Recorded'
    BY <1>2, <2>2, CalcChoiceSymbolSteps
  <2> QED
    BY <1>5, <2>1, <2>2 DEF CalcValue
<1>6. ASSUME NEW s \in Symbol, NEW val \in Tristate, SetTristate(s, val) PROVE Recorded'
  BY <1>2, <1>6 DEF SetTristate, Set
<1>7. ASSUME NEW s \in Symbol, Toggle(s) PROVE Recorded'
  BY <1>2, <1>7 DEF Toggle, Set
<1>8. CASE ReadStart \/ ReadMissing \/ ReadFinish \/ WriteStart \/ Restart
  BY <1>2, <1>8 DEF ReadStart, ReadMissing, ReadFinish, WriteStart, Restart
<1>9. CASE UNCHANGED vars
  BY <1>2, <1>9 DEF vars
<1> QED
  BY <1>3, <1>4, <1>5, <1>6, <1>7, <1>8, <1>9 DEF Next

(* Reading back what was written restores the value of every symbol: those   *)
(* that were not written follow from the others.  The values written and the *)
(* values read both are what the file says, and in a menu without recursive  *)
(* dependencies that is one set of values.                                   *)
THEOREM SavedComesBack ==
  ASSUME PlainChoices, PlainDefaults, PlainMembers, Acyclic
  PROVE  Spec => RoundTrip
<1>1. ASSUME PlainInv, AsRead, Recorded, ReadFinish, wrote # None
      PROVE  \A s \in Symbol \ Choice : curr[s] = wrote[s]
  <2>1. op \in {"reading", "loading"} /\ \A s \in Symbol : valid[s]
    BY <1>1 DEF ReadFinish
  <2>2. Solves(curr, chosen, file)
    BY <1>1, <2>1, SolvedByRead DEF AsRead
  <2>3. PICK v \in [Symbol -> Tristate], k \in [Choice -> Member \cup {None}] :
          wrote = [s \in Symbol \ Choice |-> v[s]] /\ Solves(v, k, file)
    BY <1>1 DEF Recorded
  <2>4. curr \in [Symbol -> Tristate]
    BY <1>1, PlainInvParts DEF TypeOK
  <2>5. curr = v
    BY <2>2, <2>3, <2>4, OneSolution
  <2> QED
    BY <2>3, <2>5
<1>2. Init => AsRead /\ Recorded
  BY DEF Init, AsRead, Recorded
<1>3. PlainInv /\ [Next]_vars => PlainInv'
  BY PlainInvStep
<1>4. PlainInv /\ AsRead /\ [Next]_vars => AsRead'
  BY AsReadStep, PlainInvParts
<1>5. PlainInv /\ MarksInv /\ [Next]_vars => MarksInv'
  BY MarksStep, PlainInvParts
<1>6. PlainInv /\ MarksInv /\ Recorded /\ [Next]_vars => Recorded'
  BY RecordedStep
<1> QED
  BY <1>1, <1>2, <1>3, <1>4, <1>5, <1>6, PlainInvInit, MarksInit, PTL DEF Spec, RoundTrip
=============================================================================
