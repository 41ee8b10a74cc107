----------------------------- MODULE KconfigExpr -----------------------------
(***************************************************************************)
(* The rewriting of dependency expressions by menu_finalize: transform,    *)
(* elimination of duplicates pass by pass, the reduction for boolean       *)
(* symbols, and the test by which an entry becomes a submenu entry of the  *)
(* one before it.  The C code rewrites trees in place through two pointers *)
(* that may point into the same tree; here a position is a path into one   *)
(* tree, and two trees worked on together are the halves of a pair.        *)
(***************************************************************************)
EXTENDS Naturals, Sequences

CONSTANTS
  Tri,      \* the tristate symbols
  Bool,     \* the boolean symbols
  Modules,  \* modules_sym, one of Bool
  Source    \* the pairs <<basedep, dep>> of expressions the parser may build

no == 0
mod == 1
yes == 2

Const == {"n", "m", "y"}
ConstValue == [c \in Const |-> CASE c = "n" -> no [] c = "m" -> mod [] c = "y" -> yes]
Valuation == [Tri \cup Bool -> {no, mod, yes}]
Values == {v \in Valuation : \A b \in Bool : v[b] # mod}

Null == [op |-> "none"]
Sym(s) == [op |-> "sym", s |-> s]
Eq(s, c) == [op |-> "eq", s |-> s, c |-> c]
Ne(s, c) == [op |-> "ne", s |-> s, c |-> c]
Not(e) == [op |-> "not", l |-> e]
And(e, f) == [op |-> "and", l |-> e, r |-> f]
Or(e, f) == [op |-> "or", l |-> e, r |-> f]

Least(a, b) == IF a < b THEN a ELSE b
Most(a, b) == IF a > b THEN a ELSE b

(* expr_calc_value. *)
SymValue(s, v) == IF s \in Const THEN ConstValue[s] ELSE v[s]
RECURSIVE Value(_, _)
Value(e, v) ==
  CASE e.op = "sym" -> SymValue(e.s, v)
    [] e.op = "eq" -> IF v[e.s] = ConstValue[e.c] THEN yes ELSE no
    [] e.op = "ne" -> IF v[e.s] = ConstValue[e.c] THEN no ELSE yes
    [] e.op = "not" -> 2 - Value(e.l, v)
    [] e.op = "and" -> Least(Value(e.l, v), Value(e.r, v))
    [] e.op = "or" -> Most(Value(e.l, v), Value(e.r, v))

Joining == {"and", "or"}
IsYes(e) == e = Sym("y")
IsNo(e) == e = Sym("n")

-----------------------------------------------------------------------------
(* Paths. *)

RECURSIVE Get(_, _)
Get(t, p) == IF p = <<>> THEN t ELSE Get(t[Head(p)], Tail(p))
RECURSIVE Put(_, _, _)
Put(t, p, e) ==
  IF p = <<>> THEN e ELSE [t EXCEPT ![Head(p)] = Put(t[Head(p)], Tail(p), e)]
L(p) == Append(p, "l")
R(p) == Append(p, "r")
Pair(e, f) == [op |-> "pair", l |-> e, r |-> f]

-----------------------------------------------------------------------------
(* The constant of an operation that leaves the other operand as it is, and  *)
(* the one that decides the result.                                          *)
Neutral == [o \in Joining |-> IF o = "and" THEN "y" ELSE "n"]
Decisive == [o \in Joining |-> IF o = "and" THEN "n" ELSE "y"]

(* expr_eliminate_yn. *)
Simplify(o, l, r) ==
  IF l = Sym(Decisive[o]) THEN l
  ELSE IF l = Sym(Neutral[o]) THEN r
  ELSE IF r = Sym(Decisive[o]) THEN r
  ELSE IF r = Sym(Neutral[o]) THEN l
  ELSE [op |-> o, l |-> l, r |-> r]
RECURSIVE EliminateYn(_)
EliminateYn(e) ==
  IF e.op \in Joining THEN Simplify(e.op, EliminateYn(e.l), EliminateYn(e.r)) ELSE e

(* __expr_eliminate_eq and expr_eq: what the two trees under paths p and q   *)
(* have in common is replaced by the neutral constant on both sides.         *)
RECURSIVE EliminateEqIn(_, _, _, _), ExprEq(_, _), EliminateEq(_, _)
EliminateEqIn(type, t, p, q) ==
  LET e == Get(t, p)  f == Get(t, q)
  IN  IF e.op = type
      THEN EliminateEqIn(type, EliminateEqIn(type, t, L(p), q), R(p), q)
      ELSE IF f.op = type
      THEN EliminateEqIn(type, EliminateEqIn(type, t, p, L(q)), p, R(q))
      ELSE IF (e = f /\ (IsYes(e) \/ IsNo(e))) \/ ~ExprEq(e, f) THEN t
      ELSE Put(Put(t, p, Sym(Neutral[type])), q, Sym(Neutral[type]))
EqOfLeft(t) ==
  IF t.l.op \in Joining THEN EliminateEqIn(t.l.op, t, <<"l">>, <<"r">>) ELSE t
EqOfRight(t) ==
  IF t.l.op # t.r.op /\ t.r.op \in Joining
  THEN EliminateEqIn(t.r.op, t, <<"l">>, <<"r">>) ELSE t
Halves(t) == Pair(EliminateYn(t.l), EliminateYn(t.r))
EliminateEq(e, f) == Halves(EqOfRight(EqOfLeft(Pair(e, f))))
SameConstant(t) == t.l.op = "sym" /\ t.l = t.r
ExprEq(e, f) ==
  /\ e.op = f.op
  /\ CASE e.op = "not" -> ExprEq(e.l, f.l)
       [] e.op \in Joining -> SameConstant(EliminateEq(e, f))
       [] OTHER -> e = f

(* expr_transform, bottom up. *)
RECURSIVE Transform(_)
TransformLeaf(e) ==
  IF e.s \notin Bool THEN e
  ELSE LET asked == IF e.op = "eq" THEN e.c
                    ELSE CASE e.c = "y" -> "n" [] e.c = "n" -> "y" [] OTHER -> "other"
       IN  CASE asked = "y" -> Sym(e.s)
             [] asked = "n" -> Not(Sym(e.s))
             [] asked = "m" -> Sym("n")
             [] asked = "other" -> Sym("y")
TransformNot(e) ==
  CASE e.op = "not" -> Transform(e.l)
    [] e.op = "eq" -> Ne(e.s, e.c)
    [] e.op = "ne" -> Eq(e.s, e.c)
    [] e.op = "or" -> Transform(And(Not(e.l), Not(e.r)))
    [] e.op = "and" -> Transform(Or(Not(e.l), Not(e.r)))
    [] e.op = "sym" ->
         IF e.s \in Const THEN Sym(CASE e.s = "y" -> "n" [] e.s = "m" -> "m" [] e.s = "n" -> "y")
         ELSE Not(e)
Transform(e) ==
  CASE e.op \in {"eq", "ne"} -> TransformLeaf(e)
    [] e.op = "not" -> TransformNot(Transform(e.l))
    [] e.op \in Joining -> [op |-> e.op, l |-> Transform(e.l), r |-> Transform(e.r)]
    [] OTHER -> e

(* expr_trans_bool. *)
RECURSIVE TransBool(_)
TransBool(e) ==
  CASE e.op \in Joining -> [op |-> e.op, l |-> TransBool(e.l), r |-> TransBool(e.r)]
    [] e.op = "not" -> Not(TransBool(e.l))
    [] e.op = "ne" /\ e.s \in Tri /\ e.c = "n" -> Sym(e.s)
    [] OTHER -> e

-----------------------------------------------------------------------------
(* expr_join_or and expr_join_and: two operands as one, or Null.             *)
Simple == {"eq", "ne", "sym", "not"}
Mentions(e) == IF e.op = "not" THEN e.l.s ELSE e.s
Joinable(e, f) ==
  /\ e.op \in Simple /\ f.op \in Simple
  /\ e.op = "not" => e.l.op \in {"eq", "ne", "sym"}
  /\ f.op = "not" => f.l.op = "sym"
  /\ Mentions(e) = Mentions(f) /\ Mentions(e) \in Tri \cup Bool

(* Two comparisons of the kind o with the constants c and d, either way.     *)
Compares(e, f, o, c, d) == e.op = o /\ f.op = o /\ {e.c, f.c} = {c, d}
(* A symbol, and its comparison of the kind o with the constant c.           *)
With(e, f, o, c) ==
  \/ e.op = "sym" /\ f.op = o /\ f.c = c
  \/ f.op = "sym" /\ e.op = o /\ e.c = c

JoinOr(e, f) ==
  LET s == Mentions(e)
  IN  IF ExprEq(e, f) THEN e
      ELSE IF ~Joinable(e, f) THEN Null
      ELSE IF s \in Tri
      THEN CASE Compares(e, f, "eq", "y", "m") -> Ne(s, "n")
             [] Compares(e, f, "eq", "y", "n") -> Ne(s, "m")
             [] Compares(e, f, "eq", "m", "n") -> Ne(s, "y")
             [] OTHER -> Null
      ELSE IF {e, f} = {Sym(s), Not(Sym(s))} THEN Sym("y") ELSE Null

(* Bug: a symbol that is neither m nor n is taken to be m. *)
JoinAndMixed(e, f) ==
  LET s == Mentions(e)
  IN  IF ExprEq(e, f) THEN e
      ELSE IF ~Joinable(e, f) THEN Null
      ELSE IF With(e, f, "eq", "y") \/ With(e, f, "ne", "m") THEN Eq(s, "y")
      ELSE IF With(e, f, "ne", "n") THEN Sym(s)
      ELSE IF s \notin Tri THEN Null
      ELSE CASE e.op = "eq" /\ f.op = "ne" -> IF e.c # f.c THEN e ELSE Sym("n")
             [] e.op = "ne" /\ f.op = "eq" -> IF e.c # f.c THEN f ELSE Sym("n")
             [] Compares(e, f, "ne", "y", "n") -> Eq(s, "m")
             [] Compares(e, f, "ne", "y", "m") -> Eq(s, "n")
             [] Compares(e, f, "ne", "m", "n") -> Eq(s, "m")
             [] OTHER -> Null

JoinAnd(e, f) ==
  LET s == Mentions(e)
  IN  IF ExprEq(e, f) THEN e
      ELSE IF ~Joinable(e, f) THEN Null
      ELSE IF With(e, f, "eq", "y") \/ With(e, f, "ne", "m") THEN Eq(s, "y")
      ELSE IF With(e, f, "ne", "n") THEN Sym(s)
      ELSE IF s \notin Tri THEN Null
      ELSE CASE e.op = "eq" /\ f.op = "ne" -> IF e.c # f.c THEN e ELSE Sym("n")
             [] e.op = "ne" /\ f.op = "eq" -> IF e.c # f.c THEN f ELSE Sym("n")
             [] Compares(e, f, "ne", "y", "n") -> Eq(s, "m")
             [] Compares(e, f, "ne", "y", "m") -> Eq(s, "n")
             [] Compares(e, f, "ne", "m", "n") -> Eq(s, "y")
             [] OTHER -> Null

(* A tree being worked on, and whether anything was done to it.              *)
Untouched(t) == [t |-> t, done |-> FALSE]
Replace(w, p, e, q, f) == [t |-> Put(Put(w.t, p, e), q, f), done |-> TRUE]

(* expr_extract_eq takes the operands of the two trees that are equal out of *)
(* both.                                                                     *)
RECURSIVE ExtractEq(_, _, _, _)
ExtractEq(type, w, p, q) ==
  LET e == Get(w.t, p)  f == Get(w.t, q)
  IN  IF e.op = type THEN ExtractEq(type, ExtractEq(type, w, L(p), q), R(p), q)
      ELSE IF f.op = type THEN ExtractEq(type, ExtractEq(type, w, p, L(q)), p, R(q))
      ELSE IF ExprEq(e, f) THEN Replace(w, p, Sym(Neutral[type]), q, Sym(Neutral[type]))
      ELSE w
Halved(type, e, f) == ExtractEq(type, Untouched(Pair(e, f)), <<"l">>, <<"r">>)

(* Bug: what is left of the other tree is used. *)
FirstHalfOther(w) == IF w.done THEN EliminateYn(w.t.r) ELSE w.t.l

(* What is left of the first tree. *)
FirstHalf(w) == IF w.done THEN EliminateYn(w.t.l) ELSE w.t.l

(* expr_eliminate_dups1: every two operands of the operation type under the  *)
(* paths p and q are joined, if they can be, the first becoming neutral.     *)
Joined(type, e, f) == IF type = "or" THEN JoinOr(e, f) ELSE JoinAnd(e, f)
ReplaceBy(w, p, e, q, f) == IF f = Null THEN w ELSE Replace(w, p, e, q, f)
JoinTwo(type, w, p, q) ==
  ReplaceBy(w, p, Sym(Neutral[type]), q, Joined(type, Get(w.t, p), Get(w.t, q)))
RECURSIVE Dups1(_, _, _, _)
Dups1(type, w, p, q) ==
  LET inner == Get(w.t, p).op
  IN  IF inner = type THEN Dups1(type, Dups1(type, w, L(p), q), R(p), q)
      ELSE IF Get(w.t, q).op = type THEN Dups1(type, Dups1(type, w, p, L(q)), p, R(q))
      ELSE IF p = q THEN w
      ELSE JoinTwo(type, IF inner \in Joining THEN Dups1(inner, w, p, p) ELSE w, p, q)

(* expr_eliminate_dups2: an operand whose negation is all contained in what  *)
(* it is joined with decides the result.  When q leads to an operation of    *)
(* the same type the C code goes on with q itself after its operands.        *)
Opposite == [o \in Joining |-> IF o = "or" THEN "and" ELSE "or"]
Absorb(o, w, p, q) ==
  IF FirstHalf(Halved(o, Transform(Not(Get(w.t, p))), Get(w.t, q))) = Sym(Neutral[o])
  THEN [t |-> Put(w.t, p, Sym(Decisive[o])), done |-> TRUE] ELSE w
RECURSIVE Dups2(_, _, _, _), Dups2Here(_, _, _, _)
Dups2Here(type, w, p, q) ==
  LET inner == Get(w.t, p).op
  IN  IF p = q \/ inner \notin Joining THEN w
      ELSE Absorb(Opposite[inner], Dups2(inner, w, p, p), p, q)
Dups2(type, w, p, q) ==
  IF Get(w.t, p).op = type THEN Dups2(type, Dups2(type, w, L(p), q), R(p), q)
  ELSE Dups2Here(type,
         IF Get(w.t, q).op # type THEN w ELSE Dups2(type, Dups2(type, w, p, L(q)), p, R(q)),
         p, q)

DupsPasses(e) ==
  IF e.op \notin Joining THEN Untouched(e)
  ELSE Dups2(e.op, Dups1(e.op, Untouched(e), <<>>, <<>>), <<>>, <<>>)

(* Bug: the constants a round leaves behind are not removed. *)
TidyNothing(w) == w

Tidy(w) == [w EXCEPT !.t = IF w.done THEN EliminateYn(w.t) ELSE w.t]

(* One round of expr_eliminate_dups; the last one is the first to do nothing. *)
DupsRound(e) == Tidy(DupsPasses(e))

RECURSIVE EliminateDups(_), NextRound(_)
NextRound(w) == IF w.done THEN EliminateDups(w.t) ELSE w.t
EliminateDups(e) == NextRound(DupsRound(e))

-----------------------------------------------------------------------------
(* Submenus. *)

(* expr_trans_compare(e, E_UNEQUAL, &symbol_no) and, for the operands of its *)
(* operations, expr_trans_compare(e, E_EQUAL, &symbol_no).                   *)
RECURSIVE IsOn(_), IsOff(_)
IsOff(e) ==
  CASE e.op = "and" -> Or(IsOff(e.l), IsOff(e.r))
    [] e.op = "or" -> And(IsOff(e.l), IsOff(e.r))
    [] e.op = "not" -> IsOn(e.l)
    [] e.op \in {"eq", "ne"} -> Not(e)
    [] e.op = "sym" -> Eq(e.s, "n")
IsOn(e) ==
  CASE e.op \in Joining -> Not(IsOff(e))
    [] e.op = "not" -> IsOff(e.l)
    [] e.op \in {"eq", "ne"} -> e
    [] e.op = "sym" -> Ne(e.s, "n")

(* expr_contains_symbol and expr_depends_symbol. *)
RECURSIVE Contains(_, _), Depends(_, _)
Contains(e, s) ==
  CASE e.op \in Joining -> Contains(e.l, s) \/ Contains(e.r, s)
    [] e.op = "not" -> Contains(e.l, s)
    [] OTHER -> e.s = s
Depends(e, s) ==
  CASE e.op = "and" -> Depends(e.l, s) \/ Depends(e.r, s)
    [] e.op = "sym" -> e.s = s
    [] e.op = "eq" -> e.s = s /\ e.c # "n"
    [] e.op = "ne" -> e.s = s /\ e.c = "n"
    [] OTHER -> FALSE

(* Bug: the roles of the two expressions are swapped. *)
SupersetSwapped(b, d) ==
  LET t == EliminateEq(EliminateDups(Transform(IsOn(d))), EliminateDups(Transform(IsOn(b))))
  IN  IsYes(t.l)

(* Whether d asks for all that b asks for. *)
Superset(b, d) ==
  LET t == EliminateEq(EliminateDups(Transform(IsOn(d))), EliminateDups(Transform(IsOn(b))))
  IN  IsYes(t.r)

-----------------------------------------------------------------------------
VARIABLES
  src,    \* history: the two expressions as parsed
  base,   \* the first, then the prompt condition of the first entry
  dep,    \* the second, then the condition of the second entry
  at      \* how far menu_finalize is

vars == <<src, base, dep, at>>

(* menu_check_dep: m stands for m && MODULES. *)
RECURSIVE CheckDep(_)
CheckDep(e) ==
  CASE e.op \in Joining -> [op |-> e.op, l |-> CheckDep(e.l), r |-> CheckDep(e.r)]
    [] e.op = "not" -> Not(CheckDep(e.l))
    [] e = Sym("m") -> And(e, Sym(Modules))
    [] OTHER -> e

Init ==
  /\ src \in {<<CheckDep(p[1]), CheckDep(p[2])>> : p \in Source}
  /\ base = src[1] /\ dep = src[2] /\ at = "parsed"

Transforms ==
  /\ at = "parsed" /\ at' = "base"
  /\ base' = Transform(base) /\ dep' = Transform(dep)
  /\ UNCHANGED src

(* A round of expr_eliminate_dups on the expression menu_finalize is at. *)
ReduceBase ==
  /\ at = "base"
  /\ LET w == DupsRound(base)
     IN  base' = w.t /\ at' = IF w.done THEN "base" ELSE "dep"
  /\ UNCHANGED <<src, dep>>
ReduceDep ==
  /\ at \in {"dep", "joined"}
  /\ LET w == DupsRound(dep)
     IN  dep' = w.t /\ at' = IF w.done THEN at ELSE IF at = "dep" THEN "siblings" ELSE "final"
  /\ UNCHANGED <<src, base>>

(* The second entry is in a block that the first expression guards: what was *)
(* parsed is transformed and joined before any of it is reduced.             *)
Join ==
  /\ at = "siblings" /\ at' = "joined"
  /\ dep' = And(base, Transform(src[2]))
  /\ UNCHANGED <<src, base>>

(* The condition of a symbol that is not tristate. *)
ReduceBool ==
  /\ at = "final" /\ at' = "bool"
  /\ dep' = TransBool(dep)
  /\ UNCHANGED <<src, base>>

Next == Transforms \/ ReduceBase \/ ReduceDep \/ Join \/ ReduceBool

Spec == Init /\ [][Next]_vars

-----------------------------------------------------------------------------
(* The value the parsed expressions give, where at says they are joined. *)
BaseValue(v) == Value(src[1], v)
DepValue(v) ==
  IF at \in {"joined", "final", "bool"} THEN Least(BaseValue(v), Value(src[2], v))
  ELSE Value(src[2], v)

(* Rewriting does not change what an expression means where that is n or y:  *)
(* for every value of the symbols, m included, each round of each pass keeps *)
(* a condition that fails failing and one that holds holding.  What is then  *)
(* rewritten for a boolean symbol still shows the symbol where it should be  *)
(* shown and hides it where it should be hidden.                             *)
MeaningKept ==
  \A v \in Values :
    IF at = "bool"
    THEN /\ DepValue(v) = yes => Value(dep, v) # no
         /\ DepValue(v) = no => Value(dep, v) = no
    ELSE /\ BaseValue(v) # mod => Value(base, v) = BaseValue(v)
         /\ DepValue(v) # mod => Value(dep, v) = DepValue(v)

RECURSIVE NegatedIn(_)
NegatedIn(e) ==
  CASE e.op \in Joining -> NegatedIn(e.l) \cup NegatedIn(e.r)
    [] e.op = "not" -> {e.l.s}
    [] OTHER -> {}

(* An entry is made a submenu entry of the one before it, without naming its *)
(* symbol as a condition, only if it is never shown where that is not: the   *)
(* user could not get at it otherwise.  The code takes !A for A='n', which   *)
(* is wrong where A is m, so a negated symbol has to be n or y.  And if it   *)
(* does name the symbol, only if it is never shown with it off.              *)
SubmenuShown ==
  at = "siblings" => \A v \in Values :
    /\ Superset(base, dep) /\ (\A s \in NegatedIn(base) \cup NegatedIn(dep) : v[s] # mod) =>
         (Value(dep, v) # no => Value(base, v) # no)
    /\ \A s \in Tri \cup Bool : Depends(dep, s) =>
         Contains(dep, s) /\ (Value(dep, v) # no => v[s] # no)

RECURSIVE Leaves(_)
Leaves(e) ==
  CASE e.op \in Joining -> Leaves(e.l) + Leaves(e.r)
    [] e.op = "not" -> Leaves(e.l)
    [] OTHER -> 1

(* The rounds of expr_eliminate_dups come to an end: one that asks for       *)
(* another has made the expression smaller.                                  *)
RoundsShrink ==
  [][at' = at => Leaves(base') + Leaves(dep') < Leaves(base) + Leaves(dep)]_vars
=============================================================================
