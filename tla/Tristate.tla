------------------------------ MODULE Tristate ------------------------------
(***************************************************************************)
(* The three-valued logic of kconfig and dependency expressions over it.   *)
(*                                                                         *)
(* An expression is kept in disjunctive normal form: a set of clauses,     *)
(* each a set of literals, the value of a clause being the minimum of its  *)
(* literals and the value of the expression the maximum of its clauses.    *)
(* Every tree the parser builds from E_AND, E_OR, E_NOT, E_EQUAL and       *)
(* E_UNEQUAL has one, because min, max and 2-x form a De Morgan lattice.   *)
(* A literal applies a unary function to one symbol: the identity for a    *)
(* plain symbol, 2-x for a negated one, a comparison for FOO=m.            *)
(***************************************************************************)
EXTENDS Naturals

no == 0
mod == 1
yes == 2
Tristate == {no, mod, yes}

(* EXPR_AND, EXPR_OR and EXPR_NOT. *)
And(a, b) == IF a < b THEN a ELSE b
Or(a, b) == IF a > b THEN a ELSE b
Not(a) == 2 - a

(* The literals: FOO, !FOO and FOO=t. *)
Lit(s) == [sym |-> s, of |-> [t \in Tristate |-> t]]
NotLit(s) == [sym |-> s, of |-> [t \in Tristate |-> Not(t)]]
EqLit(s, u) == [sym |-> s, of |-> [t \in Tristate |-> IF t = u THEN yes ELSE no]]

Literals(S) == [sym : S, of : [Tristate -> Tristate]]
Exprs(S) == SUBSET (SUBSET Literals(S))

(* The empty conjunction and the empty disjunction: the constants y and n. *)
Always == {{}}
Never == {}

SymbolsOf(e) == {l.sym : l \in UNION e}

(* The value of expression e when every symbol s it names has value v[s]. *)
Eval(e, v) ==
  IF \E c \in e : \A l \in c : l.of[v[l.sym]] = yes THEN yes
  ELSE IF \E c \in e : \A l \in c : l.of[v[l.sym]] # no THEN mod
  ELSE no
=============================================================================
