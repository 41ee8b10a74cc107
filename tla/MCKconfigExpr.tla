--------------------------- MODULE MCKconfigExpr ---------------------------
(***************************************************************************)
(* MCComparisons has every two literals over a tristate A and a boolean F  *)
(* under one operation, beside two conditions of a first entry; MCNested   *)
(* has operations on A, B and their negations, negated and joined again.   *)
(***************************************************************************)
EXTENDS KconfigExpr

Negated(S) == S \cup {Not(e) : e \in S}
Operations(S, T) == {And(e, f) : e \in S, f \in T} \cup {Or(e, f) : e \in S, f \in T}

MCLiterals ==
  {Sym("m")} \cup Negated({Sym("A"), Sym("F")})
  \cup {Eq(s, c) : s \in {"A", "F"}, c \in Const} \cup {Ne(s, c) : s \in {"A", "F"}, c \in Const}
MCComparisons == {Sym("A"), Ne("A", "n"), Or(Sym("A"), Sym("F")), And(Sym("F"), Sym("A"))}
  \X Operations(MCLiterals, MCLiterals)

MCPlain == Negated({Sym("A"), Sym("B")})
MCNested ==
  (Operations(MCPlain, MCPlain) \X Negated(Operations(MCPlain, MCPlain)))
  \cup ({Sym("A"), Or(Sym("B"), Not(Sym("A")))}
         \X Operations(Operations(MCPlain, MCPlain), Operations(MCPlain, MCPlain)))
MCSource == MCComparisons \cup MCNested
=============================================================================
