-------------------------- MODULE MCKconfigSelect --------------------------
(***************************************************************************)
(* A small menu without a choice: MODULES, a tristate A, a tristate B that *)
(* depends on A and is on by default, and a boolean C that B selects, which *)
(* some runs leave out.                                                    *)
(***************************************************************************)
EXTENDS KconfigSymbols, TLC

CONSTANT MCDefaultCond   \* the condition of B's default

MCType == [s \in Symbol |-> IF s \in {"A", "B"} THEN "tristate" ELSE "boolean"]
MCPrompt ==
  [s \in Symbol |-> IF s = "B" THEN {{Lit("A")}} ELSE Always]
MCDefault ==
  [s \in Symbol |->
     IF s = "B" THEN <<[val |-> Always, cond |-> MCDefaultCond]>> ELSE <<>>]
MCPlainCond == {{Lit("A")}}
MCRevDep == [s \in Symbol |-> IF s = "C" THEN {{Lit("B")}} ELSE Never]
MCMembers == [c \in {} |-> <<>>]
(* No file, one that leaves out what it does not set, and one in which A was  *)
(* switched off by hand under a B that depends on it.                         *)
MCHandMade ==
  {None, [s \in Symbol |-> CASE s = "A" -> mod [] s = "B" -> yes [] OTHER -> None],
         [s \in Symbol |-> IF s \in {"MODULES", "B"} THEN yes ELSE no]}

(* The menu is one the theorems speak of, as long as the default of B keeps  *)
(* to its prompt.                                                            *)
MCRank == [s \in Symbol |->
             CASE s = "MODULES" -> 0 [] s = "A" -> 1 [] s = "B" -> 2 [] s = "C" -> 3]
ASSUME MCSelectAssumption ==
  Ranks(MCRank) /\ PlainChoices /\ (MCDefaultCond = MCPlainCond => PlainDefaults)
=============================================================================
