-------------------------- MODULE MCKconfigChoice --------------------------
(***************************************************************************)
(* A menu with a choice CH that is visible when the boolean D is set, with *)
(* the values X and Y, Y only visible while modules are switched off.  A   *)
(* choice that is not optional has itself, weakened to m, as reverse       *)
(* dependency.                                                             *)
(***************************************************************************)
EXTENDS KconfigSymbols, TLC

CONSTANT MCChoiceType

MCSymbol == {"MODULES", "D", "CH", "X", "Y"}
MCChoice == {"CH"}
MCType == [s \in MCSymbol |-> IF s \in {"CH", "X", "Y"} THEN MCChoiceType ELSE "boolean"]
Mod(s) == [sym |-> s, of |-> [t \in Tristate |-> And(t, mod)]]
MCPrompt ==
  [s \in MCSymbol |->
     CASE s = "CH" -> {{Lit("D")}}
       [] s = "X" -> {{Lit("CH")}}
       [] s = "Y" -> {{Lit("CH"), NotLit("MODULES")}}
       [] OTHER -> Always]
MCDefault == [s \in MCSymbol |-> <<>>]
MCRevDep == [s \in MCSymbol |-> IF s = "CH" THEN {{Mod("D")}} ELSE Never]
MCMembers == [c \in MCChoice |-> <<"X", "Y">>]
MCChoiceDefault == [c \in MCChoice |-> <<[sym |-> "Y", cond |-> Always]>>]
MCHandMade ==
  {None} \cup
  {[s \in MCSymbol \ MCChoice |->
      CASE s = "D" -> yes [] s = "X" -> x [] s = "Y" -> y [] OTHER -> None] :
     x \in {yes}, y \in {None, yes}}

(* The menu is one the theorems speak of, as long as its choice is boolean.  *)
MCRank == [s \in MCSymbol |->
             CASE s = "MODULES" -> 0 [] s = "D" -> 1 [] s = "CH" -> 2 [] OTHER -> 3]
ASSUME MCChoiceAssumption ==
  Ranks(MCRank) /\ (MCChoiceType = "boolean" => PlainChoices /\ PlainDefaults /\ PlainMembers)
=============================================================================
