------------------------- MODULE MCKconfigFrontends -------------------------
(***************************************************************************)
(* A menu with the module switch, a choice of the targets X and Y, of      *)
(* which Y selects the tristate A, a number N below A, and a submenu, only *)
(* there with A, with a string S and a hex number H.                       *)
(***************************************************************************)
EXTENDS KconfigFrontends, TLC


MCSymbol == {"MODULES", "CH", "X", "Y", "A", "N", "S", "H"}
MCOrder == <<"MODULES", "CH", "X", "Y", "A", "N", "S", "H">>
MCHash == <<"CH", "H", "A", "S", "MODULES", "Y", "N", "X">>
MCType ==
  [s \in MCSymbol |-> CASE s = "A" -> "tristate" [] s = "N" -> "int" [] s = "S" -> "string"
                        [] s = "H" -> "hex" [] OTHER -> "boolean"]
MCPrompt ==
  [s \in MCSymbol |->
     CASE s \in {"X", "Y"} -> {{Lit("CH")}} [] s \in {"N", "S", "H"} -> {{Lit("A")}}
       [] s = "A" -> {{Lit("X")}} [] OTHER -> Always]
MCDefault == [s \in MCSymbol |-> IF s = "A" THEN <<[val |-> Always, cond |-> Always]>> ELSE <<>>]
MCRevDep == [s \in MCSymbol |-> IF s = "CH" THEN {{[sym |-> "MODULES", of |-> [t \in Tristate |-> mod]]}}
                                ELSE IF s = "A" THEN {{Lit("Y")}} ELSE Never]
MCMembers == [c \in {"CH"} |-> <<"X", "Y">>]
MCChoiceDefault == [c \in {"CH"} |-> <<>>]

MCThree == <<[from |-> Const(<<"3">>), cond |-> Always]>>
MCTextDefault ==
  [s \in MCSymbol |->
     CASE s = "N" -> MCThree
       [] s = "H" -> <<[from |-> Const(<<"a">>), cond |-> Always]>>
       [] s = "S" -> <<[from |-> Const(<<"\"", "\\">>), cond |-> {{Lit("X")}}]>>
       [] OTHER -> <<>>]
MCRanges ==
  [s \in MCSymbol |->
     IF s = "N" THEN <<[low |-> Const(<<"2">>), high |-> Const(<<"5">>), cond |-> Always]>> ELSE <<>>]
MCTypedText ==
  [s \in MCSymbol |-> CASE s = "N" -> {<<"4">>, <<"7">>} [] s = "H" -> {<<"1", "f">>}
                        [] s = "S" -> {<<"\\", "\"">>, <<"\"", "\\">>} [] OTHER -> {}]

MCMenu == {"root", "modules", "a", "n", "net", "s", "h", "ch", "x", "y"}
MCKids ==
  [n \in MCMenu |-> CASE n = "root" -> <<"modules", "a", "net", "ch">> [] n = "a" -> <<"n", "s">>
                      [] n = "net" -> <<"h">> [] n = "ch" -> <<"x", "y">> [] OTHER -> <<>>]
MCSymOf ==
  [n \in MCMenu |-> CASE n = "modules" -> "MODULES" [] n = "a" -> "A" [] n = "n" -> "N" [] n = "s" -> "S"
                      [] n = "h" -> "H" [] n = "ch" -> "CH" [] n = "x" -> "X" [] n = "y" -> "Y"
                      [] OTHER -> None]
MCKind == [n \in MCMenu |-> IF n \in {"root", "net"} THEN "menu" ELSE "prompt"]
MCShown == [n \in MCMenu |-> IF n = "net" THEN {{Lit("A")}} ELSE Always]

(* No file; one by hand with a number out of range; one that says little;    *)
(* one as a program leaves it while S, N and H are hidden.                   *)
MCHandMade ==
  {None,
   [s \in MCSymbol \ {"CH"} |->
      CASE s = "N" -> <<"9">> [] s = "A" -> yes [] s = "X" -> no [] s = "Y" -> yes
        [] s = "MODULES" -> no [] s = "S" -> Quoted(<<"\"">>) [] OTHER -> None],
   [s \in MCSymbol \ {"CH"} |->
      CASE s = "A" -> mod [] s = "MODULES" -> yes [] OTHER -> None],
   [s \in MCSymbol \ {"CH"} |->
      CASE s \in {"MODULES", "X"} -> yes [] s \in {"Y", "A"} -> no [] s = "N" -> <<"3">>
        [] s = "H" -> <<"a">> [] s = "S" -> Quoted(<<"\"", "\\">>)]}
MCReset == [c \in {"CH"} |-> <<{{NotLit("MODULES")}}>>]
=============================================================================
