---------------------------- MODULE KconfigMenus ----------------------------
(***************************************************************************)
(* The menu tree both configuration programs walk (scripts/config/menu.c). *)
(* menu_is_visible does more than look: an entry whose own prompt is       *)
(* hidden, but which is on and has a visible entry below it, is marked as  *)
(* set by the user.  Every symbol has one entry.                           *)
(***************************************************************************)
EXTENDS KconfigFiles

CONSTANTS
  Menu,    \* the entries
  Root,    \* rootmenu
  Kids,    \* the entries below an entry, in order
  SymOf,   \* the entry's symbol, None for a menu or a comment
  Kind,    \* the type of its prompt: "menu", "prompt", "comment", or "none"
  Shown    \* the condition of the prompt of an entry without a symbol

ASSUME MenuAssumption ==
  /\ Root \in Menu /\ SymOf[Root] = None /\ Kind[Root] = "menu"
  /\ \A n \in Menu : Kids[n] \in Seq(Menu)
  /\ \A n \in Menu : SymOf[n] = None \/ SymOf[n] \in Symbol
  /\ \A s \in Symbol : Cardinality({n \in Menu : SymOf[n] = s}) = 1

Parent(n) == CHOOSE p \in Menu : n \in ElementsOf(Kids[p])

(* menu_get_parent_menu. *)
RECURSIVE ParentMenu(_)
ParentMenu(n) == IF n = Root \/ Kind[n] = "menu" THEN n ELSE ParentMenu(Parent(n))

PromptShown(m, n) ==
  /\ Kind[n] # "none"
  /\ IF SymOf[n] = None THEN Eval(Shown[n], m.cur) # no ELSE m.vis[SymOf[n]] # no

(* On although its own prompt is hidden. *)
HiddenOn(m, n) ==
  /\ Kind[n] # "none" /\ ~PromptShown(m, n)
  /\ SymOf[n] # None /\ ~IsText(SymOf[n]) /\ m.cur[SymOf[n]] # no

(* The value of menu_is_visible(n). *)
RECURSIVE Visible(_, _)
Visible(m, n) ==
  \/ PromptShown(m, n)
  \/ HiddenOn(m, n) /\ \E k \in ElementsOf(Kids[n]) : Visible(m, k)

FirstVisible(m, n) ==
  Kids[n][CHOOSE i \in DOMAIN Kids[n] :
            Visible(m, Kids[n][i]) /\ \A j \in 1..(i - 1) : ~Visible(m, Kids[n][j])]

(* The symbols that menu_is_visible(n) marks as set by the user. *)
RECURSIVE Marks(_, _)
Marks(m, n) ==
  IF HiddenOn(m, n) /\ Visible(m, n) THEN {SymOf[n]} \cup Marks(m, FirstVisible(m, n)) ELSE {}

(* menu_is_visible of each entry of N.  What is marked is hidden, so no      *)
(* value and no visibility changes by it.                                    *)
LookedAt(m, N) == [m EXCEPT !.du = [s \in Symbol |-> @[s] \/ \E n \in N : s \in Marks(m, n)]]

EmptyMenu(m, n) == \A k \in ElementsOf(Kids[n]) : ~Visible(m, k)

(* The entries menu_is_empty looks at that may be marked.                    *)
FirstOfMenu(m, n) == IF EmptyMenu(m, n) THEN {} ELSE {FirstVisible(m, n)}
=============================================================================
