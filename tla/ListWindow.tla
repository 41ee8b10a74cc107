----------------------------- MODULE ListWindow -----------------------------
(***************************************************************************)
(* The window of a list box of lxdialog: what curses shows in each of its  *)
(* rows.  A row holds the item last printed in it and whether it was        *)
(* printed highlighted; the list box (dialog_menu, dialog_checklist) keeps *)
(* scroll and choice beside it, and the two must agree because the user     *)
(* goes by the rows and the program by the variables.                      *)
(***************************************************************************)
EXTENDS Integers

Least(a, b) == IF a <= b THEN a ELSE b
Most(a, b) == IF a >= b THEN a ELSE b

Row(i, lit) == [item |-> i, lit |-> lit]

(* The rows first, first + 1, ... of the items printed from the top, row at   *)
(* highlighted.                                                             *)
Page(first, count, at) == [r \in 0 .. count - 1 |-> Row(first + r, r = at)]

(* print_item: one row of the window b. *)
Draw(b, i, r, lit) == [b EXCEPT !.rows = [@ EXCEPT ![r] = Row(i, lit)]]

(* do_scroll by d lines and the printing of each line it uncovers.           *)
Scrolled(b, d) ==
  [b EXCEPT !.scroll = @ + d,
            !.rows = [r \in DOMAIN @ |-> IF r + d \in DOMAIN @ THEN @[r + d]
                                         ELSE Row(b.scroll + d + r, FALSE)]]

(* The rows show the items from scroll on, and of them exactly the one that   *)
(* is chosen is highlighted.                                                 *)
InStep(b) == b.rows = Page(b.scroll, Least(b.room, b.n), b.choice)
=============================================================================
