------------------------------ MODULE Checklist ------------------------------
(***************************************************************************)
(* dialog_checklist of lxdialog, the list of the values of a choice.  b.room *)
(* is list_height, which the terminal's size does not change.               *)
(***************************************************************************)
EXTENDS ListWindow

CONSTANTS
  MaxItems,   \* bound on the length of a list
  Height,     \* the values list_height takes
  Letter      \* the first letters of items

ListAssumption == MaxItems \in Nat \ {0} /\ Height \subseteq Nat \ {0}

VARIABLE box

Lists == UNION {[0 .. n - 1 -> Letter] : n \in 1 .. MaxItems}
InUse(b) == Least(b.room, b.n)
Cursor(b) == b.scroll + b.choice
IsList(b) == b.kind = "list"

(* From do_resize on: scroll just enough to show the choice, print the rows.  *)
Layout(b) ==
  LET over == IF b.choice >= b.room THEN b.choice - b.room + 1 ELSE 0
      scroll == IF over > 0 THEN over ELSE b.scroll
  IN  [b EXCEPT !.scroll = scroll, !.choice = @ - over,
                !.rows = Page(scroll, InUse(b), b.choice - over)]

(* The item to highlight is the selected one, else the one marked X, else 0.  *)
Open ==
  \E first \in Lists, h \in Height :
  \E n \in 1 .. MaxItems :
  \E item \in 0 .. n - 1 :
    /\ box.kind = "none" /\ DOMAIN first = 0 .. n - 1
    /\ box' = Layout([kind |-> "list", n |-> n, first |-> first, room |-> h,
                      scroll |-> 0, choice |-> item, button |-> 0, rows |-> <<>>])

(* The window scrolls by one line only when it has more than one. *)
Rolled(b, d, edge) ==
  LET off == Draw(b, Cursor(b), edge, FALSE)
      rolled == IF b.room > 1 THEN Scrolled(off, d) ELSE [b EXCEPT !.scroll = @ + d]
  IN  Draw(rolled, rolled.scroll + edge, edge, TRUE)
Highlighted(b, r) ==
  Draw(Draw([b EXCEPT !.choice = r], Cursor(b), b.choice, FALSE), b.scroll + r, r, TRUE)

KeyUp ==
  /\ IsList(box)
  /\ IF box.choice # 0 THEN box' = Highlighted(box, box.choice - 1)
     ELSE box.scroll # 0 /\ box' = Rolled(box, -1, 0)

(* Bug: the end of the list is looked for one item too late. *)
KeyDownLate ==
  /\ IsList(box)
  /\ IF box.choice # InUse(box) - 1 THEN box' = Highlighted(box, box.choice + 1)
     ELSE Cursor(box) < box.n /\ box' = Rolled(box, 1, InUse(box) - 1)

KeyDown ==
  /\ IsList(box)
  /\ IF box.choice # InUse(box) - 1 THEN box' = Highlighted(box, box.choice + 1)
     ELSE Cursor(box) < box.n - 1 /\ box' = Rolled(box, 1, InUse(box) - 1)

(* A letter goes to the first row whose item begins with it.                 *)
RowsWith(b, l) == {r \in 0 .. InUse(b) - 1 : b.first[b.scroll + r] = l}
KeyLetter(l) ==
  /\ IsList(box) /\ RowsWith(box, l) # {}
  /\ LET r == CHOOSE r \in RowsWith(box, l) : \A q \in RowsWith(box, l) : r <= q
     IN  r # box.choice /\ box' = Highlighted(box, r)

KeyButton == IsList(box) /\ box' = [box EXCEPT !.button = 1 - @]

(* "h" and "?" ask for help; space, "s" and ENTER press the button; either     *)
(* way item scroll + choice is the only one left selected.                    *)
Answered(code) == box' = [kind |-> "answered", answer |-> code, item |-> Cursor(box)]
KeyHelp == IsList(box) /\ RowsWith(box, "h") = {} /\ Answered(1)
KeyEnter == IsList(box) /\ Answered(box.button)
KeyEscape == IsList(box) /\ box' = [kind |-> "answered", answer |-> "esc"]
KeyResize == IsList(box) /\ box' = Layout(box)

Init == box = [kind |-> "none"]
Next ==
  \/ Open \/ KeyUp \/ KeyDown \/ \E l \in Letter : KeyLetter(l)
  \/ KeyButton \/ KeyHelp \/ KeyEnter \/ KeyEscape \/ KeyResize
Spec == Init /\ [][Next]_box

-----------------------------------------------------------------------------
(* The highlighted row is the item an answer selects, and the rows are those  *)
(* of the list from scroll on, whatever was scrolled, jumped to or resized.   *)
ListIsSelected ==
  IsList(box) =>
    /\ InStep(box) /\ box.scroll \in 0 .. box.n - InUse(box)
    /\ box.choice \in 0 .. InUse(box) - 1
=============================================================================
