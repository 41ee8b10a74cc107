------------------------------- MODULE Menubox -------------------------------
(***************************************************************************)
(* dialog_menu of lxdialog: the list of a menu in a window that may be     *)
(* shorter than the list, the keys that move in it, and the answer.  b.room *)
(* is menu_height, b.n item_count(), and the rows in use are their minimum, *)
(* max_choice.  Items are numbered from 0 as item_set numbers them.         *)
(***************************************************************************)
EXTENDS ListWindow

CONSTANTS
  MaxItems,        \* bound on the length of a list
  Height,          \* the values menu_height takes
  Letter,          \* the letters first_alpha finds in items
  ResizeScrolled   \* whether the terminal is resized when the list does not fit

MenuAssumption ==
  MaxItems \in Nat /\ Height \subseteq Nat \ {0} /\ ResizeScrolled \in BOOLEAN

VARIABLE box

Lists == UNION {[0 .. n - 1 -> Letter] : n \in 0 .. MaxItems}
InUse(b) == Least(b.room, b.n)
Cursor(b) == b.scroll + b.choice
IsMenu(b) == b.kind = "menu"

(* Bug: the saved scroll is used although the list has become shorter. *)
LayoutStale(b, h) ==
  [b EXCEPT !.room = h, !.scroll = b.s_scroll, !.first_item = b.s_scroll,
            !.choice = Most(0, Least(Least(h, b.n) - 1, @)),
            !.rows = Page(b.s_scroll, Least(h, b.n), b.choice)]

(* From do_resize on: the window is laid out for height h around the default *)
(* item, b.selected, or when there is none (-1) around choice as it is.      *)
Layout(b, h) ==
  LET used == Least(h, b.n)
      at == IF b.selected >= 0 THEN b.selected ELSE b.choice
      fits == /\ b.s_scroll <= at /\ at < b.s_scroll + used
              /\ b.s_scroll + used <= b.n
      beyond == ~fits /\ at >= used
      first == IF beyond THEN IF at >= b.n - used \div 2 THEN b.n - used ELSE at - used \div 2
               ELSE IF fits THEN b.s_scroll ELSE b.first_item
      scroll == IF fits \/ beyond THEN first ELSE 0
  IN  [b EXCEPT !.room = h, !.scroll = scroll, !.first_item = first, !.choice = at - scroll,
                !.rows = Page(first, used, at - scroll)]

(* A call: the list, the default item and the scroll saved by an earlier one, *)
(* of a list that may have been longer or shorter.                           *)
Open ==
  \E hot \in Lists, h \in Height, saved \in 0 .. MaxItems :
  \E n \in 0 .. MaxItems :
  \E selected \in -1 .. n - 1 :
    /\ box.kind = "none" /\ DOMAIN hot = 0 .. n - 1
    /\ box' = Layout([kind |-> "menu", n |-> n, hot |-> hot, selected |-> selected,
                      s_scroll |-> saved, room |-> h, scroll |-> 0, first_item |-> 0,
                      choice |-> 0, button |-> 0, rows |-> <<>>], h)

(* KEY_UP, KEY_DOWN, KEY_PPAGE and KEY_NPAGE: a page is as many lines as are  *)
(* in use, scrolled while there is something to scroll and then walked.      *)
Up(b) ==
  IF b.choice < 2 /\ b.scroll # 0
  THEN Scrolled(b, -1)
  ELSE [b EXCEPT !.choice = Most(@ - 1, 0)]

Down(b) ==
  IF b.choice > InUse(b) - 3 /\ b.scroll + InUse(b) < b.n
  THEN Scrolled(b, 1)
  ELSE [b EXCEPT !.choice = Least(@ + 1, InUse(b) - 1)]

PageUp(b) ==
  LET d == Least(b.scroll, InUse(b))
  IN  [Scrolled(b, -d) EXCEPT !.choice = Most(@ - (InUse(b) - d), 0)]

(* Bug: after the last line has been scrolled in, the cursor stays. *)
PageDownShort(b) == Scrolled(b, Least(b.n - InUse(b) - b.scroll, InUse(b)))

PageDown(b) ==
  LET d == Least(b.n - InUse(b) - b.scroll, InUse(b))
  IN  [Scrolled(b, d) EXCEPT !.choice = Least(@ + (InUse(b) - d), InUse(b) - 1)]

(* A letter moves to the next row whose item has it, or to the first one.    *)
RowsWith(b, l) == {r \in 0 .. InUse(b) - 1 : b.hot[b.scroll + r] = l /\ l \notin {"y", "n", "m", "h"}}
To(b, l) ==
  LET hits == RowsWith(b, l)
      below == {r \in hits : r > b.choice}
      from == IF below # {} THEN below ELSE hits
  IN  [b EXCEPT !.choice = CHOOSE r \in from : \A q \in from : r <= q]

(* The highlight is taken from the old item before a move and put on the new *)
(* one after it.                                                             *)
Move(new(_)) ==
  /\ IsMenu(box) /\ box.n # 0
  /\ LET moved == new(Draw(box, Cursor(box), box.choice, FALSE))
     IN  box' = Draw(moved, Cursor(moved), moved.choice, TRUE)

KeyUp == Move(Up)
KeyDown == Move(Down)
KeyPageUp == Move(PageUp)
KeyPageDown == Move(PageDown)
KeyLetter(l) == IsMenu(box) /\ RowsWith(box, l) # {} /\ LET at(b) == To(b, l) IN Move(at)

(* KEY_LEFT, KEY_RIGHT and TAB go round the five buttons. *)
KeyButton(d) == IsMenu(box) /\ box' = [box EXCEPT !.button = (@ + d) % 5]

(* The keys that answer, unless an item has their letter; ENTER presses the   *)
(* button.  The answer marks item scroll + choice, and the scroll is saved.   *)
Answers == [h |-> 2, s |-> 5, y |-> 5, n |-> 6, m |-> 7, space |-> 8, slash |-> 9, z |-> 10]
Answered(code) ==
  box' = [kind |-> "answered", answer |-> code, item |-> Cursor(box), s_scroll |-> box.scroll]
KeyAnswer(key) == IsMenu(box) /\ RowsWith(box, key) = {} /\ Answered(Answers[key])
KeyEnter == IsMenu(box) /\ Answered(box.button)

(* "e", "x" and a lone ESC leave the box; an escape sequence does not.        *)
KeyEscape == IsMenu(box) /\ box' = [kind |-> "answered", answer |-> "esc"]

(* The terminal gets a new size: the call starts anew with what it has.       *)
KeyResize(h) ==
  /\ IsMenu(box) /\ (ResizeScrolled \/ (box.n <= h /\ box.n <= box.room))
  /\ box' = Layout(box, h)

Init == box = [kind |-> "none"]
Next ==
  \/ Open \/ KeyUp \/ KeyDown \/ KeyPageUp \/ KeyPageDown
  \/ \E l \in Letter : KeyLetter(l)
  \/ \E d \in {-1, 1} : KeyButton(d)
  \/ \E key \in DOMAIN Answers : KeyAnswer(key)
  \/ KeyEnter \/ KeyEscape
  \/ \E h \in Height : KeyResize(h)
Spec == Init /\ [][Next]_box

-----------------------------------------------------------------------------
(* What the user sees is what the program acts on: the rows are the items     *)
(* scroll .. scroll + max_choice - 1 of the list, all of them exist, and the   *)
(* highlighted one is item scroll + choice, which an answer selects.  The      *)
(* rows are only ever scrolled and reprinted one at a time.                   *)
ShownIsSelected ==
  IsMenu(box) =>
    /\ InStep(box) /\ box.scroll \in 0 .. box.n - InUse(box)
    /\ IF box.n = 0 THEN box.choice = 0 ELSE box.choice \in 0 .. InUse(box) - 1

(* Keys move the cursor in the list as in one long page: up and down by one   *)
(* item, the page keys by the number of rows, none beyond either end.         *)
CursorMoves ==
  [][IsMenu(box) /\ IsMenu(box') =>
       LET at == Cursor(box)  page == InUse(box)  last == box.n - 1
       IN  /\ KeyUp => Cursor(box') = Most(at - 1, 0)
           /\ KeyDown => Cursor(box') = Least(at + 1, last)
           /\ KeyPageUp => Cursor(box') = Most(at - page, 0)
           /\ KeyPageDown => Cursor(box') = Least(at + page, last)]_box
=============================================================================
