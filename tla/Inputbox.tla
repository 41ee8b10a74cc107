------------------------------ MODULE Inputbox ------------------------------
(***************************************************************************)
(* dialog_inputbox of lxdialog: a line of text of at most MaxLen characters *)
(* edited in a field of Width columns that shows a part of it.  b.pos is    *)
(* where the text is edited, b.show_x the first character shown, b.input_x  *)
(* the column of the cursor, and b.cells what the field shows.              *)
(***************************************************************************)
EXTENDS Integers, Sequences

CONSTANTS
  Char,     \* printable characters
  Width,    \* box_width
  MaxLen    \* MAX_LEN

InputAssumption == Width \in Nat \ {0} /\ MaxLen \in Nat /\ " " \notin Char

VARIABLE box

Texts == UNION {[1 .. n -> Char] : n \in 0 .. MaxLen}
IsInput(b) == b.kind = "input"
Blank == " "

(* The characters of text from show_x on are printed up to the end of the     *)
(* field, and a blank after the last.                                        *)
Shown(text, show_x, old) ==
  [i \in 0 .. Width - 1 |->
     IF show_x + i < Len(text) THEN text[show_x + i + 1]
     ELSE IF show_x + i = Len(text) THEN Blank ELSE old[i]]
Redrawn(b) == [b EXCEPT !.cells = Shown(b.text, b.show_x, @)]

(* From do_resize on: the cursor is after the last character.                 *)
Layout(text, button) ==
  LET n == Len(text)
      show_x == IF n >= Width THEN n - Width + 1 ELSE 0
  IN  [kind |-> "input", text |-> text, pos |-> n, button |-> button,
       show_x |-> show_x, input_x |-> n - show_x,
       cells |-> Shown(text, show_x, [i \in 0 .. Width - 1 |-> Blank])]

Open == box.kind = "none" /\ \E text \in Texts : box' = Layout(text, -1)

(* The keys of the field, where a character is typed or deleted at pos.        *)
Backspace(b) ==
  Redrawn([b EXCEPT !.text = SubSeq(@, 1, b.pos - 1) \o SubSeq(@, b.pos + 1, Len(@)),
                    !.pos = @ - 1,
                    !.show_x = IF b.input_x = 0 THEN @ - 1 ELSE @,
                    !.input_x = IF @ = 0 THEN 0 ELSE @ - 1])
Left(b) ==
  IF b.input_x > 0 THEN [b EXCEPT !.pos = @ - 1, !.input_x = @ - 1]
  ELSE Redrawn([b EXCEPT !.pos = @ - 1, !.show_x = @ - 1])

(* Bug: the last column is not used. *)
RightEarly(b) ==
  IF b.input_x < Width THEN [b EXCEPT !.pos = @ + 1, !.input_x = @ + 1]
  ELSE Redrawn([b EXCEPT !.pos = @ + 1, !.show_x = @ + 1])

Right(b) ==
  IF b.input_x < Width - 1 THEN [b EXCEPT !.pos = @ + 1, !.input_x = @ + 1]
  ELSE Redrawn([b EXCEPT !.pos = @ + 1, !.show_x = @ + 1])
Typed(b, c) ==
  Redrawn([b EXCEPT !.text = SubSeq(@, 1, b.pos) \o <<c>> \o SubSeq(@, b.pos + 1, Len(@)),
                    !.pos = @ + 1,
                    !.show_x = IF b.input_x = Width - 1 THEN @ + 1 ELSE @,
                    !.input_x = IF @ = Width - 1 THEN @ ELSE @ + 1])

InField == IsInput(box) /\ box.button = -1
KeyBackspace == InField /\ box.pos > 0 /\ box' = Backspace(box)
KeyLeft == InField /\ box.pos > 0 /\ box' = Left(box)
KeyRight == InField /\ box.pos < Len(box.text) /\ box' = Right(box)
KeyChar(c) == InField /\ Len(box.text) < MaxLen /\ box' = Typed(box, c)

(* Up, down and TAB go round the field and the two buttons, as left and right *)
(* do outside the field.                                                      *)
Button(d) == box' = [box EXCEPT !.button = ((@ + 1 + d) % 3) - 1]
KeyButton(d) == IsInput(box) /\ Button(d)

Answered(code) == box' = [kind |-> "answered", answer |-> code, text |-> box.text]
KeyOk == IsInput(box) /\ box.button # -1 /\ Answered(0)
KeyHelp == IsInput(box) /\ box.button # -1 /\ Answered(1)
KeyEnter == IsInput(box) /\ Answered(IF box.button = -1 THEN 0 ELSE box.button)
KeyEscape == IsInput(box) /\ box' = [kind |-> "answered", answer |-> "esc"]
KeyResize == IsInput(box) /\ box' = Layout(box.text, box.button)

Init == box = [kind |-> "none"]
Next ==
  \/ Open \/ KeyBackspace \/ KeyLeft \/ KeyRight
  \/ \E c \in Char : KeyChar(c)
  \/ \E d \in {-1, 1} : KeyButton(d)
  \/ KeyOk \/ KeyHelp \/ KeyEnter \/ KeyEscape \/ KeyResize
Spec == Init /\ [][Next]_box

-----------------------------------------------------------------------------
(* The cursor is in the field, at the character the next key edits, and the   *)
(* field shows the text around it, a deleted last character wiped out.  The    *)
(* three positions are kept apart in the code and moved by every key.         *)
CursorAtEdit ==
  IsInput(box) =>
    /\ box.pos = box.show_x + box.input_x /\ box.pos \in 0 .. Len(box.text)
    /\ box.show_x >= 0 /\ box.input_x \in 0 .. Width - 1
    /\ Len(box.text) <= MaxLen
    /\ \A i \in 0 .. Width - 1 :
         box.cells[i] = IF box.show_x + i < Len(box.text) THEN box.text[box.show_x + i + 1] ELSE Blank
=============================================================================
