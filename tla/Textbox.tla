------------------------------- MODULE Textbox -------------------------------
(***************************************************************************)
(* dialog_textbox of lxdialog: a text shown Height lines at a time.  The   *)
(* only record of where the reader is is the pointer page, which printing a *)
(* page moves behind the last line printed; every key first takes it back  *)
(* by a number of lines that is right only if page_length, begin_reached   *)
(* and end_reached are.  A text is a sequence of newlines and other         *)
(* characters; position p is in front of character p + 1, the last one at   *)
(* the terminating 0.                                                       *)
(***************************************************************************)
EXTENDS Integers, Sequences, FiniteSetsExt

CONSTANTS
  Text,        \* the texts shown
  Height,      \* the values boxh takes, with borders Frame more
  Frame,
  MaxScroll    \* MAX_LEN, how far the text scrolls to the side

Newline == "\n"
TextAssumption ==
  /\ \A t \in Text : t \in Seq({Newline, "x"}) /\ t # <<>>
  /\ Height \subseteq Nat \ {0} /\ Frame \in Nat /\ MaxScroll \in Nat

VARIABLE box

IsText(b) == b.kind = "text"
NewlinesBefore(t, p) == {j \in 0 .. p - 1 : t[j + 1] = Newline}
LineOf(t, p) == Cardinality(NewlinesBefore(t, p))

(* get_line: to the start of the next line, or to the end of the text.        *)
GetLine(t, at) ==
  LET ends == {e \in at.page .. Len(t) - 1 : t[e + 1] = Newline}
  IN  IF ends = {} THEN [at EXCEPT !.page = Len(t), !.end = TRUE]
      ELSE [at EXCEPT !.page = Min(ends) + 1, !.end = FALSE]
GetLines(t, at, n) ==
  LET after[k \in 0 .. n] == IF k = 0 THEN at ELSE GetLine(t, after[k - 1])
  IN  after

(* Bug: that the end was passed is not taken into account. *)
BackLineBlind(t, at) ==
  LET starts == NewlinesBefore(t, at.page - 1)
  IN  IF at.page = 0 \/ starts = {} THEN [at EXCEPT !.page = 0, !.begin = TRUE]
      ELSE [at EXCEPT !.page = Max(starts) + 1]

(* Bug: only going back from the first line sets begin_reached. *)
BackLineLate(t, at) ==
  LET starts == NewlinesBefore(t, at.page - 1)
  IN  IF at.page = Len(t) /\ at.end THEN [at EXCEPT !.end = FALSE]
      ELSE IF at.page = 0 THEN [at EXCEPT !.begin = TRUE]
      ELSE [at EXCEPT !.page = IF starts = {} THEN 0 ELSE Max(starts) + 1]

(* One line of back_lines.  The empty line after the end of the text counts   *)
(* as one; the first line is left only with begin_reached set.                *)
BackLine(t, at) ==
  LET starts == NewlinesBefore(t, at.page - 1)
  IN  IF at.page = Len(t) /\ at.end THEN [at EXCEPT !.end = FALSE]
      ELSE IF at.page = 0 \/ starts = {} THEN [at EXCEPT !.page = 0, !.begin = TRUE]
      ELSE [at EXCEPT !.page = Max(starts) + 1]
BackLines(t, at, n) ==
  LET before[k \in 0 .. n] ==
        IF k = 0 THEN [at EXCEPT !.begin = FALSE]
        ELSE IF before[k - 1].begin THEN before[k - 1] ELSE BackLine(t, before[k - 1])
  IN  before[n]

(* print_page: with update_text the page is first read and taken back; then   *)
(* boxh lines are printed and those up to the end of the text counted.        *)
Printed(b, at) ==
  LET t == b.text
      start == IF b.update THEN BackLines(t, GetLines(t, at, b.boxh)[b.boxh], b.boxh) ELSE at
      after == GetLines(t, start, b.boxh)
      ended == {k \in 1 .. b.boxh : after[k].end}
  IN  [b EXCEPT !.at = after[b.boxh], !.top = start.page,
                !.page_length = IF ended = {} THEN b.boxh ELSE Min(ended)]

(* A call, of the text and with the scrolls an earlier call has saved.        *)
Open ==
  \E t \in Text, h \in Height, update \in BOOLEAN, hscroll \in {0, MaxScroll} :
  \E vscroll \in 0 .. LineOf(t, Len(t)) :
    LET start == [page |-> 0, begin |-> vscroll = 0, end |-> FALSE]
        b == [kind |-> "text", text |-> t, boxh |-> h, update |-> update, hscroll |-> hscroll,
              at |-> start, top |-> 0, page_length |-> 0]
    IN  box.kind = "none" /\ box' = Printed(b, GetLines(t, start, vscroll)[vscroll])

Reprint(b, n) == Printed(b, BackLines(b.text, b.at, n))

KeyHome ==
  /\ IsText(box) /\ ~box.at.begin
  /\ box' = Printed(box, [box.at EXCEPT !.page = 0, !.begin = TRUE])
KeyEnd ==
  /\ IsText(box)
  /\ box' = Printed(box, BackLines(box.text, [box.at EXCEPT !.page = Len(box.text), !.end = TRUE],
                                   box.boxh))
KeyUp == IsText(box) /\ ~box.at.begin /\ box' = Reprint(box, box.page_length + 1)
KeyPageUp == IsText(box) /\ ~box.at.begin /\ box' = Reprint(box, box.page_length + box.boxh)

KeyDown == IsText(box) /\ ~box.at.end /\ box' = Reprint(box, box.page_length - 1)
KeyPageDown == IsText(box) /\ ~box.at.end /\ box' = Printed(box, [box.at EXCEPT !.begin = FALSE])

(* The same page is printed again one column further, or from the first one.  *)
Sideways(column) == box' = Reprint([box EXCEPT !.hscroll = column], box.page_length)
KeyLineStart == IsText(box) /\ box.hscroll > 0 /\ Sideways(0)
KeyLeft == IsText(box) /\ box.hscroll > 0 /\ Sideways(box.hscroll - 1)
KeyRight == IsText(box) /\ box.hscroll < MaxScroll /\ Sideways(box.hscroll + 1)

(* A new size: the page goes back by the height of the old box with its        *)
(* borders and is printed in the new one.                                     *)
KeyResize(h) ==
  /\ IsText(box)
  /\ box' = Printed([box EXCEPT !.boxh = h],
                    BackLines(box.text, box.at, box.boxh + Frame))

(* Leaving the box; the scroll is saved as the number of lines above the page. *)
KeyExit ==
  LET b == BackLines(box.text, box.at, box.page_length)
  IN  /\ IsText(box)
      /\ box' = [kind |-> "answered", vscroll |-> LineOf(box.text, b.page), hscroll |-> box.hscroll]

Init == box = [kind |-> "none"]
Next ==
  \/ Open \/ KeyHome \/ KeyEnd \/ KeyUp \/ KeyPageUp \/ KeyDown \/ KeyPageDown
  \/ KeyLineStart \/ KeyLeft \/ KeyRight \/ KeyExit
  \/ \E h \in Height : KeyResize(h)
Spec == Init /\ [][Next]_box

-----------------------------------------------------------------------------
(* The page begins at the start of a line, and begin_reached, which keeps the *)
(* keys from going up, is set on the first line and only there.               *)
PageAtLine ==
  IsText(box) =>
    /\ box.top = 0 \/ box.text[box.top] = Newline
    /\ box.at.begin <=> box.top = 0

(* No line is skipped or shown twice: a key moves the page by the lines it    *)
(* says, scrolling to the side by none, and the scroll saved on leaving, from  *)
(* which the search returns to its results, is that of the page.              *)
LinesMove ==
  [][IsText(box) =>
       LET was == LineOf(box.text, box.top)
           is == LineOf(box.text, box'.top)
       IN  /\ KeyDown => is = was + 1
           /\ KeyUp => is = was - 1
           /\ KeyPageDown => is \in was + 1 .. was + box.boxh /\ (~box.update => is = was + box.boxh)
           /\ KeyPageUp => is = Max({was - box.boxh, 0})
           /\ (KeyLeft \/ KeyRight \/ KeyLineStart) => is = was
           /\ KeyExit => box'.vscroll = was]_box
=============================================================================
