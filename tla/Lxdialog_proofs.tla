--------------------------- MODULE Lxdialog_proofs ---------------------------
(***************************************************************************)
(* That the boxes show what their keys act on, one box after another, for  *)
(* every length of list and text and every size of box.  The invariants of *)
(* the menu and the list are those of Menubox_proofs and Checklist_proofs; *)
(* those of the input box and of the text box are here.                    *)
(***************************************************************************)
EXTENDS Lxdialog, SequenceTheorems, FiniteSetTheorems, WellFoundedInduction, TLAPS

InMenu == INSTANCE Menubox_proofs
InList == INSTANCE Checklist_proofs

-----------------------------------------------------------------------------
(* The input box. *)

Cells == [0 .. Width - 1 -> Char \cup {Input!Blank}]

InputBox ==
  [kind : {"input"}, text : Seq(Char), pos : Int, button : Int, show_x : Int, input_x : Int,
   cells : Cells]

(* Where the cursor is. *)
Placed(b) ==
  /\ Len(b.text) <= MaxLen
  /\ b.pos = b.show_x + b.input_x /\ b.pos \in 0 .. Len(b.text)
  /\ b.show_x >= 0 /\ b.input_x \in 0 .. Width - 1

(* What the cells show of a text. *)
Shows(cells, text, show_x) ==
  \A i \in 0 .. Width - 1 :
    cells[i] = IF show_x + i < Len(text) THEN text[show_x + i + 1] ELSE Input!Blank

Fine(b) == b \in InputBox /\ Placed(b) /\ Shows(b.cells, b.text, b.show_x)
InputInv ==
  /\ box.kind \in {"none", "input", "answered"}
  /\ Input!IsInput(box) => Fine(box)

LEMMA WidthType == ASSUME Input!InputAssumption PROVE Width \in Nat \ {0} /\ MaxLen \in Nat
BY Zenon DEF Input!InputAssumption

LEMMA InputInit == Input!Init => InputInv
BY DEF Input!Init, InputInv, Input!IsInput

LEMMA FineInv == ASSUME Fine(box') PROVE InputInv'
BY DEF Fine, InputInv, InputBox

(* Printing the text in cells of which those it does not reach are blank.     *)
LEMMA ShownFits ==
  ASSUME Input!InputAssumption, NEW text \in Seq(Char), NEW show_x \in Int, show_x >= 0, NEW old \in Cells,
         \A i \in 0 .. Width - 1 : show_x + i > Len(text) => old[i] = Input!Blank
  PROVE  Input!Shown(text, show_x, old) \in Cells /\ Shows(Input!Shown(text, show_x, old), text, show_x)
<1>1. Len(text) \in Nat /\ \A i \in 1 .. Len(text) : text[i] \in Char
  BY ElementOfSeq, LenProperties
<1> DEFINE cell(i) == IF show_x + i < Len(text) THEN text[show_x + i + 1]
                      ELSE IF show_x + i = Len(text) THEN Input!Blank ELSE old[i]
<1>2. ASSUME NEW i \in 0 .. Width - 1
      PROVE  /\ cell(i) \in Char \cup {Input!Blank}
             /\ cell(i) = IF show_x + i < Len(text) THEN text[show_x + i + 1] ELSE Input!Blank
  <2>1. CASE show_x + i < Len(text)
    <3>1. show_x + i + 1 \in 1 .. Len(text)
      BY <1>1, <2>1, WidthType
    <3>2. QED
      BY <1>1, <2>1, <3>1
  <2>2. CASE show_x + i = Len(text)
    BY <1>1, <2>2
  <2>3. CASE show_x + i > Len(text)
    BY <1>1, <2>3
  <2>4. QED
    BY <1>1, <2>1, <2>2, <2>3, WidthType
<1>3. Input!Shown(text, show_x, old) = [i \in 0 .. Width - 1 |-> cell(i)]
  BY DEF Input!Shown
<1> HIDE DEF cell
<1>4. Input!Shown(text, show_x, old) \in Cells
  BY <1>2, <1>3 DEF Cells
<1>5. \A i \in 0 .. Width - 1 : Input!Shown(text, show_x, old)[i] = cell(i)
  BY <1>3
<1>6. QED
  BY <1>2, <1>4, <1>5 DEF Shows

(* Printing the field again after a key: the text is at most one character    *)
(* shorter, and the field at most one further on.                            *)
LEMMA RedrawnFine ==
  ASSUME Input!InputAssumption, NEW b, Fine(b), NEW text \in Seq(Char), NEW show_x \in Int, NEW pos \in Int,
         NEW input_x \in Int, Len(text) <= MaxLen, pos = show_x + input_x, pos \in 0 .. Len(text),
         show_x >= 0, input_x \in 0 .. Width - 1,
         Len(text) - show_x >= Len(b.text) - b.show_x - 1,
         NEW c, c = Input!Redrawn([b EXCEPT !.text = text, !.pos = pos, !.show_x = show_x, !.input_x = input_x])
  PROVE  Fine(c)
<1> DEFINE cells == Input!Shown(text, show_x, b.cells)
<1>1. /\ b \in InputBox /\ b.text \in Seq(Char) /\ b.show_x \in Int /\ b.cells \in Cells
      /\ Shows(b.cells, b.text, b.show_x)
  BY DEF Fine, InputBox
<1>2. Len(b.text) \in Nat /\ Len(text) \in Nat
  BY <1>1, LenProperties
<1>3. ASSUME NEW i \in 0 .. Width - 1, show_x + i > Len(text) PROVE b.cells[i] = Input!Blank
  <2>1. i \in Int
    BY WidthType
  <2>2. ~(b.show_x + i < Len(b.text))
    BY <1>1, <1>2, <1>3, <2>1
  <2>3. QED
    BY <1>1, <2>2 DEF Shows
<1>4. cells \in Cells /\ Shows(cells, text, show_x)
  BY <1>1, <1>3, ShownFits
<1>5. c = [b EXCEPT !.text = text, !.pos = pos, !.show_x = show_x, !.input_x = input_x, !.cells = cells]
  BY <1>1 DEF Input!Redrawn, InputBox
<1> HIDE DEF cells
<1>6. /\ c \in InputBox /\ c.text = text /\ c.pos = pos /\ c.show_x = show_x /\ c.input_x = input_x
      /\ c.cells = cells
  BY <1>1, <1>4, <1>5 DEF InputBox
<1>7. QED
  BY <1>4, <1>6 DEF Fine, Placed

(* The layout of a field. *)
LEMMA LayoutFine ==
  ASSUME Input!InputAssumption, NEW text \in Seq(Char), Len(text) <= MaxLen, NEW button \in Int,
         NEW c, c = Input!Layout(text, button)
  PROVE  Fine(c)
<1> DEFINE n == Len(text)
           show_x == IF n >= Width THEN n - Width + 1 ELSE 0
           blank == [i \in 0 .. Width - 1 |-> Input!Blank]
           cells == Input!Shown(text, show_x, blank)
<1>1. n \in Nat /\ Width \in Nat /\ Width > 0
  BY LenProperties, WidthType
<1>2. blank \in Cells
  BY DEF Cells
<1>3. show_x \in Int /\ show_x >= 0 /\ n - show_x \in 0 .. Width - 1
  BY <1>1
<1>4. c = [kind |-> "input", text |-> text, pos |-> n, button |-> button,
           show_x |-> show_x, input_x |-> n - show_x, cells |-> cells]
  BY DEF Input!Layout
<1> HIDE DEF show_x
<1>5. cells \in Cells /\ Shows(cells, text, show_x)
  BY <1>2, <1>3, ShownFits
<1> HIDE DEF cells
<1>6. n - show_x \in Int /\ n = show_x + (n - show_x)
  BY <1>1, <1>3
<1>7. c \in InputBox /\ c.text = text /\ c.pos = n /\ c.show_x = show_x /\ c.input_x = n - show_x
      /\ c.cells = cells
  BY <1>1, <1>3, <1>4, <1>5, <1>6 DEF InputBox
<1>8. QED
  BY <1>1, <1>3, <1>5, <1>6, <1>7 DEF Fine, Placed

-----------------------------------------------------------------------------
(* The texts the keys leave. *)
LEMMA Deleted ==
  ASSUME NEW text \in Seq(Char), NEW pos \in 1 .. Len(text),
         NEW t, t = SubSeq(text, 1, pos - 1) \o SubSeq(text, pos + 1, Len(text))
  PROVE  t \in Seq(Char) /\ Len(t) = Len(text) - 1
<1> DEFINE a == SubSeq(text, 1, pos - 1)
           z == SubSeq(text, pos + 1, Len(text))
<1>1. Len(text) \in Nat
  BY LenProperties
<1>2. a \in Seq(Char) /\ Len(a) = pos - 1
  BY <1>1, SubSeqProperties
<1>3. z \in Seq(Char) /\ Len(z) = Len(text) - pos
  BY <1>1, SubSeqProperties
<1>4. t = a \o z
  OBVIOUS
<1> HIDE DEF a, z
<1>5. t \in Seq(Char) /\ Len(t) = Len(a) + Len(z)
  BY <1>2, <1>3, <1>4, ConcatProperties
<1>6. pos \in Int /\ (pos - 1) + (Len(text) - pos) = Len(text) - 1
  BY <1>1
<1>7. QED
  BY <1>2, <1>3, <1>5, <1>6

LEMMA Inserted ==
  ASSUME NEW text \in Seq(Char), NEW pos \in 0 .. Len(text), NEW ch \in Char,
         NEW t, t = SubSeq(text, 1, pos) \o <<ch>> \o SubSeq(text, pos + 1, Len(text))
  PROVE  t \in Seq(Char) /\ Len(t) = Len(text) + 1
<1> DEFINE a == SubSeq(text, 1, pos)
           m == a \o <<ch>>
           z == SubSeq(text, pos + 1, Len(text))
<1>1. Len(text) \in Nat
  BY LenProperties
<1>2. a \in Seq(Char) /\ Len(a) = pos
  BY <1>1, SubSeqProperties
<1>3. z \in Seq(Char) /\ Len(z) = Len(text) - pos
  BY <1>1, SubSeqProperties
<1>4. t = m \o z
  OBVIOUS
<1>5. <<ch>> \in Seq(Char) /\ Len(<<ch>>) = 1
  OBVIOUS
<1> HIDE DEF a, z
<1>6. m \in Seq(Char) /\ Len(m) = Len(a) + Len(<<ch>>)
  BY <1>2, <1>5, ConcatProperties
<1> HIDE DEF m
<1>7. t \in Seq(Char) /\ Len(t) = Len(m) + Len(z)
  BY <1>3, <1>4, <1>6, ConcatProperties
<1>8. pos \in Int /\ (pos + 1) + (Len(text) - pos) = Len(text) + 1
  BY <1>1
<1>9. QED
  BY <1>2, <1>3, <1>5, <1>6, <1>7, <1>8

-----------------------------------------------------------------------------
(* The keys. *)
LEMMA InputKnown ==
  ASSUME Input!InputAssumption, Fine(box)
  PROVE  /\ box.text \in Seq(Char) /\ Len(box.text) \in Nat /\ Len(box.text) <= MaxLen
         /\ box.pos \in Int /\ box.show_x \in Int /\ box.input_x \in Int
         /\ box.pos = box.show_x + box.input_x /\ box.pos >= 0 /\ box.pos <= Len(box.text)
         /\ box.show_x >= 0 /\ box.input_x >= 0 /\ box.input_x <= Width - 1
         /\ box \in InputBox /\ Width \in Nat /\ Width > 0
<1>1. box \in InputBox /\ Placed(box) /\ Width \in Nat /\ Width > 0
  BY WidthType DEF Fine
<1>2. box.text \in Seq(Char) /\ box.pos \in Int /\ box.show_x \in Int /\ box.input_x \in Int
  BY <1>1 DEF InputBox
<1>3. Len(box.text) \in Nat
  BY <1>2, LenProperties
<1>4. QED
  BY <1>1, <1>2, <1>3 DEF Placed

(* A move in the field that leaves what it shows. *)
LEMMA MovedFine ==
  ASSUME Input!InputAssumption, Fine(box), NEW pos \in Int, NEW input_x \in Int,
         pos = box.show_x + input_x, pos \in 0 .. Len(box.text), input_x \in 0 .. Width - 1,
         NEW c, c = [box EXCEPT !.pos = pos, !.input_x = input_x]
  PROVE  Fine(c)
<1>1. /\ c \in InputBox /\ c.text = box.text /\ c.pos = pos /\ c.show_x = box.show_x
      /\ c.input_x = input_x /\ c.cells = box.cells
  BY DEF Fine, InputBox
<1>2. QED
  BY <1>1 DEF Fine, Placed

(* The same for a move by which the field shows another part of the text.    *)
LEMMA ShiftedFine ==
  ASSUME Input!InputAssumption, Fine(box), NEW pos \in Int, NEW show_x \in Int,
         pos = show_x + box.input_x, pos \in 0 .. Len(box.text), show_x >= 0, show_x <= box.show_x + 1,
         NEW c, c = Input!Redrawn([box EXCEPT !.pos = pos, !.show_x = show_x])
  PROVE  Fine(c)
<1>1. /\ box \in InputBox /\ box.text \in Seq(Char) /\ box.input_x \in Int /\ Len(box.text) <= MaxLen
      /\ box.input_x \in 0 .. Width - 1 /\ Len(box.text) \in Nat /\ box.show_x \in Int
  BY InputKnown
<1>2. [box EXCEPT !.pos = pos, !.show_x = show_x]
        = [box EXCEPT !.text = box.text, !.pos = pos, !.show_x = show_x, !.input_x = box.input_x]
  BY <1>1 DEF InputBox
<1>3. Len(box.text) - show_x >= Len(box.text) - box.show_x - 1
  BY <1>1
<1>4. c = Input!Redrawn([box EXCEPT !.text = box.text, !.pos = pos, !.show_x = show_x, !.input_x = box.input_x])
  BY <1>2
<1>5. QED
  BY <1>1, <1>3, <1>4, RedrawnFine

LEMMA BackspaceFine == ASSUME Input!InputAssumption, Fine(box), box.pos > 0 PROVE Fine(Input!Backspace(box))
<1> DEFINE text == SubSeq(box.text, 1, box.pos - 1) \o SubSeq(box.text, box.pos + 1, Len(box.text))
           pos == box.pos - 1
           show_x == IF box.input_x = 0 THEN box.show_x - 1 ELSE box.show_x
           input_x == IF box.input_x = 0 THEN 0 ELSE box.input_x - 1
<1>1. /\ box.text \in Seq(Char) /\ Len(box.text) \in Nat /\ Len(box.text) <= MaxLen
      /\ box.pos \in Int /\ box.show_x \in Int /\ box.input_x \in Int
      /\ box.pos = box.show_x + box.input_x /\ box.pos >= 0 /\ box.pos <= Len(box.text)
      /\ box.show_x >= 0 /\ box.input_x >= 0 /\ box.input_x <= Width - 1
      /\ box \in InputBox /\ Width \in Nat /\ Width > 0
  BY InputKnown
<1>2. box.pos \in 1 .. Len(box.text) /\ MaxLen \in Nat
  BY <1>1, WidthType
<1>3. text \in Seq(Char) /\ Len(text) = Len(box.text) - 1
  BY <1>1, <1>2, Deleted
<1>4. Input!Backspace(box) = Input!Redrawn([box EXCEPT !.text = text, !.pos = pos, !.show_x = show_x, !.input_x = input_x])
  BY <1>1 DEF Input!Backspace, InputBox
<1> HIDE DEF text
<1>5. /\ pos \in Int /\ show_x \in Int /\ input_x \in Int /\ Len(text) <= MaxLen
      /\ pos = show_x + input_x /\ pos \in 0 .. Len(text) /\ show_x >= 0 /\ input_x \in 0 .. Width - 1
      /\ Len(text) - show_x >= Len(box.text) - box.show_x - 1
  <2>1. CASE box.input_x = 0
    <3>1. show_x = box.show_x - 1 /\ input_x = 0
      BY <2>1
    <3> HIDE DEF show_x, input_x
    <3>2. show_x \in Int /\ input_x \in Int /\ pos \in Int /\ Len(text) \in Int
      BY <1>1, <1>3, <3>1
    <3>3. Len(text) <= MaxLen /\ Len(text) - show_x >= Len(box.text) - box.show_x - 1
      BY <1>1, <1>2, <1>3, <3>1
    <3>4. pos = show_x + input_x /\ show_x >= 0
      BY <1>1, <1>2, <2>1, <3>1
    <3>5. pos \in 0 .. Len(text)
      BY <1>1, <1>2, <1>3
    <3>6. input_x \in 0 .. Width - 1
      BY <1>1, <2>1, <3>1, <3>2
    <3>7. QED
      BY <3>2, <3>3, <3>4, <3>5, <3>6
  <2>2. CASE ~(box.input_x = 0)
    <3>1. show_x = box.show_x /\ input_x = box.input_x - 1
      BY <2>2
    <3> HIDE DEF show_x, input_x
    <3>2. show_x \in Int /\ input_x \in Int /\ pos \in Int /\ Len(text) \in Int
      BY <1>1, <1>3, <3>1
    <3>3. Len(text) <= MaxLen /\ Len(text) - show_x >= Len(box.text) - box.show_x - 1
      BY <1>1, <1>2, <1>3, <3>1
    <3>4. pos = show_x + input_x /\ show_x >= 0
      BY <1>1, <3>1
    <3>5. pos \in 0 .. Len(text)
      BY <1>1, <1>2, <1>3
    <3>6. input_x \in 0 .. Width - 1
      BY <1>1, <2>2, <3>1, <3>2
    <3>7. QED
      BY <3>2, <3>3, <3>4, <3>5, <3>6
  <2>3. QED
    BY <2>1, <2>2
<1> HIDE DEF pos, show_x, input_x
<1>6. QED
  BY <1>3, <1>4, <1>5, RedrawnFine

LEMMA TypedFine ==
  ASSUME Input!InputAssumption, Fine(box), NEW ch \in Char, Len(box.text) < MaxLen
  PROVE  Fine(Input!Typed(box, ch))
<1> DEFINE text == SubSeq(box.text, 1, box.pos) \o <<ch>> \o SubSeq(box.text, box.pos + 1, Len(box.text))
           pos == box.pos + 1
           show_x == IF box.input_x = Width - 1 THEN box.show_x + 1 ELSE box.show_x
           input_x == IF box.input_x = Width - 1 THEN box.input_x ELSE box.input_x + 1
<1>1. /\ box.text \in Seq(Char) /\ Len(box.text) \in Nat /\ Len(box.text) <= MaxLen
      /\ box.pos \in Int /\ box.show_x \in Int /\ box.input_x \in Int
      /\ box.pos = box.show_x + box.input_x /\ box.pos >= 0 /\ box.pos <= Len(box.text)
      /\ box.show_x >= 0 /\ box.input_x >= 0 /\ box.input_x <= Width - 1
      /\ box \in InputBox /\ Width \in Nat /\ Width > 0
  BY InputKnown
<1>2. box.pos \in 0 .. Len(box.text) /\ MaxLen \in Nat
  BY <1>1, WidthType
<1>3. text \in Seq(Char) /\ Len(text) = Len(box.text) + 1
  BY <1>1, <1>2, Inserted
<1>4. Input!Typed(box, ch) = Input!Redrawn([box EXCEPT !.text = text, !.pos = pos, !.show_x = show_x, !.input_x = input_x])
  BY <1>1 DEF Input!Typed, InputBox
<1> HIDE DEF text
<1>5. /\ pos \in Int /\ show_x \in Int /\ input_x \in Int /\ Len(text) <= MaxLen
      /\ pos = show_x + input_x /\ pos \in 0 .. Len(text) /\ show_x >= 0 /\ input_x \in 0 .. Width - 1
      /\ Len(text) - show_x >= Len(box.text) - box.show_x - 1
  <2>1. CASE box.input_x = Width - 1
    <3>1. show_x = box.show_x + 1 /\ input_x = box.input_x
      BY <2>1
    <3> HIDE DEF show_x, input_x
    <3>2. show_x \in Int /\ input_x \in Int /\ pos \in Int /\ Len(text) \in Int
      BY <1>1, <1>3, <3>1
    <3>3. Len(text) <= MaxLen /\ Len(text) - show_x >= Len(box.text) - box.show_x - 1
      BY <1>1, <1>2, <1>3, <3>1
    <3>4. pos = show_x + input_x /\ show_x >= 0
      BY <1>1, <1>2, <2>1, <3>1
    <3>5. pos \in 0 .. Len(text)
      BY <1>1, <1>2, <1>3
    <3>6. input_x \in 0 .. Width - 1
      BY <1>1, <2>1, <3>1, <3>2
    <3>7. QED
      BY <3>2, <3>3, <3>4, <3>5, <3>6
  <2>2. CASE ~(box.input_x = Width - 1)
    <3>1. show_x = box.show_x /\ input_x = box.input_x + 1
      BY <2>2
    <3> HIDE DEF show_x, input_x
    <3>2. show_x \in Int /\ input_x \in Int /\ pos \in Int /\ Len(text) \in Int
      BY <1>1, <1>3, <3>1
    <3>3. Len(text) <= MaxLen /\ Len(text) - show_x >= Len(box.text) - box.show_x - 1
      BY <1>1, <1>2, <1>3, <3>1
    <3>4. pos = show_x + input_x /\ show_x >= 0
      BY <1>1, <3>1
    <3>5. pos \in 0 .. Len(text)
      BY <1>1, <1>2, <1>3
    <3>6. input_x \in 0 .. Width - 1
      BY <1>1, <2>2, <3>1, <3>2
    <3>7. QED
      BY <3>2, <3>3, <3>4, <3>5, <3>6
  <2>3. QED
    BY <2>1, <2>2
<1> HIDE DEF pos, show_x, input_x
<1>6. QED
  BY <1>3, <1>4, <1>5, RedrawnFine

LEMMA LeftFine == ASSUME Input!InputAssumption, Fine(box), box.pos > 0 PROVE Fine(Input!Left(box))
<1>1. CASE box.input_x > 0
  <2>1. Input!Left(box) = [box EXCEPT !.pos = box.pos - 1, !.input_x = box.input_x - 1]
    BY <1>1 DEF Input!Left
  <2>2. /\ box.pos - 1 \in Int /\ box.input_x - 1 \in Int /\ box.pos - 1 = box.show_x + (box.input_x - 1)
        /\ box.pos - 1 \in 0 .. Len(box.text) /\ box.input_x - 1 \in 0 .. Width - 1
    BY <1>1, InputKnown
  <2>3. QED
    BY <2>1, <2>2, MovedFine
<1>2. CASE ~(box.input_x > 0)
  <2>1. Input!Left(box) = Input!Redrawn([box EXCEPT !.pos = box.pos - 1, !.show_x = box.show_x - 1])
    BY <1>2 DEF Input!Left
  <2>2. /\ box.pos - 1 \in Int /\ box.show_x - 1 \in Int /\ box.pos - 1 = (box.show_x - 1) + box.input_x
        /\ box.pos - 1 \in 0 .. Len(box.text) /\ box.show_x - 1 >= 0
        /\ box.show_x - 1 <= box.show_x + 1
    BY <1>2, InputKnown
  <2>3. QED
    BY <2>1, <2>2, ShiftedFine
<1>3. QED
  BY <1>1, <1>2

LEMMA RightFine ==
  ASSUME Input!InputAssumption, Fine(box), box.pos < Len(box.text)
  PROVE  Fine(Input!Right(box))
<1>1. CASE box.input_x < Width - 1
  <2>1. Input!Right(box) = [box EXCEPT !.pos = box.pos + 1, !.input_x = box.input_x + 1]
    BY <1>1 DEF Input!Right
  <2>2. /\ box.pos + 1 \in Int /\ box.input_x + 1 \in Int /\ box.pos + 1 = box.show_x + (box.input_x + 1)
        /\ box.pos + 1 \in 0 .. Len(box.text) /\ box.input_x + 1 \in 0 .. Width - 1
    <3>1. /\ box.pos \in Int /\ box.show_x \in Int /\ box.input_x \in Int /\ Len(box.text) \in Nat
          /\ box.pos = box.show_x + box.input_x /\ box.pos >= 0 /\ box.input_x >= 0
          /\ Width \in Nat
      BY InputKnown
    <3>2. QED
      BY <1>1, <3>1
  <2>3. QED
    BY <2>1, <2>2, MovedFine
<1>2. CASE ~(box.input_x < Width - 1)
  <2>1. Input!Right(box) = Input!Redrawn([box EXCEPT !.pos = box.pos + 1, !.show_x = box.show_x + 1])
    BY <1>2 DEF Input!Right
  <2>2. /\ box.pos + 1 \in Int /\ box.show_x + 1 \in Int /\ box.pos + 1 = (box.show_x + 1) + box.input_x
        /\ box.pos + 1 \in 0 .. Len(box.text) /\ box.show_x + 1 >= 0
        /\ box.show_x + 1 <= box.show_x + 1
    BY <1>2, InputKnown
  <2>3. QED
    BY <2>1, <2>2, ShiftedFine
<1>3. QED
  BY <1>1, <1>2

LEMMA ButtonInv == ASSUME InputInv, NEW d \in {-1, 1}, Input!KeyButton(d) PROVE InputInv'
<1>1. Input!IsInput(box) /\ Fine(box) /\ box \in InputBox
  BY DEF Input!KeyButton, InputInv, Fine
<1>2. box' = [box EXCEPT !.button = ((box.button + 1 + d) % 3) - 1] /\ ((box.button + 1 + d) % 3) - 1 \in Int
  BY <1>1 DEF Input!KeyButton, Input!Button, InputBox
<1>3. /\ box' \in InputBox /\ box'.text = box.text /\ box'.pos = box.pos /\ box'.show_x = box.show_x
      /\ box'.input_x = box.input_x /\ box'.cells = box.cells
  BY <1>1, <1>2 DEF InputBox
<1>4. Fine(box')
  BY <1>1, <1>3 DEF Fine, Placed, Shows
<1>5. QED
  BY <1>4, FineInv

LEMMA OpenInv == ASSUME Input!InputAssumption, Input!Open PROVE InputInv'
<1>1. PICK text \in Input!Texts : box' = Input!Layout(text, -1)
  BY DEF Input!Open
<1>2. text \in Seq(Char) /\ Len(text) <= MaxLen
  <2>1. PICK n \in 0 .. MaxLen : text \in [1 .. n -> Char]
    BY DEF Input!Texts
  <2>2. n \in Nat /\ n <= MaxLen
    BY WidthType
  <2>3. QED
    BY <2>1, <2>2
<1>3. Fine(box')
  BY <1>1, <1>2, -1 \in Int, LayoutFine
<1>4. QED
  BY <1>3, FineInv

LEMMA ResizeInv == ASSUME Input!InputAssumption, InputInv, Input!KeyResize PROVE InputInv'
<1>1. Fine(box) /\ box' = Input!Layout(box.text, box.button)
  BY DEF Input!KeyResize, InputInv
<1>2. box.text \in Seq(Char) /\ Len(box.text) <= MaxLen /\ box.button \in Int
  BY <1>1, InputKnown DEF InputBox
<1>3. Fine(box')
  BY <1>1, <1>2, LayoutFine
<1>4. QED
  BY <1>3, FineInv

LEMMA InputStep == ASSUME Input!InputAssumption, InputInv, [Input!Next]_box PROVE InputInv'
<1>1. ASSUME Input!KeyBackspace PROVE InputInv'
  BY <1>1, BackspaceFine, FineInv DEF Input!KeyBackspace, Input!InField, InputInv
<1>2. ASSUME Input!KeyLeft PROVE InputInv'
  BY <1>2, LeftFine, FineInv DEF Input!KeyLeft, Input!InField, InputInv
<1>3. ASSUME Input!KeyRight PROVE InputInv'
  BY <1>3, RightFine, FineInv DEF Input!KeyRight, Input!InField, InputInv
<1>4. ASSUME NEW ch \in Char, Input!KeyChar(ch) PROVE InputInv'
  BY <1>4, TypedFine, FineInv DEF Input!KeyChar, Input!InField, InputInv
<1>5. ASSUME Input!KeyOk \/ Input!KeyHelp \/ Input!KeyEnter \/ Input!KeyEscape PROVE InputInv'
  <2>1. box'.kind = "answered"
    BY <1>5 DEF Input!KeyOk, Input!KeyHelp, Input!KeyEnter, Input!KeyEscape, Input!Answered
  <2>2. QED
    BY <2>1 DEF InputInv, Input!IsInput
<1>6. CASE UNCHANGED box
  BY <1>6 DEF InputInv, Input!IsInput, Fine, Placed, Shows
<1>7. QED
  BY <1>1, <1>2, <1>3, <1>4, <1>5, <1>6, OpenInv, ResizeInv, ButtonInv DEF Input!Next

-----------------------------------------------------------------------------
(* Induction over the numbers, as a fact about sets: nothing but a set of     *)
(* numbers has to be named to use it.                                         *)

LEMMA LeastNumber ==
  ASSUME NEW S \in SUBSET Nat, S # {}
  PROVE  \E m \in S : \A k \in S : m <= k
<1> DEFINE R == OpToRel(<, Nat)
<1>1. IsWellFoundedOn(R, Nat)
  BY NatLessThanWellFounded
<1>2. \A x, y \in Nat : y < x => <<y, x>> \in R
  BY DEF OpToRel
<1> HIDE DEF R
<1>3. PICK x \in S : \A y \in S : ~ (<<y, x>> \in R)
  BY <1>1, WFMin
<1>4. \A y \in S : x <= y
  <2>1. SUFFICES ASSUME NEW y \in S PROVE x <= y
    OBVIOUS
  <2>2. x \in Nat /\ y \in Nat /\ ~(y < x)
    BY <1>2, <1>3
  <2>3. QED
    BY <2>2
<1>5. QED
  BY <1>4

LEMMA EveryNumber ==
  ASSUME NEW S, 0 \in S, \A n \in Nat : n \in S => n + 1 \in S
  PROVE  Nat \subseteq S
<1> DEFINE C == Nat \ S
<1>1. SUFFICES ASSUME C # {} PROVE FALSE
  OBVIOUS
<1>2. C \in SUBSET Nat
  OBVIOUS
<1>3. PICK m \in C : \A k \in C : m <= k
  <2> HIDE DEF C
  <2> QED BY <1>1, <1>2, LeastNumber
<1>4. m # 0 /\ m - 1 \in Nat /\ m - 1 \notin C
  BY <1>3
<1>5. QED
  BY <1>4

(* The least and the greatest number of a bounded set.                        *)
LEMMA LeastOf ==
  ASSUME NEW S \in SUBSET Nat, S # {}
  PROVE  Page!Min(S) \in S /\ \A k \in S : Page!Min(S) <= k
<1>1. \E m \in S : \A k \in S : m <= k
  BY LeastNumber
<1>2. QED
  BY <1>1, Zenon DEF Page!Min

LEMMA GreatestOf ==
  ASSUME NEW S \in SUBSET Nat, S # {}, NEW n \in Nat, \A k \in S : k <= n
  PROVE  Page!Max(S) \in S /\ \A k \in S : Page!Max(S) >= k
<1> DEFINE T == {j \in 0 .. n : n - j \in S}
<1>1. T \in SUBSET Nat
  OBVIOUS
<1>2. T # {}
  <2>1. PICK k : k \in S
    OBVIOUS
  <2>2. n - k \in T
    BY <2>1
  <2>3. QED
    BY <2>2
<1>3. PICK j \in T : \A i \in T : j <= i
  <2> HIDE DEF T
  <2> QED BY <1>1, <1>2, LeastNumber
<1>4. n - j \in S /\ j \in 0 .. n
  OBVIOUS
<1>5. \A k \in S : n - j >= k
  <2>1. SUFFICES ASSUME NEW k \in S PROVE n - j >= k
    OBVIOUS
  <2>2. k \in Nat /\ k <= n
    OBVIOUS
  <2>3. n - k \in T
    BY <2>2
  <2>4. j <= n - k
    BY <1>3, <2>3
  <2>5. QED
    BY <1>4, <2>2, <2>4
<1>6. \E x \in S : \A y \in S : x >= y
  BY <1>4, <1>5
<1>7. QED
  BY <1>6, Zenon DEF Page!Max

LEMMA GreaterOfTwo ==
  ASSUME NEW a \in Int, NEW b \in Int
  PROVE  Page!Max({a, b}) = Menu!Most(a, b)
<1>1. Menu!Most(a, b) \in {a, b} /\ \A y \in {a, b} : Menu!Most(a, b) >= y
  BY DEF Menu!Most
<1>2. Page!Max({a, b}) \in {a, b} /\ \A y \in {a, b} : Page!Max({a, b}) >= y
  BY <1>1, Zenon DEF Page!Max
<1>3. QED
  BY <1>1, <1>2

-----------------------------------------------------------------------------
(* Lines and where they start. *)

(* A text that ends with a newline, as those of help and of searches do.      *)
Complete(t) == t \in Seq({Page!Newline, "x"}) /\ t # <<>> /\ t[Len(t)] = Page!Newline
Start(t, p) == p \in 0 .. Len(t) /\ (p = 0 \/ t[p] = Page!Newline)
Lines(t) == Page!LineOf(t, Len(t))

(* The instance of Cardinality that the box counts with is the one the         *)
(* library's theorems speak of.                                               *)
LEMMA LinesCounted ==
  ASSUME NEW t, NEW p
  PROVE  Page!LineOf(t, p) = Cardinality(Page!NewlinesBefore(t, p))
BY DEF Page!LineOf, Page!Cardinality, Cardinality

LEMMA NewlinesFinite ==
  ASSUME NEW t, NEW p \in Nat
  PROVE  /\ IsFiniteSet(Page!NewlinesBefore(t, p)) /\ Page!NewlinesBefore(t, p) \in SUBSET Nat
         /\ Page!LineOf(t, p) \in Nat
<1>1. IsFiniteSet(0 .. p - 1)
  BY FS_Interval
<1>2. Page!NewlinesBefore(t, p) \in SUBSET (0 .. p - 1)
  BY DEF Page!NewlinesBefore
<1>3. IsFiniteSet(Page!NewlinesBefore(t, p))
  BY <1>1, <1>2, FS_Subset
<1>4. QED
  BY <1>2, <1>3, FS_CardinalityType, LinesCounted

LEMMA FirstLine == ASSUME NEW t PROVE Page!LineOf(t, 0) = 0
<1>1. Page!NewlinesBefore(t, 0) = {}
  BY DEF Page!NewlinesBefore
<1>2. QED
  BY <1>1, FS_EmptySet, LinesCounted

LEMMA NextLine ==
  ASSUME NEW t, NEW p \in Nat, NEW q \in Nat, p < q, t[q] = Page!Newline,
         \A j \in p .. q - 2 : t[j + 1] # Page!Newline
  PROVE  Page!LineOf(t, q) = Page!LineOf(t, p) + 1
<1>1. Page!NewlinesBefore(t, q) = Page!NewlinesBefore(t, p) \cup {q - 1}
  BY DEF Page!NewlinesBefore
<1>2. q - 1 \notin Page!NewlinesBefore(t, p)
  BY DEF Page!NewlinesBefore
<1>3. QED
  BY <1>1, <1>2, NewlinesFinite, FS_AddElement, LinesCounted

LEMMA LaterLine ==
  ASSUME NEW t, NEW p \in Nat, NEW q \in Nat, p < q, t[q] = Page!Newline
  PROVE  Page!LineOf(t, p) < Page!LineOf(t, q)
<1>1. Page!NewlinesBefore(t, p) \in SUBSET Page!NewlinesBefore(t, q)
  BY DEF Page!NewlinesBefore
<1>2. q - 1 \in Page!NewlinesBefore(t, q) /\ q - 1 \notin Page!NewlinesBefore(t, p)
  BY DEF Page!NewlinesBefore
<1>3. /\ Page!LineOf(t, p) <= Page!LineOf(t, q)
      /\ Page!LineOf(t, p) = Page!LineOf(t, q) => Page!NewlinesBefore(t, p) = Page!NewlinesBefore(t, q)
  BY <1>1, NewlinesFinite, FS_Subset, LinesCounted
<1>4. QED
  BY <1>2, <1>3, NewlinesFinite

(* Where a pointer into the text stands: on a line, or behind the last one    *)
(* once the end was passed.                                                   *)
Pointer(t) == [page : 0 .. Len(t), begin : BOOLEAN, end : BOOLEAN]
Place(t, at) == Page!LineOf(t, at.page) + IF at.page = Len(t) /\ at.end THEN 1 ELSE 0
Stands(t, at, l) == at \in Pointer(t) /\ Start(t, at.page) /\ Place(t, at) = l

LEMMA CompleteText ==
  ASSUME NEW t, Complete(t)
  PROVE  /\ Len(t) \in Nat \ {0} /\ Start(t, Len(t)) /\ Lines(t) \in Nat \ {0}
         /\ \A p \in 0 .. Len(t) - 1 : Page!LineOf(t, p) \in 0 .. Lines(t) - 1
<1>1. Len(t) \in Nat \ {0} /\ t[Len(t)] = Page!Newline
  BY EmptySeq, LenProperties DEF Complete
<1>2. ASSUME NEW p \in 0 .. Len(t) - 1 PROVE Page!LineOf(t, p) \in 0 .. Lines(t) - 1
  <2>1. Page!LineOf(t, p) < Page!LineOf(t, Len(t))
    BY <1>1, LaterLine
  <2>2. QED
    BY <1>1, <2>1, NewlinesFinite DEF Lines
<1>3. Lines(t) \in Nat \ {0}
  BY <1>1, <1>2, NewlinesFinite DEF Lines
<1>4. QED
  BY <1>1, <1>2, <1>3 DEF Start

LEMMA PlaceRange ==
  ASSUME NEW t, Complete(t), NEW at, NEW l, Stands(t, at, l)
  PROVE  /\ l \in 0 .. Lines(t) + 1
         /\ at.page = Len(t) <=> l >= Lines(t)
         /\ at.page = 0 <=> l = 0
         /\ at.page < Len(t) => Page!LineOf(t, at.page) = l
<1>1. at.page \in 0 .. Len(t) /\ l = Page!LineOf(t, at.page) + IF at.page = Len(t) /\ at.end THEN 1 ELSE 0
  BY DEF Stands, Place, Pointer
<1>2. Page!LineOf(t, Len(t)) = Lines(t) /\ Page!LineOf(t, 0) = 0
  BY FirstLine DEF Lines
<1>3. at.page > 0 => Page!LineOf(t, at.page) > 0
  <2>1. SUFFICES ASSUME at.page > 0 PROVE Page!LineOf(t, at.page) > 0
    OBVIOUS
  <2>2. t[at.page] = Page!Newline /\ at.page \in Nat
    BY <1>1, <2>1, CompleteText DEF Stands, Start
  <2>3. Page!LineOf(t, 0) < Page!LineOf(t, at.page)
    BY <2>1, <2>2, LaterLine
  <2>4. QED
    BY <1>2, <2>3
<1>4. QED
  BY <1>1, <1>2, <1>3, CompleteText

LEMMA LineDown ==
  ASSUME NEW t, Complete(t), NEW at, NEW l, Stands(t, at, l)
  PROVE  /\ Stands(t, Page!GetLine(t, at), Menu!Least(l + 1, Lines(t) + 1))
         /\ Page!GetLine(t, at).begin = at.begin
         /\ Page!GetLine(t, at).end <=> l >= Lines(t)
<1> DEFINE ends == {e \in at.page .. Len(t) - 1 : t[e + 1] = Page!Newline}
<1>1. /\ Len(t) \in Nat \ {0} /\ Start(t, Len(t)) /\ Lines(t) \in Nat \ {0}
      /\ at \in Pointer(t) /\ at.page \in 0 .. Len(t) /\ t[Len(t)] = Page!Newline
  BY CompleteText DEF Stands, Pointer, Complete
<1>2. CASE ends = {}
  <2>1. Page!GetLine(t, at) = [at EXCEPT !.page = Len(t), !.end = TRUE]
    BY <1>2 DEF Page!GetLine
  <2>2. at.page = Len(t)
    <3>1. SUFFICES ASSUME at.page < Len(t) PROVE FALSE
      BY <1>1
    <3>2. Len(t) - 1 \in ends
      BY <1>1, <3>1
    <3>3. QED
      BY <1>2, <3>2
  <2>3. l \in Nat /\ l >= Lines(t) /\ l <= Lines(t) + 1
    BY <2>2, PlaceRange
  <2>4. /\ Page!GetLine(t, at) \in Pointer(t) /\ Page!GetLine(t, at).page = Len(t)
        /\ Page!GetLine(t, at).end = TRUE /\ Page!GetLine(t, at).begin = at.begin
    <3>1. Len(t) \in 0 .. Len(t)
      BY <1>1
    <3>2. Page!GetLine(t, at) \in Pointer(t)
      BY <1>1, <2>1, <3>1, Zenon DEF Pointer
    <3>3. QED
      BY <1>1, <2>1, <3>2 DEF Pointer
  <2>5. Place(t, Page!GetLine(t, at)) = Lines(t) + 1
    BY <2>4 DEF Place, Lines
  <2>6. Lines(t) + 1 = Menu!Least(l + 1, Lines(t) + 1)
    BY <1>1, <2>3 DEF Menu!Least
  <2>7. QED
    BY <1>1, <2>3, <2>4, <2>5, <2>6 DEF Stands
<1>3. CASE ends # {}
  <2>1. Page!GetLine(t, at) = [at EXCEPT !.page = Page!Min(ends) + 1, !.end = FALSE]
    BY <1>3 DEF Page!GetLine
  <2>2. Page!Min(ends) \in ends /\ \A k \in ends : Page!Min(ends) <= k
    <3>1. ends \in SUBSET Nat
      BY <1>1
    <3>2. QED
      BY <1>3, <3>1, LeastOf
  <2> DEFINE q == Page!Min(ends) + 1
  <2>3. q \in Nat /\ at.page < q /\ q <= Len(t) /\ t[q] = Page!Newline
    BY <1>1, <2>2
  <2>4. \A j \in at.page .. q - 2 : t[j + 1] # Page!Newline
    BY <1>1, <2>2
  <2>5. Page!LineOf(t, q) = Page!LineOf(t, at.page) + 1
    <3>1. at.page \in Nat /\ at.page < q /\ q \in Nat /\ t[q] = Page!Newline
      BY <1>1, <2>3
    <3> HIDE DEF q
    <3>2. QED
      BY <2>4, <3>1, NextLine
  <2>6. l < Lines(t) /\ l = Page!LineOf(t, at.page) /\ l \in Nat
    BY <1>1, <2>3, PlaceRange
  <2> HIDE DEF q
  <2>7. Page!GetLine(t, at) = [at EXCEPT !.page = q, !.end = FALSE]
    BY <2>1 DEF q
  <2>8. /\ Page!GetLine(t, at) \in Pointer(t) /\ Page!GetLine(t, at).page = q
        /\ Page!GetLine(t, at).end = FALSE /\ Page!GetLine(t, at).begin = at.begin
    <3>1. q \in 0 .. Len(t)
      BY <1>1, <2>3
    <3>2. Page!GetLine(t, at) \in Pointer(t)
      BY <1>1, <2>7, <3>1, Zenon DEF Pointer
    <3>3. QED
      BY <1>1, <2>7, <3>2 DEF Pointer
  <2>9. Place(t, Page!GetLine(t, at)) = l + 1 /\ Start(t, q)
    BY <1>1, <2>3, <2>5, <2>6, <2>8 DEF Place, Start
  <2>10. l + 1 = Menu!Least(l + 1, Lines(t) + 1)
    BY <1>1, <2>6 DEF Menu!Least
  <2>11. QED
    BY <1>1, <2>6, <2>8, <2>9, <2>10 DEF Stands
<1>4. QED
  BY <1>2, <1>3

LEMMA LineUp ==
  ASSUME NEW t, Complete(t), NEW at, NEW l, Stands(t, at, l)
  PROVE  /\ Stands(t, Page!BackLine(t, at), Menu!Most(l - 1, 0))
         /\ Page!BackLine(t, at).begin <=> (l <= 1 \/ at.begin)
<1> DEFINE starts == Page!NewlinesBefore(t, at.page - 1)
<1>1. /\ Len(t) \in Nat \ {0} /\ Lines(t) \in Nat \ {0}
      /\ at \in Pointer(t) /\ at.page \in 0 .. Len(t) /\ Start(t, at.page)
      /\ l \in Nat /\ l = Place(t, at)
  BY CompleteText, PlaceRange DEF Stands, Pointer
<1>2. CASE at.page = Len(t) /\ at.end
  <2>1. Page!BackLine(t, at) = [at EXCEPT !.end = FALSE]
    BY <1>2 DEF Page!BackLine
  <2>2. l = Lines(t) + 1
    BY <1>1, <1>2 DEF Place, Lines
  <2>3. /\ Page!BackLine(t, at) \in Pointer(t) /\ Page!BackLine(t, at).page = Len(t)
        /\ Page!BackLine(t, at).end = FALSE /\ Page!BackLine(t, at).begin = at.begin
    BY <1>1, <1>2, <2>1 DEF Pointer
  <2>4. Place(t, Page!BackLine(t, at)) = Lines(t) /\ Lines(t) = Menu!Most(l - 1, 0)
    BY <1>1, <2>2, <2>3 DEF Place, Lines, Menu!Most
  <2>5. QED
    BY <1>1, <1>2, <2>2, <2>3, <2>4 DEF Stands
<1>3. CASE ~(at.page = Len(t) /\ at.end) /\ (at.page = 0 \/ starts = {})
  <2>1. Page!BackLine(t, at) = [at EXCEPT !.page = 0, !.begin = TRUE]
    BY <1>3 DEF Page!BackLine
  <2>2. l <= 1
    <3>1. CASE at.page = 0
      BY <3>1, PlaceRange
    <3>2. CASE at.page # 0
      <4>1. at.page \in Nat /\ at.page > 0 /\ t[at.page] = Page!Newline
        BY <1>1, <3>2 DEF Start
      <4>2. \A j \in 0 .. at.page - 2 : t[j + 1] # Page!Newline
        BY <1>3, <3>2, <4>1 DEF Page!NewlinesBefore
      <4>3. Page!LineOf(t, at.page) = Page!LineOf(t, 0) + 1
        BY <4>1, <4>2, NextLine
      <4>4. QED
        BY <1>1, <1>3, <4>3, FirstLine DEF Place
    <3>3. QED
      BY <3>1, <3>2
  <2>3. /\ Page!BackLine(t, at) \in Pointer(t) /\ Page!BackLine(t, at).page = 0
        /\ Page!BackLine(t, at).begin = TRUE
    <3>1. 0 \in 0 .. Len(t)
      BY <1>1
    <3>2. Page!BackLine(t, at) \in Pointer(t)
      BY <1>1, <2>1, <3>1, Zenon DEF Pointer
    <3>3. QED
      BY <1>1, <2>1, <3>2 DEF Pointer
  <2>4. Place(t, Page!BackLine(t, at)) = 0 /\ 0 = Menu!Most(l - 1, 0)
    BY <1>1, <2>2, <2>3, FirstLine DEF Place, Menu!Most
  <2>5. QED
    BY <1>1, <2>2, <2>3, <2>4 DEF Stands, Start
<1>4. CASE ~(at.page = Len(t) /\ at.end) /\ at.page # 0 /\ starts # {}
  <2>1. Page!BackLine(t, at) = [at EXCEPT !.page = Page!Max(starts) + 1]
    BY <1>4 DEF Page!BackLine
  <2>2. Page!Max(starts) \in starts /\ \A k \in starts : Page!Max(starts) >= k
    <3>1. starts \in SUBSET Nat /\ at.page \in Nat /\ \A k \in starts : k <= at.page
      BY <1>1 DEF Page!NewlinesBefore
    <3>2. QED
      BY <1>4, <3>1, GreatestOf
  <2> DEFINE p == Page!Max(starts) + 1
  <2>3. p \in Nat /\ 0 < p /\ p < at.page /\ t[p] = Page!Newline
    BY <1>1, <2>2 DEF Page!NewlinesBefore
  <2>4. \A j \in p .. at.page - 2 : t[j + 1] # Page!Newline
    BY <1>1, <2>2 DEF Page!NewlinesBefore
  <2>5. t[at.page] = Page!Newline /\ at.page \in Nat
    BY <1>1, <1>4 DEF Start
  <2>6. Page!LineOf(t, at.page) = Page!LineOf(t, p) + 1
    BY <2>3, <2>4, <2>5, NextLine
  <2>7. Page!LineOf(t, 0) < Page!LineOf(t, p) /\ Page!LineOf(t, p) \in Nat
    BY <2>3, LaterLine, NewlinesFinite
  <2>8. l = Page!LineOf(t, p) + 1 /\ Page!LineOf(t, p) > 0
    BY <1>1, <1>4, <2>6, <2>7, FirstLine DEF Place
  <2> HIDE DEF p
  <2>9. Page!BackLine(t, at) = [at EXCEPT !.page = p]
    BY <2>1 DEF p
  <2>10. /\ Page!BackLine(t, at) \in Pointer(t) /\ Page!BackLine(t, at).page = p
         /\ Page!BackLine(t, at).begin = at.begin
    BY <1>1, <2>3, <2>9 DEF Pointer
  <2>11. Place(t, Page!BackLine(t, at)) = l - 1 /\ Start(t, p) /\ l - 1 = Menu!Most(l - 1, 0)
    BY <1>1, <2>3, <2>7, <2>8, <2>10 DEF Place, Start, Menu!Most
  <2>12. QED
    BY <1>1, <2>7, <2>8, <2>10, <2>11 DEF Stands
<1>5. QED
  BY <1>2, <1>3, <1>4

-----------------------------------------------------------------------------
(* Several lines.  What a recursive function over 0 .. m is has to be shown by *)
(* induction before its values can be spoken of.                              *)

LEMMA LinesForward ==
  ASSUME NEW t, NEW at, NEW m \in Nat
  PROVE  Page!GetLines(t, at, m) =
           [k \in 0 .. m |-> IF k = 0 THEN at ELSE Page!GetLine(t, Page!GetLines(t, at, m)[k - 1])]
<1> DEFINE Is(f, n) == f = [k \in 0 .. n |-> IF k = 0 THEN at ELSE Page!GetLine(t, f[k - 1])]
           S == {n \in Nat : \E f : Is(f, n)}
<1>1. 0 \in S
  <2>1. Is([k \in 0 .. 0 |-> at], 0)
    OBVIOUS
  <2>2. QED
    BY <2>1
<1>2. ASSUME NEW n \in Nat, n \in S PROVE n + 1 \in S
  <2>1. PICK f : Is(f, n)
    BY <1>2
  <2> DEFINE g == [k \in 0 .. n + 1 |-> IF k <= n THEN f[k] ELSE Page!GetLine(t, f[n])]
  <2>2. Is(g, n + 1)
    <3>1. \A k \in 0 .. n + 1 : g[k] = IF k = 0 THEN at ELSE Page!GetLine(t, g[k - 1])
      BY <2>1
    <3>2. QED
      BY <3>1
  <2>3. QED
    <3> HIDE DEF g
    <3> QED BY <2>2
<1>3. m \in S
  <2>1. Nat \subseteq S
    <3> HIDE DEF S
    <3> QED BY <1>1, <1>2, EveryNumber
  <2>2. QED
    BY <2>1
<1>4. \E f : Is(f, m)
  BY <1>3
<1>5. Is(CHOOSE f : Is(f, m), m)
  <2> HIDE DEF Is
  <2> QED BY <1>4, Zenon
<1>6. Page!GetLines(t, at, m) = CHOOSE f : Is(f, m)
  BY DEF Page!GetLines
<1>7. QED
  BY <1>5, <1>6

(* The lines that taking the page back goes through.                          *)
Before(t, at, m) ==
  CHOOSE before :
    before = [k \in 0 .. m |->
                IF k = 0 THEN [at EXCEPT !.begin = FALSE]
                ELSE IF before[k - 1].begin THEN before[k - 1] ELSE Page!BackLine(t, before[k - 1])]

LEMMA LinesBackward ==
  ASSUME NEW t, NEW at, NEW m \in Nat
  PROVE  /\ Before(t, at, m) =
              [k \in 0 .. m |->
                IF k = 0 THEN [at EXCEPT !.begin = FALSE]
                ELSE IF Before(t, at, m)[k - 1].begin THEN Before(t, at, m)[k - 1]
                     ELSE Page!BackLine(t, Before(t, at, m)[k - 1])]
         /\ Page!BackLines(t, at, m) = Before(t, at, m)[m]
<1> DEFINE first == [at EXCEPT !.begin = FALSE]
           Back(x) == IF x.begin THEN x ELSE Page!BackLine(t, x)
           Is(f, n) == f = [k \in 0 .. n |-> IF k = 0 THEN first ELSE Back(f[k - 1])]
           S == {n \in Nat : \E f : Is(f, n)}
<1>1. Page!BackLines(t, at, m) = (CHOOSE f : Is(f, m))[m] /\ Before(t, at, m) = CHOOSE f : Is(f, m)
  BY DEF Page!BackLines, Before
<1>2. Is(Before(t, at, m), m) =>
        Before(t, at, m) =
              [k \in 0 .. m |->
                IF k = 0 THEN [at EXCEPT !.begin = FALSE]
                ELSE IF Before(t, at, m)[k - 1].begin THEN Before(t, at, m)[k - 1]
                     ELSE Page!BackLine(t, Before(t, at, m)[k - 1])]
  OBVIOUS
<1> HIDE DEF first, Back
<1>3. 0 \in S
  <2>1. Is([k \in 0 .. 0 |-> first], 0)
    OBVIOUS
  <2>2. QED
    BY <2>1
<1>4. ASSUME NEW n \in Nat, n \in S PROVE n + 1 \in S
  <2>1. PICK f : Is(f, n)
    BY <1>4
  <2> DEFINE g == [k \in 0 .. n + 1 |-> IF k <= n THEN f[k] ELSE Back(f[n])]
  <2>2. Is(g, n + 1)
    <3>1. \A k \in 0 .. n + 1 : g[k] = IF k = 0 THEN first ELSE Back(g[k - 1])
      BY <2>1
    <3>2. QED
      BY <3>1
  <2>3. QED
    <3> HIDE DEF g
    <3> QED BY <2>2
<1>5. m \in S
  <2>1. Nat \subseteq S
    <3> HIDE DEF S
    <3> QED BY <1>3, <1>4, EveryNumber
  <2>2. QED
    BY <2>1
<1>6. \E f : Is(f, m)
  BY <1>5
<1>7. Is(CHOOSE f : Is(f, m), m)
  <2> HIDE DEF Is
  <2> QED BY <1>6, Zenon
<1>8. QED
  BY <1>7, <1>1, <1>2

LEMMA LinesDown ==
  ASSUME NEW t, Complete(t), NEW at, NEW l, Stands(t, at, l), NEW m \in Nat
  PROVE  \A k \in 0 .. m :
           LET x == Page!GetLines(t, at, m)[k]
           IN  /\ Stands(t, x, Menu!Least(l + k, Lines(t) + 1)) /\ x.begin = at.begin
               /\ k > 0 => (x.end <=> l + k > Lines(t))
<1> DEFINE f == Page!GetLines(t, at, m)
           Good(k) == /\ Stands(t, f[k], Menu!Least(l + k, Lines(t) + 1)) /\ f[k].begin = at.begin
                      /\ k > 0 => (f[k].end <=> l + k > Lines(t))
           S == {k \in Nat : k <= m => Good(k)}
<1>1. /\ l \in 0 .. Lines(t) + 1 /\ Lines(t) \in Nat
      /\ \A k \in 0 .. m : f[k] = IF k = 0 THEN at ELSE Page!GetLine(t, f[k - 1])
  <2>1. \A k \in 0 .. m : f[k] = IF k = 0 THEN at ELSE Page!GetLine(t, f[k - 1])
    <3>1. f = [k \in 0 .. m |-> IF k = 0 THEN at ELSE Page!GetLine(t, f[k - 1])]
      BY LinesForward
    <3> HIDE DEF f
    <3>2. QED
      BY <3>1
  <2>2. QED
    BY <2>1, PlaceRange, CompleteText
<1> HIDE DEF f
<1>2. 0 \in S
  BY <1>1 DEF Menu!Least
<1>3. ASSUME NEW n \in Nat, n \in S PROVE n + 1 \in S
  <2>1. SUFFICES ASSUME n + 1 <= m PROVE Good(n + 1)
    OBVIOUS
  <2>2. Good(n) /\ f[n + 1] = Page!GetLine(t, f[n])
    BY <1>1, <1>3, <2>1
  <2> DEFINE p == Menu!Least(l + n, Lines(t) + 1)
  <2>3. /\ Stands(t, f[n + 1], Menu!Least(p + 1, Lines(t) + 1))
        /\ f[n + 1].begin = f[n].begin
        /\ f[n + 1].end <=> p >= Lines(t)
    <3>1. Stands(t, f[n], p)
      BY <2>2
    <3> HIDE DEF p
    <3>2. QED
      BY <2>2, <3>1, LineDown
  <2>4. Menu!Least(p + 1, Lines(t) + 1) = Menu!Least(l + (n + 1), Lines(t) + 1)
        /\ (p >= Lines(t) <=> l + (n + 1) > Lines(t))
    BY <1>1 DEF Menu!Least
  <2>5. f[n + 1].begin = at.begin
    BY <2>2, <2>3
  <2>6. Stands(t, f[n + 1], Menu!Least(l + (n + 1), Lines(t) + 1))
    BY <2>3, <2>4
  <2>7. QED
    BY <2>3, <2>4, <2>5, <2>6
<1>4. Nat \subseteq S
  <2> HIDE DEF S
  <2> QED BY <1>2, <1>3, EveryNumber
<1>5. QED
  <2>1. \A k \in 0 .. m : Good(k)
    BY <1>4
  <2>2. QED
    BY <2>1 DEF f

LEMMA LinesUp ==
  ASSUME NEW t, Complete(t), NEW at, NEW l, Stands(t, at, l), NEW m \in Nat
  PROVE  /\ Stands(t, Page!BackLines(t, at, m), Menu!Most(l - m, 0))
         /\ Page!BackLines(t, at, m).begin <=> m > 0 /\ l <= m
<1> DEFINE f == Before(t, at, m)
           Good(k) == /\ Stands(t, f[k], Menu!Most(l - k, 0))
                      /\ f[k].begin <=> k > 0 /\ l <= k
           S == {k \in Nat : k <= m => Good(k)}
<1> DEFINE first == [at EXCEPT !.begin = FALSE]
           Back(x) == IF x.begin THEN x ELSE Page!BackLine(t, x)
<1>1. l \in Nat /\ f[0] = first /\ \A k \in 1 .. m : f[k] = Back(f[k - 1])
  <2>1. f = [k \in 0 .. m |-> IF k = 0 THEN first ELSE Back(f[k - 1])]
    BY LinesBackward
  <2> HIDE DEF f, first, Back
  <2>2. QED
    BY <2>1, PlaceRange, CompleteText
<1>2. Page!BackLines(t, at, m) = f[m]
  BY LinesBackward
<1> HIDE DEF f
<1>3. 0 \in S
  <2>1. f[0] = [at EXCEPT !.begin = FALSE]
    BY <1>1
  <2>2. f[0] \in Pointer(t) /\ f[0].page = at.page /\ f[0].end = at.end /\ f[0].begin = FALSE
    BY <2>1 DEF Stands, Pointer
  <2>3. Stands(t, f[0], l)
    BY <2>2 DEF Stands, Place
  <2>4. Menu!Most(l - 0, 0) = l
    BY <1>1 DEF Menu!Most
  <2>5. QED
    BY <2>2, <2>3, <2>4
<1>4. ASSUME NEW n \in Nat, n \in S PROVE n + 1 \in S
  <2>1. SUFFICES ASSUME n + 1 <= m PROVE Good(n + 1)
    OBVIOUS
  <2>2. Good(n) /\ f[n + 1] = IF f[n].begin THEN f[n] ELSE Page!BackLine(t, f[n])
    BY <1>1, <1>4, <2>1
  <2> DEFINE p == Menu!Most(l - n, 0)
  <2>3. CASE f[n].begin
    <3>1. l <= n /\ Menu!Most(l - (n + 1), 0) = p /\ f[n + 1] = f[n]
      BY <1>1, <2>2, <2>3 DEF Menu!Most
    <3>2. QED
      BY <1>1, <2>2, <2>3, <3>1
  <2>4. CASE ~f[n].begin
    <3>1. f[n + 1] = Page!BackLine(t, f[n]) /\ Stands(t, f[n], p) /\ ~(n > 0 /\ l <= n)
      BY <2>2, <2>4
    <3>2. /\ Stands(t, f[n + 1], Menu!Most(p - 1, 0))
          /\ f[n + 1].begin <=> p <= 1
      <4> HIDE DEF p
      <4> QED BY <2>4, <3>1, LineUp
    <3>3. Menu!Most(p - 1, 0) = Menu!Most(l - (n + 1), 0) /\ (p <= 1 <=> l <= n + 1)
      BY <1>1, <3>1 DEF Menu!Most
    <3>4. QED
      BY <3>2, <3>3
  <2>5. QED
    BY <2>3, <2>4
<1>5. Nat \subseteq S
  <2> HIDE DEF S
  <2> QED BY <1>3, <1>4, EveryNumber
<1>6. QED
  <2>1. Good(m)
    BY <1>5
  <2>2. QED
    BY <1>2, <2>1

-----------------------------------------------------------------------------
(* The page.  The pointer stands page_length lines below the first line shown, *)
(* which is what every key relies on when it takes the pointer back.          *)

TextBox ==
  [kind : {"text"}, text : Text, boxh : Height, update : BOOLEAN, hscroll : Int,
   at : [page : Nat, begin : BOOLEAN, end : BOOLEAN], top : Int, page_length : Int]
TopLine(b) == Page!LineOf(b.text, b.top)
LastTop(b) == Menu!Most(Lines(b.text) + 1 - b.boxh, 0)

Paged(b) ==
  /\ b \in TextBox
  /\ Start(b.text, b.top) /\ TopLine(b) <= Lines(b.text)
  /\ TopLine(b) + b.page_length = Menu!Least(TopLine(b) + b.boxh, Lines(b.text) + 1)
  /\ Stands(b.text, b.at, TopLine(b) + b.page_length)
  /\ b.at.begin <=> b.top = 0
  /\ b.at.end <=> TopLine(b) + b.page_length > Lines(b.text)
  /\ b.update => TopLine(b) <= LastTop(b)

LEMMA TopKnown ==
  ASSUME NEW t, Complete(t), NEW at, NEW l, Stands(t, at, l), l <= Lines(t)
  PROVE  Page!LineOf(t, at.page) = l /\ at.page \in Nat /\ l \in Nat /\ (at.page = 0 <=> l = 0)
<1>1. l = Page!LineOf(t, at.page) + IF at.page = Len(t) /\ at.end THEN 1 ELSE 0
  BY DEF Stands, Place
<1>2. at.page \in 0 .. Len(t) /\ Page!LineOf(t, Len(t)) = Lines(t) /\ Len(t) \in Nat
  BY CompleteText DEF Stands, Pointer, Lines
<1>3. Page!LineOf(t, at.page) \in Nat
  BY <1>2, NewlinesFinite
<1>4. QED
  BY <1>1, <1>2, <1>3, PlaceRange, CompleteText

(* print_page shows the page from the line it is given on, or the last full   *)
(* page, and leaves the pointer behind it.                                    *)
LEMMA PagePrinted ==
  ASSUME Page!TextAssumption, NEW b, b \in TextBox, Complete(b.text),
         NEW at, NEW l, Stands(b.text, at, l), l <= Lines(b.text),
         b.update \/ (at.begin <=> l = 0)
  PROVE  /\ Paged(Page!Printed(b, at))
         /\ Page!Printed(b, at).text = b.text /\ Page!Printed(b, at).boxh = b.boxh
         /\ Page!Printed(b, at).update = b.update
         /\ TopLine(Page!Printed(b, at)) = IF b.update THEN Menu!Least(l, LastTop(b)) ELSE l
<1> DEFINE t == b.text
           h == b.boxh
           n == Lines(t)
           start == IF b.update THEN Page!BackLines(t, Page!GetLines(t, at, h)[h], h) ELSE at
           after == Page!GetLines(t, start, h)
           ended == {k \in 1 .. h : after[k].end}
           q == Page!Printed(b, at)
           s == IF b.update THEN Menu!Least(l, LastTop(b)) ELSE l
<1>1. h \in Nat \ {0} /\ n \in Nat \ {0} /\ l \in 0 .. n
  <2>1. h \in Nat \ {0}
    <3>1. Height \subseteq Nat \ {0} /\ h \in Height
      BY Zenon DEF TextBox, Page!TextAssumption
    <3>2. QED
      BY <3>1
  <2>2. QED
    BY <2>1, PlaceRange, CompleteText
<1>2. Stands(t, start, s) /\ (start.begin <=> s = 0) /\ s \in 0 .. n
  <2>1. CASE b.update
    <3> DEFINE x == Page!GetLines(t, at, h)[h]
               r == Menu!Least(l + h, n + 1)
    <3>1. Stands(t, x, r)
      <4>1. h \in Nat /\ h \in 0 .. h
        BY <1>1
      <4> HIDE DEF t, h
      <4>2. Complete(t) /\ Stands(t, at, l)
        BY DEF t
      <4>3. QED
        BY <4>1, <4>2, LinesDown
    <3>2. r \in Nat /\ Menu!Most(r - h, 0) = s /\ s \in 0 .. n /\ (h > 0 /\ r <= h <=> s = 0)
      BY <1>1, <2>1 DEF Menu!Least, Menu!Most, LastTop
    <3> HIDE DEF x, r
    <3>3. Stands(t, Page!BackLines(t, x, h), Menu!Most(r - h, 0)) /\ (Page!BackLines(t, x, h).begin <=> h > 0 /\ r <= h)
      BY <1>1, <3>1, LinesUp
    <3>4. start = Page!BackLines(t, x, h)
      BY <2>1 DEF x
    <3> HIDE DEF start, s
    <3>5. QED
      BY <3>2, <3>3, <3>4
  <2>2. CASE ~b.update
    BY <1>1, <2>2
  <2>3. QED
    BY <2>1, <2>2
<1> HIDE DEF start, s
<1>3. \A k \in 0 .. h : /\ Stands(t, after[k], Menu!Least(s + k, n + 1)) /\ after[k].begin = start.begin
                        /\ k > 0 => (after[k].end <=> s + k > n)
  BY <1>1, <1>2, LinesDown
<1>4. q = [b EXCEPT !.at = after[h], !.top = start.page,
                    !.page_length = IF ended = {} THEN h ELSE Page!Min(ended)]
  BY DEF Page!Printed, start
<1> HIDE DEF after
<1>5. (IF ended = {} THEN h ELSE Page!Min(ended)) = Menu!Least(s + h, n + 1) - s
  <2>1. ended = {k \in 1 .. h : s + k > n}
    BY <1>1, <1>3
  <2>2. CASE ended = {}
    <3>1. h \notin ended
      BY <2>2
    <3>2. s + h <= n
      BY <1>1, <1>2, <2>1, <3>1
    <3>3. QED
      BY <1>1, <1>2, <2>2, <3>2 DEF Menu!Least
  <2>3. CASE ended # {}
    <3>1. Page!Min(ended) \in ended /\ \A k \in ended : Page!Min(ended) <= k
      <4>1. ended \in SUBSET Nat
        BY <1>1
      <4> HIDE DEF ended
      <4>2. QED
        BY <2>3, <4>1, LeastOf
    <3>2. Page!Min(ended) \in 1 .. h /\ s + Page!Min(ended) > n
      BY <2>1, <3>1
    <3>3. n + 1 - s \in ended
      BY <1>1, <1>2, <2>1, <3>2
    <3>4. Page!Min(ended) <= n + 1 - s
      BY <3>1, <3>3
    <3> HIDE DEF ended
    <3>5. QED
      BY <1>1, <1>2, <2>3, <3>2, <3>4 DEF Menu!Least
  <2>4. QED
    BY <2>2, <2>3
<1> HIDE DEF ended, q
<1>6. /\ q.at = after[h] /\ q.top = start.page /\ q.page_length = Menu!Least(s + h, n + 1) - s
      /\ q.text = t /\ q.boxh = h /\ q.update = b.update
  BY <1>4, <1>5 DEF TextBox
<1>7. Page!LineOf(t, start.page) = s /\ start.page \in Nat /\ (start.page = 0 <=> s = 0) /\ Start(t, start.page)
  <2>1. Stands(t, start, s) /\ s <= Lines(t)
    BY <1>1, <1>2
  <2>2. QED
    BY <2>1, TopKnown DEF Stands
<1>8. TopLine(q) = s
  BY <1>6, <1>7 DEF TopLine
<1>9. q \in TextBox
  <2>1. after[h] \in [page : Nat, begin : BOOLEAN, end : BOOLEAN]
    <3>1. after[h] \in [page : 0 .. Len(t), begin : BOOLEAN, end : BOOLEAN]
      BY <1>1, <1>3 DEF Stands, Pointer
    <3>2. QED
      BY <3>1
  <2>2. start.page \in Int /\ Menu!Least(s + h, n + 1) - s \in Int
    BY <1>1, <1>2, <1>7 DEF Menu!Least
  <2>3. q = [b EXCEPT !.at = after[h], !.top = start.page, !.page_length = Menu!Least(s + h, n + 1) - s]
    BY <1>4, <1>5
  <2>4. QED
    BY <2>1, <2>2, <2>3, Zenon DEF TextBox
<1>10. Paged(q)
  <2>1. Start(q.text, q.top) /\ TopLine(q) <= Lines(q.text)
    BY <1>1, <1>2, <1>6, <1>7, <1>8
  <2>2. TopLine(q) + q.page_length = Menu!Least(TopLine(q) + q.boxh, Lines(q.text) + 1)
    BY <1>1, <1>2, <1>6, <1>8 DEF Menu!Least
  <2>3. Stands(q.text, q.at, TopLine(q) + q.page_length)
    <3>1. Stands(t, after[h], Menu!Least(s + h, n + 1))
      BY <1>1, <1>3
    <3>2. TopLine(q) + q.page_length = Menu!Least(s + h, n + 1)
      BY <1>6, <1>8, <2>2
    <3>3. QED
      BY <1>6, <3>1, <3>2
  <2>4. q.at.begin <=> q.top = 0
    BY <1>1, <1>2, <1>3, <1>6, <1>7
  <2>5. q.at.end <=> TopLine(q) + q.page_length > Lines(q.text)
    <3>1. after[h].end <=> s + h > n
      BY <1>1, <1>3
    <3>2. s + h > n <=> Menu!Least(s + h, n + 1) > n
      BY <1>1, <1>2 DEF Menu!Least
    <3>3. QED
      BY <1>6, <1>8, <2>2, <3>1, <3>2
  <2>6. q.update => TopLine(q) <= LastTop(q)
    BY <1>1, <1>2, <1>6, <1>8 DEF s, Menu!Least, Menu!Most, LastTop
  <2>7. QED
    BY <1>9, <2>1, <2>2, <2>3, <2>4, <2>5, <2>6 DEF Paged
<1>11. QED
  BY <1>6, <1>8, <1>10 DEF q, s

-----------------------------------------------------------------------------
(* The keys. *)

LEMMA AllComplete ==
  ASSUME Page!TextAssumption, \A t \in Text : t[Len(t)] = Page!Newline
  PROVE  \A t \in Text : Complete(t)
BY Zenon DEF Page!TextAssumption, Complete

LEMMA PageKnown ==
  ASSUME Page!TextAssumption, NEW b, Complete(b.text), Paged(b)
  PROVE  LET s == TopLine(b)  h == b.boxh  n == Lines(b.text)
         IN  /\ b \in TextBox /\ h \in Nat \ {0} /\ n \in Nat \ {0} /\ s \in 0 .. n
             /\ b.page_length \in 1 .. h /\ s + b.page_length = Menu!Least(s + h, n + 1)
             /\ Stands(b.text, b.at, s + b.page_length)
             /\ b.at.begin <=> s = 0
             /\ b.at.end <=> s + b.page_length > n
             /\ b.update => s <= LastTop(b)
             /\ LastTop(b) = Menu!Most(n + 1 - h, 0)
             /\ b.at \in Pointer(b.text)
<1> DEFINE t == b.text
           s == TopLine(b)
           h == b.boxh
           n == Lines(t)
<1>1. h \in Nat \ {0}
  <2>1. Height \subseteq Nat \ {0} /\ h \in Height
    BY Zenon DEF Paged, TextBox, Page!TextAssumption
  <2>2. QED
    BY <2>1
<1>2. n \in Nat \ {0} /\ Len(t) \in Nat
  BY CompleteText
<1>3. b.top \in Nat /\ b.top <= Len(t) /\ s \in Nat
  BY <1>2, NewlinesFinite DEF Paged, Start, TopLine
<1>4. b.top = 0 <=> s = 0
  <2>1. b.top = 0 => s = 0
    BY FirstLine DEF TopLine
  <2>2. ASSUME b.top # 0 PROVE s > 0
    <3>1. t[b.top] = Page!Newline /\ 0 < b.top
      BY <1>3, <2>2 DEF Paged, Start
    <3>2. Page!LineOf(t, 0) < Page!LineOf(t, b.top)
      BY <1>3, <3>1, LaterLine
    <3>3. QED
      BY <3>2, FirstLine DEF TopLine
  <2>3. QED
    BY <2>1, <2>2
<1>5. b.page_length \in 1 .. h
  <2>1. b.page_length \in Int /\ s <= n /\ s + b.page_length = Menu!Least(s + h, n + 1)
    BY DEF Paged, TextBox
  <2>2. QED
    BY <1>1, <1>2, <1>3, <2>1 DEF Menu!Least
<1>6. QED
  BY <1>1, <1>2, <1>3, <1>4, <1>5 DEF Paged, LastTop, Stands

(* The box b printed from a line on, or from the last one that fills a page.  *)
ShowsFrom(q, b, line) ==
  Paged(q) /\ q.text = b.text /\ TopLine(q) = IF b.update THEN Menu!Least(line, LastTop(b)) ELSE line

(* Going back and printing. *)
LEMMA Reprinted ==
  ASSUME Page!TextAssumption, NEW b, b \in TextBox, Complete(b.text),
         NEW at, NEW l, Stands(b.text, at, l),
         NEW m \in Nat, m > 0 \/ l > 0, l - m <= Lines(b.text)
  PROVE  ShowsFrom(Page!Printed(b, Page!BackLines(b.text, at, m)), b, Menu!Most(l - m, 0))
<1> DEFINE back == Page!BackLines(b.text, at, m)
           to == Menu!Most(l - m, 0)
<1>1. Stands(b.text, back, to) /\ (back.begin <=> m > 0 /\ l <= m)
  BY LinesUp
<1>2. l \in Nat /\ Lines(b.text) \in Nat
  BY PlaceRange, CompleteText
<1>3. to <= Lines(b.text) /\ (to = 0 <=> m > 0 /\ l <= m)
  BY <1>2 DEF Menu!Most
<1> HIDE DEF back, to
<1>4. back.begin <=> to = 0
  BY <1>1, <1>3
<1>5. /\ Paged(Page!Printed(b, back)) /\ Page!Printed(b, back).text = b.text /\ Page!Printed(b, back).boxh = b.boxh
      /\ Page!Printed(b, back).update = b.update
      /\ TopLine(Page!Printed(b, back)) = IF b.update THEN Menu!Least(to, LastTop(b)) ELSE to
  BY <1>1, <1>3, <1>4, PagePrinted
<1>6. QED
  BY <1>5 DEF back, to, ShowsFrom

(* The same of the box as it is, by m lines more than its page has.           *)
LEMMA BackFrom ==
  ASSUME Page!TextAssumption, NEW b, Paged(b), Complete(b.text), NEW m \in Nat,
         NEW to, to = TopLine(b) + b.page_length - m, to <= Lines(b.text)
  PROVE  ShowsFrom(Page!Reprint(b, m), b, Menu!Most(to, 0))
<1>1. PICK l \in Nat : l = TopLine(b) + b.page_length /\ l > 0 /\ Stands(b.text, b.at, l)
  BY PageKnown
<1>2. b \in TextBox
  BY DEF Paged
<1>3. to = l - m
  <2>1. TopLine(b) \in Nat /\ b.page_length \in Nat
    BY PageKnown
  <2>2. QED
    BY <1>1, <2>1
<1>4. Page!Reprint(b, m) = Page!Printed(b, Page!BackLines(b.text, b.at, m))
  BY DEF Page!Reprint
<1>5. l - m <= Lines(b.text)
  BY <1>3
<1>6. QED
  BY <1>1, <1>2, <1>3, <1>4, <1>5, Reprinted

LEMMA UpMoves ==
  ASSUME Page!TextAssumption, Paged(box), Complete(box.text), Page!KeyUp
  PROVE  Paged(box') /\ box'.text = box.text /\ TopLine(box') = TopLine(box) - 1
<1> DEFINE m == box.page_length + 1
<1>1. /\ m \in Nat /\ TopLine(box) + box.page_length - m = TopLine(box) - 1
      /\ TopLine(box) \in Nat /\ Lines(box.text) \in Nat /\ TopLine(box) <= Lines(box.text) /\ TopLine(box) # 0
      /\ box.update => TopLine(box) <= LastTop(box)
      /\ LastTop(box) \in Nat
  BY PageKnown DEF Page!KeyUp, Menu!Most
<1>2. box' = Page!Reprint(box, m)
  BY DEF Page!KeyUp
<1> HIDE DEF m
<1>3. /\ Paged(box') /\ box'.text = box.text
      /\ TopLine(box') = IF box.update THEN Menu!Least(Menu!Most(TopLine(box) - 1, 0), LastTop(box))
                         ELSE Menu!Most(TopLine(box) - 1, 0)
  BY <1>1, <1>2, BackFrom DEF ShowsFrom
<1>4. QED
  BY <1>1, <1>3 DEF Menu!Least, Menu!Most

LEMMA PageUpMoves ==
  ASSUME Page!TextAssumption, Paged(box), Complete(box.text), Page!KeyPageUp
  PROVE  Paged(box') /\ box'.text = box.text /\ TopLine(box') = Menu!Most(TopLine(box) - box.boxh, 0)
<1> DEFINE m == box.page_length + box.boxh
<1>1. /\ m \in Nat /\ TopLine(box) + box.page_length - m = TopLine(box) - box.boxh
      /\ TopLine(box) \in Nat /\ Lines(box.text) \in Nat /\ TopLine(box) <= Lines(box.text)
      /\ box.boxh \in Nat
      /\ box.update => TopLine(box) <= LastTop(box)
      /\ LastTop(box) \in Nat
  BY PageKnown DEF Menu!Most
<1>2. box' = Page!Reprint(box, m)
  BY DEF Page!KeyPageUp
<1> HIDE DEF m
<1>3. /\ Paged(box') /\ box'.text = box.text
      /\ TopLine(box') = IF box.update THEN Menu!Least(Menu!Most(TopLine(box) - box.boxh, 0), LastTop(box))
                         ELSE Menu!Most(TopLine(box) - box.boxh, 0)
  BY <1>1, <1>2, BackFrom DEF ShowsFrom
<1>4. QED
  BY <1>1, <1>3 DEF Menu!Least, Menu!Most

LEMMA DownMoves ==
  ASSUME Page!TextAssumption, Paged(box), Complete(box.text), Page!KeyDown
  PROVE  Paged(box') /\ box'.text = box.text /\ TopLine(box') = TopLine(box) + 1
<1> DEFINE m == box.page_length - 1
           s == TopLine(box)
<1>1. /\ m \in Nat /\ s + box.page_length - m = s + 1
      /\ s \in Nat /\ Lines(box.text) \in Nat /\ s + 1 <= Lines(box.text)
      /\ box.update => s + 1 <= LastTop(box)
      /\ LastTop(box) \in Nat
  BY PageKnown DEF Page!KeyDown, Menu!Least, Menu!Most
<1>2. box' = Page!Reprint(box, m)
  BY DEF Page!KeyDown
<1> HIDE DEF m, s
<1>3. /\ Paged(box') /\ box'.text = box.text
      /\ TopLine(box') = IF box.update THEN Menu!Least(Menu!Most(s + 1, 0), LastTop(box)) ELSE Menu!Most(s + 1, 0)
  BY <1>1, <1>2, BackFrom DEF s, ShowsFrom
<1>4. QED
  BY <1>1, <1>3 DEF Menu!Least, Menu!Most, s

LEMMA PageDownMoves ==
  ASSUME Page!TextAssumption, Paged(box), Complete(box.text), Page!KeyPageDown
  PROVE  /\ Paged(box') /\ box'.text = box.text
         /\ TopLine(box') \in TopLine(box) + 1 .. TopLine(box) + box.boxh
         /\ ~box.update => TopLine(box') = TopLine(box) + box.boxh
<1> DEFINE s == TopLine(box)
           h == box.boxh
           n == Lines(box.text)
           at == [box.at EXCEPT !.begin = FALSE]
<1>1. /\ box \in TextBox /\ h \in Nat \ {0} /\ n \in Nat \ {0} /\ s \in 0 .. n
      /\ box.page_length \in 1 .. h /\ s + box.page_length = Menu!Least(s + h, n + 1)
      /\ Stands(box.text, box.at, s + box.page_length)
      /\ ~box.at.end /\ (box.at.end <=> s + box.page_length > n)
      /\ box.update => s <= LastTop(box)
      /\ LastTop(box) = Menu!Most(n + 1 - h, 0)
      /\ box.at \in Pointer(box.text)
  BY PageKnown DEF Page!KeyPageDown
<1>2. s + box.page_length = s + h /\ s + h <= n
  BY <1>1 DEF Menu!Least
<1>3. at \in Pointer(box.text) /\ at.page = box.at.page /\ at.end = box.at.end /\ at.begin = FALSE
  BY <1>1 DEF Pointer
<1>4. Stands(box.text, at, s + h)
  <2>1. Stands(box.text, box.at, s + h)
    BY <1>1, <1>2
  <2> HIDE DEF at
  <2>2. QED
    BY <1>3, <2>1 DEF Stands, Place
<1>5. box' = Page!Printed(box, at)
  BY DEF Page!KeyPageDown
<1> HIDE DEF at
<1>6. PICK l : l = s + h
  OBVIOUS
<1>7. l \in Nat /\ l <= n /\ (at.begin <=> l = 0)
  BY <1>1, <1>2, <1>3, <1>6
<1>8. /\ Paged(box') /\ box'.text = box.text
      /\ TopLine(box') = IF box.update THEN Menu!Least(l, LastTop(box)) ELSE l
  BY <1>1, <1>4, <1>5, <1>6, <1>7, PagePrinted
<1>9. box.update => s + 1 <= LastTop(box)
  BY <1>1, <1>2 DEF Menu!Most
<1>10. LastTop(box) \in Nat
  BY <1>1 DEF Menu!Most
<1>11. QED
  BY <1>1, <1>6, <1>8, <1>9, <1>10 DEF Menu!Least

LEMMA SidewaysMoves ==
  ASSUME Page!TextAssumption, Paged(box), Complete(box.text), NEW column \in Int, Page!Sideways(column)
  PROVE  Paged(box') /\ box'.text = box.text /\ TopLine(box') = TopLine(box)
<1> DEFINE b == [box EXCEPT !.hscroll = column]
<1>1. /\ b \in TextBox /\ b.text = box.text /\ b.boxh = box.boxh /\ b.update = box.update /\ b.at = box.at
      /\ b.top = box.top /\ b.page_length = box.page_length
  BY DEF Paged, TextBox
<1>2. box' = Page!Reprint(b, box.page_length)
  BY DEF Page!Sideways
<1> HIDE DEF b
<1>3. Paged(b) /\ Complete(b.text) /\ TopLine(b) = TopLine(box)
  BY <1>1 DEF Paged, TopLine, LastTop
<1>4. /\ TopLine(b) \in Nat /\ box.page_length \in Nat /\ TopLine(b) <= Lines(b.text)
      /\ TopLine(b) = TopLine(b) + b.page_length - box.page_length
      /\ LastTop(b) \in Nat /\ (b.update => TopLine(b) <= LastTop(b))
  BY <1>1, <1>3, PageKnown DEF Menu!Most
<1>5. ShowsFrom(box', b, Menu!Most(TopLine(b), 0))
  BY <1>2, <1>3, <1>4, BackFrom
<1>6. QED
  BY <1>1, <1>3, <1>4, <1>5 DEF ShowsFrom, Menu!Least, Menu!Most

(* The keys that scroll to the side do nothing but print the page again.      *)
LEMMA SideKeys ==
  ASSUME Page!KeyLineStart \/ Page!KeyLeft \/ Page!KeyRight, Page!IsText(box) => Paged(box)
  PROVE  Page!IsText(box) /\ \E column \in Int : Page!Sideways(column)
<1>1. Page!IsText(box)
  BY DEF Page!KeyLineStart, Page!KeyLeft, Page!KeyRight
<1>2. box.hscroll \in Int
  BY <1>1 DEF Paged, TextBox
<1>3. QED
  BY <1>1, <1>2 DEF Page!KeyLineStart, Page!KeyLeft, Page!KeyRight

LEMMA ResizeMoves ==
  ASSUME Page!TextAssumption, Paged(box), Complete(box.text), NEW h \in Height, Page!KeyResize(h)
  PROVE  Paged(box')
<1> DEFINE b == [box EXCEPT !.boxh = h]
           m == box.boxh + Frame
           l == TopLine(box) + box.page_length
<1>1. b \in TextBox /\ b.text = box.text
  BY DEF Paged, TextBox
<1>2. box' = Page!Printed(b, Page!BackLines(b.text, box.at, m))
  BY <1>1 DEF Page!KeyResize
<1>3. Frame \in Nat
  BY Zenon DEF Page!TextAssumption
<1>4. m \in Nat /\ m > 0 /\ Stands(b.text, box.at, l) /\ l - m <= Lines(b.text)
  BY <1>1, <1>3, PageKnown
<1> HIDE DEF b, m, l
<1>5. ShowsFrom(box', b, Menu!Most(l - m, 0))
  BY <1>1, <1>2, <1>4, Reprinted
<1>6. QED
  BY <1>5 DEF ShowsFrom

LEMMA HomeMoves ==
  ASSUME Page!TextAssumption, Paged(box), Complete(box.text), Page!KeyHome
  PROVE  Paged(box')
<1> DEFINE at == [box.at EXCEPT !.page = 0, !.begin = TRUE]
<1>1. box \in TextBox /\ box.at \in Pointer(box.text) /\ Lines(box.text) \in Nat /\ Len(box.text) \in Nat \ {0}
  BY PageKnown, CompleteText
<1>2. 0 \in 0 .. Len(box.text)
  BY <1>1
<1>3. at \in Pointer(box.text)
  BY <1>1, <1>2, Zenon DEF Pointer
<1>4. at.page = 0 /\ at.begin = TRUE
  BY <1>1 DEF Pointer
<1>5. box' = Page!Printed(box, at)
  BY DEF Page!KeyHome
<1> HIDE DEF at
<1>6. Stands(box.text, at, 0)
  BY <1>1, <1>3, <1>4, FirstLine DEF Stands, Place, Start
<1>7. 0 <= Lines(box.text) /\ (at.begin <=> 0 = 0)
  BY <1>1, <1>4
<1>8. Paged(Page!Printed(box, at))
  BY <1>1, <1>6, <1>7, PagePrinted
<1>9. QED
  BY <1>5, <1>8

LEMMA EndMoves ==
  ASSUME Page!TextAssumption, Paged(box), Complete(box.text), Page!KeyEnd
  PROVE  Paged(box')
<1> DEFINE at == [box.at EXCEPT !.page = Len(box.text), !.end = TRUE]
           n == Lines(box.text)
<1>1. /\ box \in TextBox /\ box.at \in Pointer(box.text) /\ n \in Nat /\ Len(box.text) \in Nat \ {0}
      /\ box.boxh \in Nat \ {0} /\ Start(box.text, Len(box.text))
  BY PageKnown, CompleteText
<1>2. Len(box.text) \in 0 .. Len(box.text)
  BY <1>1
<1>3. at \in Pointer(box.text)
  BY <1>1, <1>2, Zenon DEF Pointer
<1>4. at.page = Len(box.text) /\ at.end = TRUE
  BY <1>1 DEF Pointer
<1>5. box' = Page!Printed(box, Page!BackLines(box.text, at, box.boxh))
  BY DEF Page!KeyEnd
<1> HIDE DEF at
<1>6. Stands(box.text, at, n + 1)
  BY <1>1, <1>3, <1>4 DEF Stands, Place, Lines
<1>7. PICK l : l = n + 1
  OBVIOUS
<1>8. l - box.boxh <= n /\ box.boxh > 0 /\ box.boxh \in Nat
  BY <1>1, <1>7
<1>9. ShowsFrom(box', box, Menu!Most(l - box.boxh, 0))
  BY <1>1, <1>5, <1>6, <1>7, <1>8, Reprinted
<1>10. QED
  BY <1>9 DEF ShowsFrom

LEMMA ExitKeeps ==
  ASSUME Page!TextAssumption, Paged(box), Complete(box.text), Page!KeyExit
  PROVE  box'.vscroll = TopLine(box) /\ box'.kind = "answered"
<1> DEFINE at == Page!BackLines(box.text, box.at, box.page_length)
           s == TopLine(box)
           l == s + box.page_length
<1>1. /\ s \in Nat /\ s <= Lines(box.text) /\ box.page_length \in Nat /\ l \in Nat /\ Menu!Most(l - box.page_length, 0) = s
      /\ Stands(box.text, box.at, l)
  BY PageKnown DEF Menu!Most
<1>2. box' = [kind |-> "answered", vscroll |-> Page!LineOf(box.text, at.page), hscroll |-> box.hscroll]
  BY DEF Page!KeyExit
<1> HIDE DEF s, l
<1>3. Stands(box.text, at, s)
  BY <1>1, LinesUp
<1> HIDE DEF at
<1>4. Page!LineOf(box.text, at.page) = s
  BY <1>1, <1>3, TopKnown
<1>5. QED
  BY <1>2, <1>4 DEF s

LEMMA OpenPaged ==
  ASSUME Page!TextAssumption, \A t \in Text : Complete(t), Page!Open
  PROVE  Paged(box')
<1>1. PICK t \in Text, h \in Height, update \in BOOLEAN, hscroll \in {0, MaxScroll} :
        \E vscroll \in 0 .. Page!LineOf(t, Len(t)) :
          LET start == [page |-> 0, begin |-> vscroll = 0, end |-> FALSE]
              b == [kind |-> "text", text |-> t, boxh |-> h, update |-> update, hscroll |-> hscroll,
                    at |-> start, top |-> 0, page_length |-> 0]
          IN  box' = Page!Printed(b, Page!GetLines(t, start, vscroll)[vscroll])
  BY Zenon DEF Page!Open
<1>2. PICK vscroll \in 0 .. Page!LineOf(t, Len(t)) :
        LET start == [page |-> 0, begin |-> vscroll = 0, end |-> FALSE]
            b == [kind |-> "text", text |-> t, boxh |-> h, update |-> update, hscroll |-> hscroll,
                  at |-> start, top |-> 0, page_length |-> 0]
        IN  box' = Page!Printed(b, Page!GetLines(t, start, vscroll)[vscroll])
  BY <1>1, Zenon
<1> DEFINE start == [page |-> 0, begin |-> vscroll = 0, end |-> FALSE]
           b == [kind |-> "text", text |-> t, boxh |-> h, update |-> update, hscroll |-> hscroll,
                 at |-> start, top |-> 0, page_length |-> 0]
           at == Page!GetLines(t, start, vscroll)[vscroll]
<1>3. box' = Page!Printed(b, at)
  BY <1>2
<1>4. Complete(t) /\ Lines(t) \in Nat \ {0} /\ vscroll \in 0 .. Lines(t) /\ Len(t) \in Nat \ {0}
  BY CompleteText DEF Lines
<1>5. start \in Pointer(t) /\ start.page = 0 /\ start.end = FALSE /\ (start.begin <=> vscroll = 0)
  <2>1. 0 \in 0 .. Len(t)
    BY <1>4
  <2>2. start \in Pointer(t)
    BY <2>1, Zenon DEF Pointer
  <2>3. QED
    BY <2>2
<1>6. b.text = t /\ b \in TextBox
  <2>1. start \in [page : Nat, begin : BOOLEAN, end : BOOLEAN]
    OBVIOUS
  <2> HIDE DEF start
  <2>2. hscroll \in Int
    BY SMT DEF Page!TextAssumption
  <2>3. QED
    BY <2>1, <2>2 DEF TextBox
<1> HIDE DEF start
<1>7. Stands(t, start, 0)
  BY <1>4, <1>5, FirstLine DEF Stands, Place, Start
<1>8. Stands(t, at, Menu!Least(0 + vscroll, Lines(t) + 1)) /\ at.begin = start.begin
  BY <1>4, <1>7, LinesDown
<1>9. Menu!Least(0 + vscroll, Lines(t) + 1) = vscroll /\ vscroll <= Lines(t)
  BY <1>4 DEF Menu!Least
<1> HIDE DEF at, b
<1>10. Stands(b.text, at, vscroll) /\ (at.begin <=> vscroll = 0) /\ Complete(b.text) /\ vscroll <= Lines(b.text)
  BY <1>4, <1>5, <1>6, <1>8, <1>9
<1>11. Paged(Page!Printed(b, at))
  BY <1>6, <1>10, PagePrinted
<1>12. QED
  BY <1>3, <1>11

-----------------------------------------------------------------------------
(* The boxes together: each takes its steps from no box or its own, and       *)
(* leaves its own or an answer.                                              *)

(* The modules of the proofs define the same steps. *)
LEMMA SameMenu == Menu!Next <=> InMenu!Next
BY DEF Menu!Least, InMenu!Least, Menu!Most, InMenu!Most, Menu!Row, InMenu!Row, Menu!Page,
       InMenu!Page, Menu!Draw, InMenu!Draw, Menu!Scrolled, InMenu!Scrolled, Menu!Lists,
       InMenu!Lists, Menu!InUse, InMenu!InUse, Menu!Cursor, InMenu!Cursor, Menu!IsMenu,
       InMenu!IsMenu, Menu!Layout, InMenu!Layout, Menu!Open, InMenu!Open, Menu!Up, InMenu!Up,
       Menu!Down, InMenu!Down, Menu!PageUp, InMenu!PageUp, Menu!PageDown, InMenu!PageDown,
       Menu!RowsWith, InMenu!RowsWith, Menu!To, InMenu!To, Menu!Move, InMenu!Move, Menu!KeyUp,
       InMenu!KeyUp, Menu!KeyDown, InMenu!KeyDown, Menu!KeyPageUp, InMenu!KeyPageUp,
       Menu!KeyPageDown, InMenu!KeyPageDown, Menu!KeyLetter, InMenu!KeyLetter, Menu!KeyButton,
       InMenu!KeyButton, Menu!Answers, InMenu!Answers, Menu!Answered, InMenu!Answered,
       Menu!KeyAnswer, InMenu!KeyAnswer, Menu!KeyEnter, InMenu!KeyEnter, Menu!KeyEscape,
       InMenu!KeyEscape, Menu!KeyResize, InMenu!KeyResize, Menu!Next, InMenu!Next

LEMMA SameKeys ==
  /\ Menu!KeyUp <=> InMenu!KeyUp
  /\ Menu!KeyDown <=> InMenu!KeyDown
  /\ Menu!KeyPageUp <=> InMenu!KeyPageUp
  /\ Menu!KeyPageDown <=> InMenu!KeyPageDown
BY DEF Menu!Least, InMenu!Least, Menu!Most, InMenu!Most, Menu!Row, InMenu!Row, Menu!Draw,
       InMenu!Draw, Menu!Scrolled, InMenu!Scrolled, Menu!InUse, InMenu!InUse, Menu!Cursor,
       InMenu!Cursor, Menu!IsMenu, InMenu!IsMenu, Menu!Up, InMenu!Up, Menu!Down, InMenu!Down,
       Menu!PageUp, InMenu!PageUp, Menu!PageDown, InMenu!PageDown, Menu!Move, InMenu!Move,
       Menu!KeyUp, InMenu!KeyUp, Menu!KeyDown, InMenu!KeyDown, Menu!KeyPageUp, InMenu!KeyPageUp,
       Menu!KeyPageDown, InMenu!KeyPageDown

LEMMA SameCursor ==
  /\ Menu!Cursor(box) = InMenu!Cursor(box) /\ Menu!Cursor(box)' = InMenu!Cursor(box)'
  /\ Menu!InUse(box) = InMenu!InUse(box)
  /\ \A a, b : Menu!Least(a, b) = InMenu!Least(a, b) /\ Menu!Most(a, b) = InMenu!Most(a, b)
BY DEF Menu!Cursor, InMenu!Cursor, Menu!InUse, InMenu!InUse, Menu!Least, InMenu!Least, Menu!Most, InMenu!Most

LEMMA SameList == List!Next <=> InList!Next
BY DEF List!Least, InList!Least, List!Row, InList!Row, List!Page, InList!Page, List!Draw,
       InList!Draw, List!Scrolled, InList!Scrolled, List!Lists, InList!Lists, List!InUse,
       InList!InUse, List!Cursor, InList!Cursor, List!IsList, InList!IsList, List!Layout,
       InList!Layout, List!Open, InList!Open, List!Rolled, InList!Rolled, List!Highlighted,
       InList!Highlighted, List!KeyUp, InList!KeyUp, List!KeyDown, InList!KeyDown, List!RowsWith,
       InList!RowsWith, List!KeyLetter, InList!KeyLetter, List!KeyButton, InList!KeyButton,
       List!Answered, InList!Answered, List!KeyHelp, InList!KeyHelp, List!KeyEnter,
       InList!KeyEnter, List!KeyEscape, InList!KeyEscape, List!KeyResize, InList!KeyResize,
       List!Next, InList!Next


TextsEnd == \A t \in Text : t[Len(t)] = Page!Newline

BoxesInv ==
  /\ box.kind \in {"none", "menu", "list", "input", "text", "answered"}
  /\ box.kind = "menu" /\ ResizeScrolled = FALSE => InMenu!MenuInv
  /\ box.kind = "list" => InList!ListInv
  /\ box.kind = "input" => InputInv
  /\ box.kind = "text" /\ TextsEnd => Paged(box)
  /\ box.kind \in {"menu", "text"} => "kind" \in DOMAIN box

LEMMA Assumed == InMenu!MenuAssumption /\ InList!ListAssumption /\ Input!InputAssumption
BY BoxesAssumption DEF Menu!MenuAssumption, InMenu!MenuAssumption, List!ListAssumption, InList!ListAssumption

LEMMA BoxesInit == Init => BoxesInv
BY DEF Init, BoxesInv

(* Of a menu that is resized in whatever way only that it stays one is known. *)
IsA(b) == "kind" \in DOMAIN b /\ b.kind = "menu"
LEMMA StaysMenu ==
  ASSUME NEW b, IsA(b)
  PROVE  /\ \A i, r, lit : IsA(InMenu!Draw(b, i, r, lit))
         /\ \A d : IsA(InMenu!Scrolled(b, d))
         /\ \A h : IsA(InMenu!Layout(b, h))
         /\ \A c : IsA([b EXCEPT !.choice = c])
         /\ \A c : IsA([b EXCEPT !.button = c])
BY DEF IsA, InMenu!Draw, InMenu!Scrolled, InMenu!Layout

LEMMA MovesMenu ==
  ASSUME NEW b, IsA(b)
  PROVE  /\ IsA(InMenu!Up(b)) /\ IsA(InMenu!Down(b))
         /\ IsA(InMenu!PageUp(b)) /\ IsA(InMenu!PageDown(b))
         /\ \A l \in Letter : IsA(InMenu!To(b, l))
<1>1. IsA(InMenu!Up(b)) /\ IsA(InMenu!Down(b))
  BY StaysMenu DEF InMenu!Up, InMenu!Down
<1>2. IsA(InMenu!PageUp(b)) /\ IsA(InMenu!PageDown(b))
  <2>1. \A d : IsA(InMenu!Scrolled(b, d))
    BY StaysMenu
  <2>2. \A d, c : IsA([InMenu!Scrolled(b, d) EXCEPT !.choice = c])
    BY <2>1, StaysMenu
  <2>3. QED
    BY <2>2 DEF InMenu!PageUp, InMenu!PageDown
<1>3. \A l \in Letter : IsA(InMenu!To(b, l))
  BY StaysMenu DEF InMenu!To
<1>4. QED
  BY <1>1, <1>2, <1>3

LEMMA MenuNext ==
  ASSUME BoxesInv, InMenu!Next
  PROVE  box.kind \in {"none", "menu"} /\ (IsA(box') \/ box'.kind = "answered")
<1>1. CASE InMenu!Open
  <2>1. PICK n, hot, selected, saved, h :
          box' = InMenu!Layout([kind |-> "menu", n |-> n, hot |-> hot, selected |-> selected,
                                s_scroll |-> saved, room |-> h, scroll |-> 0, first_item |-> 0,
                                choice |-> 0, button |-> 0, rows |-> <<>>], h)
    BY <1>1 DEF InMenu!Open
  <2> DEFINE b == [kind |-> "menu", n |-> n, hot |-> hot, selected |-> selected,
                   s_scroll |-> saved, room |-> h, scroll |-> 0, first_item |-> 0,
                   choice |-> 0, button |-> 0, rows |-> <<>>]
  <2>2. IsA(b)
    BY DEF IsA
  <2> HIDE DEF b
  <2>3. IsA(box')
    BY <2>1, <2>2, StaysMenu DEF b
  <2>4. QED
    BY <1>1, <2>3 DEF InMenu!Open
<1>2. ASSUME box.kind = "menu" PROVE IsA(box)
  BY <1>2 DEF BoxesInv, IsA
<1>3. CASE \/ InMenu!KeyUp \/ InMenu!KeyDown \/ InMenu!KeyPageUp \/ InMenu!KeyPageDown
           \/ \E l \in Letter : InMenu!KeyLetter(l)
  <2> DEFINE b == InMenu!Draw(box, InMenu!Cursor(box), box.choice, FALSE)
  <2>0. box.kind = "menu"
    BY <1>3 DEF InMenu!KeyUp, InMenu!KeyDown, InMenu!KeyPageUp, InMenu!KeyPageDown,
         InMenu!KeyLetter, InMenu!Move, InMenu!IsMenu
  <2>1. box.kind = "menu" /\ IsA(b)
    BY <1>2, <2>0, StaysMenu
  <2>2. \E c, i, r, lit : /\ \/ c = InMenu!Up(b) \/ c = InMenu!Down(b)
                             \/ c = InMenu!PageUp(b) \/ c = InMenu!PageDown(b)
                             \/ \E l \in Letter : c = InMenu!To(b, l)
                          /\ box' = InMenu!Draw(c, i, r, lit)
    BY <1>3 DEF InMenu!KeyUp, InMenu!KeyDown, InMenu!KeyPageUp, InMenu!KeyPageDown, InMenu!KeyLetter,
         InMenu!Move
  <2> HIDE DEF b
  <2>3. IsA(box')
    BY <2>1, <2>2, MovesMenu, StaysMenu
  <2>4. QED
    BY <2>1, <2>3
<1>4. CASE \/ \E d \in {-1, 1} : InMenu!KeyButton(d)
           \/ \E h \in Height : InMenu!KeyResize(h)
  <2>1. box.kind = "menu" /\ IsA(box)
    BY <1>2, <1>4 DEF InMenu!KeyButton, InMenu!KeyResize, InMenu!IsMenu
  <2>2. (\E c : box' = [box EXCEPT !.button = c]) \/ \E h : box' = InMenu!Layout(box, h)
    BY <1>4 DEF InMenu!KeyButton, InMenu!KeyResize
  <2>3. QED
    BY <2>1, <2>2, StaysMenu
<1>5. CASE \/ InMenu!KeyEnter \/ InMenu!KeyEscape
           \/ \E key \in DOMAIN InMenu!Answers : InMenu!KeyAnswer(key)
  BY <1>5 DEF InMenu!KeyEnter, InMenu!KeyEscape, InMenu!KeyAnswer, InMenu!Answered, InMenu!IsMenu
<1>6. QED
  BY <1>1, <1>3, <1>4, <1>5 DEF InMenu!Next

LEMMA MenuKept == ASSUME BoxesInv, Menu!Next PROVE BoxesInv'
<1>1. InMenu!Next
  BY SameMenu
<1>2. box.kind \in {"none", "menu"} /\ (IsA(box') \/ box'.kind = "answered")
  BY <1>1, MenuNext
<1>3. ASSUME ResizeScrolled = FALSE PROVE InMenu!MenuInv'
  <2>1. InMenu!MenuInv
    BY <1>2, <1>3 DEF BoxesInv, InMenu!MenuInv, InMenu!IsMenu
  <2>2. QED
    BY <1>1, <1>3, <2>1, Assumed, InMenu!MenuStep
<1>4. QED
  BY <1>2, <1>3 DEF BoxesInv, IsA

LEMMA ListKept == ASSUME BoxesInv, List!Next PROVE BoxesInv'
<1>1. InList!Next
  BY SameList
<1>2. box.kind \in {"none", "list"}
  BY <1>1 DEF InList!Next, InList!Open, InList!KeyUp, InList!KeyDown, InList!KeyLetter, InList!KeyButton,
       InList!KeyHelp, InList!KeyEnter, InList!KeyEscape, InList!KeyResize, InList!IsList
<1>3. InList!ListInv
  BY <1>2 DEF BoxesInv, InList!ListInv, InList!IsList
<1>4. InList!ListInv'
  BY <1>1, <1>3, Assumed, InList!ListStep
<1>5. box'.kind \in {"none", "list", "answered"}
  BY <1>4 DEF InList!ListInv
<1>6. QED
  BY <1>4, <1>5 DEF BoxesInv

LEMMA InputKept == ASSUME BoxesInv, Input!Next PROVE BoxesInv'
<1>1. box.kind \in {"none", "input"}
  BY DEF Input!Next, Input!Open, Input!KeyBackspace, Input!KeyLeft, Input!KeyRight, Input!KeyChar,
       Input!KeyButton, Input!KeyOk, Input!KeyHelp, Input!KeyEnter, Input!KeyEscape, Input!KeyResize,
       Input!InField, Input!IsInput
<1>2. InputInv
  BY <1>1 DEF BoxesInv, InputInv, Input!IsInput
<1>3. InputInv'
  BY <1>2, Assumed, InputStep
<1>4. box'.kind \in {"none", "input", "answered"}
  BY <1>3 DEF InputInv
<1>5. QED
  BY <1>3, <1>4 DEF BoxesInv

(* Of a text that does not end with a newline only that its box stays one is  *)
(* known.                                                                     *)
LEMMA TextStays == ASSUME BoxesInv, Page!Next, ~TextsEnd PROVE BoxesInv'
<1>1. ASSUME NEW b, "kind" \in DOMAIN b, b.kind = "text", NEW at, box' = Page!Printed(b, at)
      PROVE  box'.kind = "text" /\ "kind" \in DOMAIN box'
  BY <1>1 DEF Page!Printed
<1>2. CASE Page!Open
  <2>1. PICK b, at : "kind" \in DOMAIN b /\ b.kind = "text" /\ box' = Page!Printed(b, at)
    BY <1>2 DEF Page!Open
  <2>2. QED
    BY <1>1, <2>1 DEF BoxesInv
<1>3. CASE Page!KeyExit
  BY <1>3 DEF Page!KeyExit, BoxesInv
<1>4. CASE \/ Page!KeyHome \/ Page!KeyEnd \/ Page!KeyUp \/ Page!KeyPageUp \/ Page!KeyDown \/ Page!KeyPageDown
  <2>1. "kind" \in DOMAIN box /\ box.kind = "text"
    BY <1>4 DEF BoxesInv, Page!IsText, Page!KeyHome, Page!KeyEnd, Page!KeyUp, Page!KeyPageUp,
         Page!KeyDown, Page!KeyPageDown
  <2>2. \E at : box' = Page!Printed(box, at)
    BY <1>4 DEF Page!KeyHome, Page!KeyEnd, Page!KeyUp, Page!KeyPageUp, Page!KeyDown, Page!KeyPageDown,
         Page!Reprint
  <2>3. QED
    BY <1>1, <2>1, <2>2 DEF BoxesInv
<1>5. CASE Page!KeyLineStart \/ Page!KeyLeft \/ Page!KeyRight \/ \E h \in Height : Page!KeyResize(h)
  <2>1. "kind" \in DOMAIN box /\ box.kind = "text"
    BY <1>5 DEF BoxesInv, Page!IsText, Page!KeyLineStart, Page!KeyLeft, Page!KeyRight, Page!KeyResize
  <2>2. PICK column, h, b, at :
          (b = [box EXCEPT !.hscroll = column] \/ b = [box EXCEPT !.boxh = h]) /\ box' = Page!Printed(b, at)
    BY <1>5 DEF Page!KeyLineStart, Page!KeyLeft, Page!KeyRight, Page!KeyResize, Page!Sideways, Page!Reprint
  <2>3. "kind" \in DOMAIN b /\ b.kind = "text"
    BY <2>1, <2>2
  <2>4. QED
    BY <1>1, <2>2, <2>3 DEF BoxesInv
<1>6. QED
  BY <1>2, <1>3, <1>4, <1>5 DEF Page!Next

LEMMA TextEnds ==
  ASSUME TextsEnd
  PROVE  Page!TextAssumption /\ \A t \in Text : Complete(t)
<1>1. Page!TextAssumption
  BY BoxesAssumption
<1>2. QED
  BY <1>1, AllComplete DEF TextsEnd

LEMMA PagedInv == ASSUME Paged(box') PROVE BoxesInv'
<1>1. box'.kind = "text" /\ "kind" \in DOMAIN box'
  BY DEF Paged, TextBox
<1>2. QED
  BY <1>1 DEF BoxesInv

LEMMA AnsweredInv == ASSUME box'.kind = "answered" PROVE BoxesInv'
BY DEF BoxesInv

LEMMA PageKept ==
  ASSUME BoxesInv, TextsEnd, Page!Next
  PROVE  Paged(box') \/ box'.kind = "answered"
<1>1. Page!TextAssumption /\ \A t \in Text : Complete(t)
  BY TextEnds
<1>2. CASE Page!Open
  BY <1>1, <1>2, OpenPaged
<1>3. ASSUME Page!IsText(box) PROVE Paged(box) /\ Complete(box.text)
  <2>1. Paged(box)
    BY <1>3 DEF BoxesInv, Page!IsText
  <2>2. QED
    BY <1>1, <2>1 DEF Paged, TextBox
<1>4. CASE Page!KeyHome
  BY <1>1, <1>3, <1>4, HomeMoves DEF Page!KeyHome
<1>5. CASE Page!KeyEnd
  BY <1>1, <1>3, <1>5, EndMoves DEF Page!KeyEnd
<1>6. CASE Page!KeyUp
  BY <1>1, <1>3, <1>6, UpMoves DEF Page!KeyUp
<1>7. CASE Page!KeyPageUp
  BY <1>1, <1>3, <1>7, PageUpMoves DEF Page!KeyPageUp
<1>8. CASE Page!KeyDown
  BY <1>1, <1>3, <1>8, DownMoves DEF Page!KeyDown
<1>9. CASE Page!KeyPageDown
  BY <1>1, <1>3, <1>9, PageDownMoves DEF Page!KeyPageDown
<1>10. CASE Page!KeyLineStart \/ Page!KeyLeft \/ Page!KeyRight
  BY <1>1, <1>3, <1>10, SideKeys, SidewaysMoves
<1>11. CASE \E h \in Height : Page!KeyResize(h)
  BY <1>1, <1>3, <1>11, ResizeMoves DEF Page!KeyResize
<1>12. CASE Page!KeyExit
  BY <1>1, <1>3, <1>12, ExitKeeps DEF Page!KeyExit
<1>13. QED
  BY <1>2, <1>4, <1>5, <1>6, <1>7, <1>8, <1>9, <1>10, <1>11, <1>12 DEF Page!Next

LEMMA TextKept == ASSUME BoxesInv, Page!Next PROVE BoxesInv'
BY TextStays, PageKept, PagedInv, AnsweredInv

LEMMA BoxesStep == ASSUME BoxesInv, [Next]_box PROVE BoxesInv'
<1>1. CASE Acted
  BY <1>1 DEF Acted, BoxesInv
<1>2. CASE UNCHANGED box
  BY <1>2 DEF BoxesInv, InMenu!MenuInv, InMenu!IsMenu, InMenu!Placed, InMenu!InStep, InMenu!InUse,
       InList!ListInv, InList!IsList, InList!Placed, InList!InStep, InList!InUse,
       InputInv, Input!IsInput, Fine, Placed, Shows, Paged
<1>3. QED
  BY <1>1, <1>2, MenuKept, ListKept, InputKept, TextKept DEF Next

(* What is highlighted in a menu is what an answer selects, and the rows are  *)
(* those of the list, for lists of every length in windows of every height,   *)
(* as long as the terminal is resized only when the list fits.                *)
THEOREM MenuShown ==
  ASSUME ResizeScrolled = FALSE
  PROVE  Spec => []ShownIsSelected
<1>1. BoxesInv => ShownIsSelected
  BY DEF BoxesInv, ShownIsSelected, Menu!ShownIsSelected, Menu!IsMenu, Menu!InStep, Menu!InUse, Menu!Page,
       Menu!Row, Menu!Least, InMenu!MenuInv, InMenu!IsMenu, InMenu!Placed, InMenu!InStep, InMenu!InUse,
       InMenu!Page, InMenu!Row, InMenu!Least
<1>2. QED
  BY <1>1, BoxesInit, BoxesStep, PTL DEF Spec

(* The keys move in a menu as in one long page.                               *)
THEOREM MenuMoves ==
  ASSUME ResizeScrolled = FALSE
  PROVE  Spec => CursorMoves
<1>1. ASSUME BoxesInv, Menu!IsMenu(box)
      PROVE  LET at == Menu!Cursor(box)  page == Menu!InUse(box)  last == box.n - 1
             IN  /\ Menu!KeyUp => Menu!Cursor(box') = Menu!Most(at - 1, 0)
                 /\ Menu!KeyDown => Menu!Cursor(box') = Menu!Least(at + 1, last)
                 /\ Menu!KeyPageUp => Menu!Cursor(box') = Menu!Most(at - page, 0)
                 /\ Menu!KeyPageDown => Menu!Cursor(box') = Menu!Least(at + page, last)
  <2>1. InMenu!MenuInv
    BY <1>1 DEF BoxesInv, Menu!IsMenu
  <2>2. QED
    BY <2>1, SameKeys, SameCursor, InMenu!Walked
<1>2. BoxesInv => [Menu!IsMenu(box) /\ Menu!IsMenu(box') =>
             LET at == Menu!Cursor(box)  page == Menu!InUse(box)  last == box.n - 1
             IN  /\ Menu!KeyUp => Menu!Cursor(box') = Menu!Most(at - 1, 0)
                 /\ Menu!KeyDown => Menu!Cursor(box') = Menu!Least(at + 1, last)
                 /\ Menu!KeyPageUp => Menu!Cursor(box') = Menu!Most(at - page, 0)
                 /\ Menu!KeyPageDown => Menu!Cursor(box') = Menu!Least(at + page, last)]_box
  BY <1>1
<1>3. QED
  BY <1>2, BoxesInit, BoxesStep, PTL DEF Spec, CursorMoves, Menu!CursorMoves

(* The highlighted value of a choice is the one an answer selects, for lists  *)
(* of every length, windows of every height and whatever is resized.          *)
THEOREM ListShown ==
  Spec => []ListIsSelected
<1>1. BoxesInv => ListIsSelected
  BY DEF BoxesInv, ListIsSelected, List!ListIsSelected, List!IsList, List!InStep, List!InUse, List!Page,
       List!Row, List!Least, InList!ListInv, InList!IsList, InList!Placed, InList!InStep, InList!InUse,
       InList!Page, InList!Row, InList!Least
<1>2. QED
  BY <1>1, BoxesInit, BoxesStep, PTL DEF Spec

(* The cursor of an input box is where the next key edits the text and the    *)
(* field shows the text around it, for every width and length of text.        *)
THEOREM InputShown ==
  Spec => []CursorAtEdit
<1>1. BoxesInv => CursorAtEdit
  BY DEF BoxesInv, CursorAtEdit, Input!CursorAtEdit, Input!IsInput, InputInv, Fine, Placed, Shows
<1>2. QED
  BY <1>1, BoxesInit, BoxesStep, PTL DEF Spec

(* The page of a text begins at the start of a line, and the keys stop going  *)
(* up at the first line and only there, for texts of every length that end    *)
(* with a newline, boxes of every height and whatever keys came before.       *)
THEOREM TextShown ==
  ASSUME \A t \in Text : t[Len(t)] = Page!Newline
  PROVE  Spec => []PageAtLine
<1>1. TextsEnd
  BY DEF TextsEnd
<1>2. BoxesInv => PageAtLine
  BY <1>1 DEF BoxesInv, PageAtLine, Page!PageAtLine, Page!IsText, Paged, Start
<1>3. QED
  BY <1>2, BoxesInit, BoxesStep, PTL DEF Spec

(* A key moves the page of such a text by the lines it says, and the place     *)
(* kept on leaving is that of the page.                                       *)
THEOREM TextMoves ==
  ASSUME \A t \in Text : t[Len(t)] = Page!Newline
  PROVE  Spec => LinesMove
<1>1. ASSUME BoxesInv, Page!IsText(box)
      PROVE  LET was == Page!LineOf(box.text, box.top)
                 is == Page!LineOf(box.text, box'.top)
             IN  /\ Page!KeyDown => is = was + 1
                 /\ Page!KeyUp => is = was - 1
                 /\ Page!KeyPageDown => /\ is \in was + 1 .. was + box.boxh
                                        /\ ~box.update => is = was + box.boxh
                 /\ Page!KeyPageUp => is = Page!Max({was - box.boxh, 0})
                 /\ Page!KeyLeft \/ Page!KeyRight \/ Page!KeyLineStart => is = was
                 /\ Page!KeyExit => box'.vscroll = was
  <2>1. TextsEnd
    BY DEF TextsEnd
  <2>2. /\ Page!TextAssumption /\ Paged(box) /\ Complete(box.text)
    <3>1. Paged(box)
      BY <1>1, <2>1 DEF BoxesInv, Page!IsText
    <3>2. QED
      BY <2>1, <3>1, TextEnds DEF Paged, TextBox
  <2> DEFINE was == Page!LineOf(box.text, box.top)
             is == Page!LineOf(box.text, box'.top)
  <2>3. TopLine(box) = was /\ (box'.text = box.text => TopLine(box') = is)
    BY DEF TopLine
  <2> HIDE DEF was, is
  <2>4. Page!KeyDown => is = was + 1
    BY <2>2, <2>3, DownMoves
  <2>5. Page!KeyUp => is = was - 1
    BY <2>2, <2>3, UpMoves
  <2>6. Page!KeyPageDown => is \in was + 1 .. was + box.boxh /\ (~box.update => is = was + box.boxh)
    BY <2>2, <2>3, PageDownMoves
  <2>7. Page!KeyPageUp => is = Page!Max({was - box.boxh, 0})
    <3>1. was \in Nat /\ box.boxh \in Nat
      BY <2>2, <2>3, PageKnown
    <3>2. Page!Max({was - box.boxh, 0}) = Menu!Most(was - box.boxh, 0)
      BY <3>1, GreaterOfTwo
    <3>3. QED
      BY <2>2, <2>3, <3>2, PageUpMoves
  <2>8. Page!KeyLeft \/ Page!KeyRight \/ Page!KeyLineStart => is = was
    BY <2>2, <2>3, SideKeys, SidewaysMoves
  <2>9. Page!KeyExit => box'.vscroll = was
    BY <2>2, <2>3, ExitKeeps
  <2>10. QED
    BY <2>4, <2>5, <2>6, <2>7, <2>8, <2>9 DEF was, is
<1>2. BoxesInv => [Page!IsText(box) =>
             LET was == Page!LineOf(box.text, box.top)
                 is == Page!LineOf(box.text, box'.top)
             IN  /\ Page!KeyDown => is = was + 1
                 /\ Page!KeyUp => is = was - 1
                 /\ Page!KeyPageDown => /\ is \in was + 1 .. was + box.boxh
                                        /\ ~box.update => is = was + box.boxh
                 /\ Page!KeyPageUp => is = Page!Max({was - box.boxh, 0})
                 /\ Page!KeyLeft \/ Page!KeyRight \/ Page!KeyLineStart => is = was
                 /\ Page!KeyExit => box'.vscroll = was]_box
  BY <1>1
<1>3. QED
  BY <1>2, BoxesInit, BoxesStep, PTL DEF Spec, LinesMove, Page!LinesMove
=============================================================================
