------------------------------ MODULE Lxdialog ------------------------------
(***************************************************************************)
(* The boxes of lxdialog as mconf uses them: one at a time, each a call    *)
(* that returns an answer mconf acts on before it opens the next.  The      *)
(* variable box is the locals and statics of the call under way.            *)
(***************************************************************************)
EXTENDS Integers, Sequences

CONSTANTS MaxItems, Letter, ResizeScrolled,   \* of Menubox and Checklist
          Char, Width, MaxLen,                \* of Inputbox
          Text, Frame, MaxScroll,             \* of Textbox
          Height                              \* the rows of a box

VARIABLE box

Menu == INSTANCE Menubox
List == INSTANCE Checklist
Input == INSTANCE Inputbox
Page == INSTANCE Textbox

ASSUME BoxesAssumption ==
  Menu!MenuAssumption /\ List!ListAssumption /\ Input!InputAssumption /\ Page!TextAssumption

Init == box = [kind |-> "none"]
Acted == box.kind = "answered" /\ box' = [kind |-> "none"]
Next == Menu!Next \/ List!Next \/ Input!Next \/ Page!Next \/ Acted
Spec == Init /\ [][Next]_box

ShownIsSelected == Menu!ShownIsSelected
CursorMoves == Menu!CursorMoves
ListIsSelected == List!ListIsSelected
CursorAtEdit == Input!CursorAtEdit
PageAtLine == Page!PageAtLine
LinesMove == Page!LinesMove
=============================================================================
