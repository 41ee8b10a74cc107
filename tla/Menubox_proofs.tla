--------------------------- MODULE Menubox_proofs ---------------------------
(***************************************************************************)
(* That the rows of a menu are those of its list and that the highlighted  *)
(* one is the item an answer selects, for every length of list and height  *)
(* of window, as long as a list that does not fit is not resized.          *)
(***************************************************************************)
EXTENDS Menubox, TLAPS, WellFoundedInduction

-----------------------------------------------------------------------------
(* What printing and scrolling do to the rows of a list window. *)

Rows == [item : Int, lit : BOOLEAN]

(* No row is highlighted; and only row c is. *)
Dark(f, first, count) ==
  f \in [0 .. count - 1 -> Rows] /\ \A r \in 0 .. count - 1 : f[r] = Row(first + r, FALSE)
LitAt(f, first, count, c) ==
  /\ f \in [0 .. count - 1 -> Rows] /\ f[c] = Row(first + c, TRUE)
  /\ \A r \in 0 .. count - 1 : r # c => f[r] = Row(first + r, FALSE)

LEMMA RowType ==
  \A i \in Int : Row(i, TRUE) \in Rows /\ Row(i, FALSE) \in Rows
BY DEF Row, Rows

LEMMA PageRow ==
  ASSUME NEW first \in Int, NEW count \in Nat, NEW c \in Int, NEW r \in 0 .. count - 1
  PROVE  Page(first, count, c)[r] = IF r = c THEN Row(first + r, TRUE) ELSE Row(first + r, FALSE)
<1>1. Page(first, count, c)[r] = Row(first + r, r = c)
  BY DEF Page
<1>2. CASE r # c
  <2>1. (r = c) = FALSE
    BY <1>2
  <2>2. QED
    BY <1>1, <1>2, <2>1, Zenon
<1>3. CASE r = c
  <2>1. (r = c) = TRUE
    BY <1>3
  <2>2. QED
    BY <1>1, <1>3, <2>1, Zenon
<1>4. QED
  BY <1>2, <1>3

LEMMA PageType ==
  ASSUME NEW first \in Int, NEW count \in Nat, NEW c \in Int
  PROVE  Page(first, count, c) \in [0 .. count - 1 -> Rows]
<1>1. \A r \in 0 .. count - 1 : Row(first + r, r = c) \in Rows
  BY DEF Row, Rows
<1>2. QED
  BY <1>1, Zenon DEF Page

LEMMA PageIsLit ==
  ASSUME NEW first \in Int, NEW count \in Nat, NEW c \in 0 .. count - 1
  PROVE  LitAt(Page(first, count, c), first, count, c)
<1>1. c \in Int /\ Page(first, count, c) \in [0 .. count - 1 -> Rows]
  BY PageType
<1>2. \A r \in 0 .. count - 1 : Page(first, count, c)[r] = IF r = c THEN Row(first + r, TRUE) ELSE Row(first + r, FALSE)
  BY <1>1, PageRow
<1>3. QED
  BY <1>1, <1>2 DEF LitAt

LEMMA LitIsPage ==
  ASSUME NEW first \in Int, NEW count \in Nat, NEW c \in 0 .. count - 1, NEW f,
         LitAt(f, first, count, c)
  PROVE  f = Page(first, count, c)
<1> DEFINE p == Page(first, count, c)
<1>1. LitAt(p, first, count, c)
  BY PageIsLit
<1> HIDE DEF p
<1>2. \A r \in 0 .. count - 1 : f[r] = p[r]
  BY <1>1 DEF LitAt
<1>3. f \in [0 .. count - 1 -> Rows] /\ p \in [0 .. count - 1 -> Rows]
  BY <1>1 DEF LitAt
<1>4. f = p
  BY <1>2, <1>3
<1>5. QED
  BY <1>4 DEF p

(* Printing the chosen row again without its highlight darkens the window.   *)
LEMMA Darkened ==
  ASSUME NEW first \in Int, NEW count \in Nat, NEW c \in 0 .. count - 1, NEW f,
         f = Page(first, count, c)
  PROVE  Dark([f EXCEPT ![c] = Row(first + c, FALSE)], first, count)
<1>1. LitAt(f, first, count, c)
  BY PageIsLit
<1>2. Row(first + c, FALSE) \in Rows
  BY RowType, first + c \in Int
<1>3. QED
  BY <1>1, <1>2 DEF LitAt, Dark

(* Printing a row highlighted in a dark window highlights just that row.     *)
LEMMA Lighted ==
  ASSUME NEW first \in Int, NEW count \in Nat, NEW c \in 0 .. count - 1, NEW f,
         Dark(f, first, count)
  PROVE  [f EXCEPT ![c] = Row(first + c, TRUE)] = Page(first, count, c)
<1>1. Row(first + c, TRUE) \in Rows
  BY RowType, first + c \in Int
<1>2. LitAt([f EXCEPT ![c] = Row(first + c, TRUE)], first, count, c)
  BY <1>1 DEF LitAt, Dark
<1>3. QED
  BY <1>2, LitIsPage

(* Scrolling a dark window by d lines leaves it dark, d items further.       *)
LEMMA DarkScrolled ==
  ASSUME NEW first \in Int, NEW count \in Nat, NEW d \in Int, NEW f,
         Dark(f, first, count)
  PROVE  Dark([r \in DOMAIN f |-> IF r + d \in DOMAIN f THEN f[r + d] ELSE Row(first + d + r, FALSE)],
              first + d, count)
<1>1. \A r \in 0 .. count - 1 : first + d + r \in Int /\ first + (r + d) = first + d + r
  OBVIOUS
<1>2. \A r \in 0 .. count - 1 : Row(first + d + r, FALSE) \in Rows
  BY <1>1, RowType
<1>3. DOMAIN f = 0 .. count - 1
  BY DEF Dark
<1>4. \A r \in 0 .. count - 1 : r + d \in 0 .. count - 1 => f[r + d] = Row(first + d + r, FALSE)
  <2>1. \A q \in 0 .. count - 1 : f[q] = Row(first + q, FALSE)
    BY DEF Dark
  <2>2. QED
    BY <1>1, <2>1
<1>5. QED
  BY <1>2, <1>3, <1>4 DEF Dark

(* The least row of those a search has found.                                *)
LEMMA LeastRow ==
  ASSUME NEW I \in SUBSET Nat, I # {}
  PROVE  \E i \in I : \A j \in I : i <= j
<1> DEFINE R == {p \in Nat \X Nat : p[1] < p[2]}
<1>1. IsWellFoundedOn(R, Nat)
  BY NatLessThanWellFounded DEF OpToRel
<1>2. PICK i \in I : \A j \in I : ~(<<j, i>> \in R)
  BY <1>1, WFMin
<1>3. ASSUME NEW j \in I PROVE i <= j
  <2>1. <<j, i>> \notin R
    BY <1>2
  <2>2. <<j, i>> \in Nat \X Nat /\ <<j, i>>[1] = j /\ <<j, i>>[2] = i
    OBVIOUS
  <2>3. QED
    BY <2>1, <2>2
<1>4. QED
  BY <1>3

-----------------------------------------------------------------------------
(* The box. *)

MenuBox ==
  [kind : {"menu"}, n : Nat, hot : UNION {[0 .. n - 1 -> Letter] : n \in Nat},
   selected : {-1} \cup Nat, s_scroll : Nat, room : Nat \ {0}, scroll : Int, first_item : Int,
   choice : Int, button : Int, rows : UNION {[0 .. u - 1 -> Rows] : u \in Nat}]

(* Where the window is and where in it the cursor. *)
Placed(b) ==
  /\ b.scroll \in 0 .. b.n - InUse(b)
  /\ IF b.n = 0 THEN b.choice = 0 ELSE b.choice \in 0 .. InUse(b) - 1

(* The default item, when there is one, is in the list. *)
MenuInv ==
  /\ box.kind \in {"none", "menu", "answered"}
  /\ IsMenu(box) =>
       /\ box \in MenuBox /\ DOMAIN box.hot = 0 .. box.n - 1
       /\ box.selected \in -1 .. box.n - 1
       /\ box.n <= box.room => box.first_item = 0
       /\ Placed(box) /\ InStep(box)

LEMMA LeastOf == \A a, b \in Int : Least(a, b) \in {a, b} /\ Least(a, b) <= a /\ Least(a, b) <= b
BY DEF Least
LEMMA MostOf == \A a, b \in Int : Most(a, b) \in {a, b} /\ Most(a, b) >= a /\ Most(a, b) >= b
BY DEF Most

LEMMA InUseOf ==
  ASSUME NEW b \in MenuBox
  PROVE  /\ InUse(b) \in Nat /\ InUse(b) <= b.n /\ InUse(b) <= b.room
         /\ InUse(b) \in {b.n, b.room} /\ (b.n # 0 => InUse(b) > 0)
BY LeastOf DEF InUse, MenuBox

(* The layout of a list: the arithmetic of do_resize. *)
LEMMA LayoutPlaced ==
  ASSUME NEW b \in MenuBox, NEW h \in Nat \ {0}, b.selected \in -1 .. b.n - 1,
         IF b.n = 0 THEN b.choice = 0 ELSE b.choice \in 0 .. b.n - 1,
         b.first_item = 0, NEW c, c = Layout(b, h)
  PROVE  /\ c \in MenuBox /\ c.n = b.n /\ c.hot = b.hot /\ c.selected = b.selected
         /\ c.n <= c.room => c.first_item = 0
         /\ Placed(c) /\ InStep(c)
<1> DEFINE used == Least(h, b.n)
           at == IF b.selected >= 0 THEN b.selected ELSE b.choice
           fits == /\ b.s_scroll <= at /\ at < b.s_scroll + used
                   /\ b.s_scroll + used <= b.n
           beyond == ~fits /\ at >= used
           first == IF beyond THEN IF at >= b.n - used \div 2 THEN b.n - used ELSE at - used \div 2
                    ELSE IF fits THEN b.s_scroll ELSE b.first_item
           scroll == IF fits \/ beyond THEN first ELSE 0
           rows == Page(first, used, at - scroll)
<1>1. c = [b EXCEPT !.room = h, !.scroll = scroll, !.first_item = first, !.choice = at - scroll,
                    !.rows = rows]
  BY DEF Layout
<1>2. /\ b.n \in Nat /\ b.s_scroll \in Nat /\ used \in Nat /\ used <= b.n /\ used <= h
      /\ used \in {h, b.n} /\ at \in Int /\ at >= 0
      /\ b.n = 0 => at = 0 /\ used = 0
      /\ b.n # 0 => at < b.n /\ used > 0
  BY LeastOf DEF MenuBox
<1> HIDE DEF used, at
<1>3. scroll = first
  OBVIOUS
<1>4. /\ first \in Int /\ 0 <= first /\ first <= b.n - used
      /\ b.n = 0 => at - first = 0
      /\ b.n # 0 => at - first \in 0 .. used - 1
      /\ b.n <= h => first = 0
  <2>1. CASE fits
    BY <1>2, <2>1
  <2>2. CASE beyond /\ at >= b.n - used \div 2
    BY <1>2, <2>2
  <2>3. CASE beyond /\ at < b.n - used \div 2
    BY <1>2, <2>3
  <2>4. CASE ~fits /\ ~beyond
    BY <1>2, <2>4
  <2>5. at >= b.n - used \div 2 \/ at < b.n - used \div 2
    BY <1>2
  <2> HIDE DEF first, scroll, fits, beyond
  <2>6. QED
    BY <2>1, <2>2, <2>3, <2>4, <2>5
<1> HIDE DEF first, scroll, fits, beyond
<1>5. rows \in [0 .. used - 1 -> Rows]
  <2>1. used \in Nat /\ first \in Int /\ at - scroll \in Int
    BY <1>2, <1>3, <1>4
  <2>2. QED
    BY <2>1, PageType
<1> HIDE DEF rows
<1>6. /\ c \in MenuBox /\ c.n = b.n /\ c.hot = b.hot /\ c.selected = b.selected
      /\ c.room = h /\ c.scroll = first /\ c.first_item = first /\ c.choice = at - first /\ c.rows = rows
  <2>1. rows \in UNION {[0 .. u - 1 -> Rows] : u \in Nat}
    BY <1>2, <1>5
  <2>2. first \in Int /\ at - first \in Int
    BY <1>2, <1>4
  <2>3. QED
    BY <1>1, <1>3, <2>1, <2>2 DEF MenuBox
<1>7. InUse(c) = used
  BY <1>6 DEF InUse, used
<1>8. Placed(c)
  BY <1>2, <1>4, <1>6, <1>7 DEF Placed
<1>9. InStep(c)
  BY <1>3, <1>6 DEF InStep, rows, used
<1>10. QED
  BY <1>4, <1>6, <1>8, <1>9

(* Taking the highlight off before a move, and putting it on after it.       *)
Darkly(b) ==
  /\ b \in MenuBox /\ DOMAIN b.hot = 0 .. b.n - 1 /\ b.selected \in -1 .. b.n - 1
  /\ b.n <= b.room => b.first_item = 0
  /\ b.n # 0 /\ Placed(b) /\ Dark(b.rows, b.scroll, InUse(b))

LEMMA DarkenedMenu ==
  ASSUME MenuInv, IsMenu(box), box.n # 0, NEW b, b = Draw(box, Cursor(box), box.choice, FALSE)
  PROVE  /\ Darkly(b) /\ Cursor(b) = Cursor(box) /\ InUse(b) = InUse(box)
         /\ b.n = box.n /\ b.choice = box.choice /\ b.scroll = box.scroll
<1> DEFINE rows == [box.rows EXCEPT ![box.choice] = Row(Cursor(box), FALSE)]
<1>1. b = [box EXCEPT !.rows = rows]
  BY DEF Draw
<1>2. /\ box \in MenuBox /\ InUse(box) \in Nat /\ box.choice \in 0 .. InUse(box) - 1
      /\ box.scroll \in Int /\ Cursor(box) = box.scroll + box.choice
      /\ box.rows = Page(box.scroll, InUse(box), box.choice)
  BY InUseOf DEF MenuInv, Placed, InStep, InUse, Cursor, MenuBox
<1>3. Dark(rows, box.scroll, InUse(box))
  BY <1>2, Darkened
<1> HIDE DEF rows
<1>4. rows \in [0 .. InUse(box) - 1 -> Rows]
  BY <1>3 DEF Dark
<1>5. /\ b \in MenuBox /\ b.n = box.n /\ b.hot = box.hot /\ b.selected = box.selected /\ b.room = box.room
      /\ b.scroll = box.scroll /\ b.first_item = box.first_item /\ b.choice = box.choice /\ b.rows = rows
  BY <1>1, <1>2, <1>4 DEF MenuBox
<1>6. InUse(b) = InUse(box) /\ Cursor(b) = Cursor(box)
  BY <1>5 DEF InUse, Cursor
<1>7. QED
  BY <1>3, <1>5, <1>6 DEF Darkly, MenuInv, Placed

LEMMA LightedMenu ==
  ASSUME NEW b, Darkly(b), box' = Draw(b, Cursor(b), b.choice, TRUE)
  PROVE  MenuInv' /\ Cursor(box') = Cursor(b)
<1> DEFINE rows == [b.rows EXCEPT ![b.choice] = Row(Cursor(b), TRUE)]
<1>1. box' = [b EXCEPT !.rows = rows]
  BY DEF Draw
<1>2. /\ b \in MenuBox /\ InUse(b) \in Nat /\ b.choice \in 0 .. InUse(b) - 1
      /\ b.scroll \in Int /\ Cursor(b) = b.scroll + b.choice
  BY InUseOf DEF Darkly, Placed, Cursor, MenuBox
<1>3. rows = Page(b.scroll, InUse(b), b.choice)
  <2>1. Dark(b.rows, b.scroll, InUse(b))
    BY DEF Darkly
  <2>2. rows = [b.rows EXCEPT ![b.choice] = Row(b.scroll + b.choice, TRUE)]
    BY <1>2
  <2> HIDE DEF rows
  <2>3. QED
    BY <1>2, <2>1, <2>2, Lighted
<1>4. b.choice \in Int
  BY <1>2
<1> HIDE DEF rows
<1>5. rows \in [0 .. InUse(b) - 1 -> Rows]
  BY <1>2, <1>3, <1>4, PageType
<1>6. /\ box' \in MenuBox /\ box'.n = b.n /\ box'.hot = b.hot /\ box'.selected = b.selected
      /\ box'.room = b.room /\ box'.scroll = b.scroll /\ box'.first_item = b.first_item
      /\ box'.choice = b.choice /\ box'.rows = rows /\ box'.kind = "menu"
  BY <1>1, <1>2, <1>5 DEF MenuBox
<1>7. InUse(box') = InUse(b) /\ Cursor(box') = Cursor(b)
  BY <1>6 DEF InUse, Cursor
<1>8. InStep(box')
  BY <1>3, <1>6 DEF InStep, InUse
<1>9. QED
  BY <1>6, <1>7, <1>8 DEF Darkly, MenuInv, Placed, IsMenu

-----------------------------------------------------------------------------
(* The moves. *)

LEMMA ScrolledMenu ==
  ASSUME NEW b, Darkly(b), NEW d \in Int, b.scroll + d \in 0 .. b.n - InUse(b),
         NEW c, c = Scrolled(b, d)
  PROVE  /\ Darkly(c) /\ InUse(c) = InUse(b) /\ c.n = b.n /\ c.scroll = b.scroll + d
         /\ c.choice = b.choice
<1> DEFINE rows == [r \in DOMAIN b.rows |-> IF r + d \in DOMAIN b.rows THEN b.rows[r + d]
                                            ELSE Row(b.scroll + d + r, FALSE)]
<1>1. c = [b EXCEPT !.scroll = b.scroll + d, !.rows = rows]
  BY DEF Scrolled
<1>2. b \in MenuBox /\ InUse(b) \in Nat /\ b.scroll \in Int /\ Dark(b.rows, b.scroll, InUse(b))
  BY InUseOf DEF Darkly, MenuBox
<1>3. Dark(rows, b.scroll + d, InUse(b))
  BY <1>2, DarkScrolled
<1> HIDE DEF rows
<1>4. rows \in UNION {[0 .. u - 1 -> Rows] : u \in Nat} /\ b.scroll + d \in Int
  BY <1>2, <1>3 DEF Dark
<1>5. /\ c \in MenuBox /\ c.n = b.n /\ c.hot = b.hot /\ c.selected = b.selected /\ c.room = b.room
      /\ c.scroll = b.scroll + d /\ c.first_item = b.first_item /\ c.choice = b.choice /\ c.rows = rows
  BY <1>1, <1>2, <1>4 DEF MenuBox
<1>6. InUse(c) = InUse(b)
  BY <1>5 DEF InUse
<1>7. QED
  BY <1>3, <1>5, <1>6 DEF Darkly, Placed

LEMMA WalkedMenu ==
  ASSUME NEW b, Darkly(b), NEW r \in 0 .. InUse(b) - 1, NEW c, c = [b EXCEPT !.choice = r]
  PROVE  Darkly(c) /\ Cursor(c) = b.scroll + r
<1>1. b \in MenuBox /\ r \in Int
  BY InUseOf DEF Darkly, MenuBox
<1>2. /\ c \in MenuBox /\ c.n = b.n /\ c.hot = b.hot /\ c.selected = b.selected /\ c.room = b.room
      /\ c.scroll = b.scroll /\ c.first_item = b.first_item /\ c.choice = r /\ c.rows = b.rows
  BY <1>1 DEF MenuBox
<1>3. InUse(c) = InUse(b)
  BY <1>2 DEF InUse
<1>4. QED
  BY <1>2, <1>3 DEF Darkly, Placed, Cursor

LEMMA DarklyPlaced ==
  ASSUME NEW b, Darkly(b)
  PROVE  /\ b.n \in Nat \ {0} /\ InUse(b) \in 1 .. b.n /\ b.scroll \in 0 .. b.n - InUse(b)
         /\ b.choice \in 0 .. InUse(b) - 1 /\ Cursor(b) = b.scroll + b.choice
BY InUseOf DEF Darkly, Placed, MenuBox, Cursor

LEMMA UpMoves ==
  ASSUME NEW b, Darkly(b)
  PROVE  Darkly(Up(b)) /\ Cursor(Up(b)) = Most(Cursor(b) - 1, 0)
<1>1. CASE b.choice < 2 /\ b.scroll # 0
  <2>1. Up(b) = Scrolled(b, -1)
    BY <1>1 DEF Up
  <2>2. b.scroll + (-1) \in 0 .. b.n - InUse(b)
    BY <1>1, DarklyPlaced
  <2>3. Darkly(Up(b)) /\ Up(b).scroll = b.scroll + (-1) /\ Up(b).choice = b.choice
    BY <2>1, <2>2, ScrolledMenu
  <2>4. QED
    BY <1>1, <2>3, DarklyPlaced DEF Cursor, Most
<1>2. CASE ~(b.choice < 2 /\ b.scroll # 0)
  <2>1. Up(b) = [b EXCEPT !.choice = Most(b.choice - 1, 0)]
    BY <1>2 DEF Up
  <2>2. Most(b.choice - 1, 0) \in 0 .. InUse(b) - 1
    BY DarklyPlaced DEF Most
  <2>3. Darkly(Up(b)) /\ Cursor(Up(b)) = b.scroll + Most(b.choice - 1, 0)
    BY <2>1, <2>2, WalkedMenu
  <2>4. QED
    BY <1>2, <2>3, DarklyPlaced DEF Most
<1>3. QED
  BY <1>1, <1>2

LEMMA DownMoves ==
  ASSUME NEW b, Darkly(b)
  PROVE  Darkly(Down(b)) /\ Cursor(Down(b)) = Least(Cursor(b) + 1, b.n - 1)
<1>1. CASE b.choice > InUse(b) - 3 /\ b.scroll + InUse(b) < b.n
  <2>1. Down(b) = Scrolled(b, 1)
    BY <1>1 DEF Down
  <2>2. b.scroll + 1 \in 0 .. b.n - InUse(b)
    BY <1>1, DarklyPlaced
  <2>3. Darkly(Down(b)) /\ Down(b).scroll = b.scroll + 1 /\ Down(b).choice = b.choice
    BY <2>1, <2>2, ScrolledMenu
  <2>4. QED
    BY <1>1, <2>3, DarklyPlaced DEF Cursor, Least
<1>2. CASE ~(b.choice > InUse(b) - 3 /\ b.scroll + InUse(b) < b.n)
  <2>1. Down(b) = [b EXCEPT !.choice = Least(b.choice + 1, InUse(b) - 1)]
    BY <1>2 DEF Down
  <2>2. Least(b.choice + 1, InUse(b) - 1) \in 0 .. InUse(b) - 1
    BY DarklyPlaced DEF Least
  <2>3. Darkly(Down(b)) /\ Cursor(Down(b)) = b.scroll + Least(b.choice + 1, InUse(b) - 1)
    BY <2>1, <2>2, WalkedMenu
  <2>4. QED
    BY <1>2, <2>3, DarklyPlaced DEF Least
<1>3. QED
  BY <1>1, <1>2

LEMMA PageUpMoves ==
  ASSUME NEW b, Darkly(b)
  PROVE  Darkly(PageUp(b)) /\ Cursor(PageUp(b)) = Most(Cursor(b) - InUse(b), 0)
<1> DEFINE d == Least(b.scroll, InUse(b))
           c == Scrolled(b, -d)
           r == Most(b.choice - (InUse(b) - d), 0)
<1>1. /\ d \in Int /\ -d \in Int /\ b.scroll + (-d) \in 0 .. b.n - InUse(b)
      /\ r \in 0 .. InUse(b) - 1 /\ b.scroll - d + r = Most(Cursor(b) - InUse(b), 0)
  <2>1. /\ InUse(b) \in Nat /\ InUse(b) > 0 /\ b.n \in Nat /\ b.scroll \in Nat /\ b.scroll <= b.n - InUse(b)
        /\ b.choice \in Nat /\ b.choice <= InUse(b) - 1 /\ Cursor(b) = b.scroll + b.choice
    BY DarklyPlaced
  <2>2. CASE b.scroll <= InUse(b)
    <3>1. d = b.scroll
      BY <2>1, <2>2 DEF Least
    <3> HIDE DEF d
    <3>2. QED
      BY <2>1, <2>2, <3>1 DEF Most
  <2>3. CASE b.scroll > InUse(b)
    <3>1. d = InUse(b)
      BY <2>1, <2>3 DEF Least
    <3> HIDE DEF d
    <3>2. QED
      BY <2>1, <2>3, <3>1 DEF Most
  <2>4. QED
    BY <2>1, <2>2, <2>3
<1> HIDE DEF d
<1>2. Darkly(c) /\ InUse(c) = InUse(b) /\ c.scroll = b.scroll + (-d) /\ c.choice = b.choice
  BY <1>1, ScrolledMenu
<1>3. PageUp(b) = [c EXCEPT !.choice = r]
  BY <1>2 DEF PageUp, d
<1> HIDE DEF c, r
<1>4. Darkly(PageUp(b)) /\ Cursor(PageUp(b)) = c.scroll + r
  BY <1>1, <1>2, <1>3, WalkedMenu
<1>5. b.scroll \in Int /\ r \in Int
  BY <1>1, DarklyPlaced
<1>6. QED
  BY <1>1, <1>2, <1>4, <1>5

LEMMA PageDownMoves ==
  ASSUME NEW b, Darkly(b)
  PROVE  Darkly(PageDown(b)) /\ Cursor(PageDown(b)) = Least(Cursor(b) + InUse(b), b.n - 1)
<1> DEFINE d == Least(b.n - InUse(b) - b.scroll, InUse(b))
           c == Scrolled(b, d)
           r == Least(b.choice + (InUse(b) - d), InUse(b) - 1)
<1>1. /\ d \in Int /\ b.scroll + d \in 0 .. b.n - InUse(b)
      /\ r \in 0 .. InUse(b) - 1 /\ b.scroll + d + r = Least(Cursor(b) + InUse(b), b.n - 1)
  BY DarklyPlaced DEF Least
<1> HIDE DEF d
<1>2. Darkly(c) /\ InUse(c) = InUse(b) /\ c.scroll = b.scroll + d /\ c.choice = b.choice
  BY <1>1, ScrolledMenu
<1>3. PageDown(b) = [c EXCEPT !.choice = r]
  BY <1>2 DEF PageDown, d
<1> HIDE DEF c, r
<1>4. Darkly(PageDown(b)) /\ Cursor(PageDown(b)) = c.scroll + r
  BY <1>1, <1>2, <1>3, WalkedMenu
<1>5. QED
  BY <1>1, <1>2, <1>4

LEMMA LetterMoves ==
  ASSUME NEW b, Darkly(b), NEW l \in Letter, RowsWith(b, l) # {}
  PROVE  Darkly(To(b, l))
<1> DEFINE hits == RowsWith(b, l)
           below == {r \in hits : r > b.choice}
           from == IF below # {} THEN below ELSE hits
           row == CHOOSE r \in from : \A q \in from : r <= q
<1>1. from # {} /\ \A r \in from : r \in 0 .. InUse(b) - 1
  BY DEF RowsWith
<1>2. from \in SUBSET Nat
  BY <1>1, DarklyPlaced
<1>3. \E r \in from : \A q \in from : r <= q
  <2> HIDE DEF from
  <2> QED BY <1>1, <1>2, LeastRow
<1>4. To(b, l) = [b EXCEPT !.choice = row]
  BY DEF To
<1> HIDE DEF from
<1>5. row \in 0 .. InUse(b) - 1
  BY <1>1, <1>3
<1> HIDE DEF row
<1>6. QED
  BY <1>4, <1>5, WalkedMenu

-----------------------------------------------------------------------------
(* The theorems. *)

LEMMA MenuInit == Init => MenuInv
BY DEF Init, MenuInv, IsMenu

(* What a call is opened with, before the layout. *)
Call(n, hot, selected, saved, h) ==
  [kind |-> "menu", n |-> n, hot |-> hot, selected |-> selected,
   s_scroll |-> saved, room |-> h, scroll |-> 0, first_item |-> 0,
   choice |-> 0, button |-> 0, rows |-> <<>>]

LEMMA Opened ==
  ASSUME MenuAssumption, Open
  PROVE  MenuInv'
<1>1. PICK hot \in Lists, h \in Height, saved \in 0 .. MaxItems :
        \E n \in 0 .. MaxItems : \E selected \in -1 .. n - 1 :
          DOMAIN hot = 0 .. n - 1 /\ box' = Layout(Call(n, hot, selected, saved, h), h)
  BY DEF Open, Call
<1>2. PICK n \in 0 .. MaxItems : \E selected \in -1 .. n - 1 :
        DOMAIN hot = 0 .. n - 1 /\ box' = Layout(Call(n, hot, selected, saved, h), h)
  BY <1>1
<1>a. PICK selected \in -1 .. n - 1 :
        DOMAIN hot = 0 .. n - 1 /\ box' = Layout(Call(n, hot, selected, saved, h), h)
  BY <1>2
<1> DEFINE b == Call(n, hot, selected, saved, h)
<1>3. n \in Nat /\ h \in Nat \ {0} /\ saved \in Nat /\ selected \in {-1} \cup Nat
  BY DEF MenuAssumption
<1>4. hot \in UNION {[0 .. k - 1 -> Letter] : k \in Nat}
  BY DEF Lists, MenuAssumption
<1>5. <<>> \in UNION {[0 .. u - 1 -> Rows] : u \in Nat}
  <2>1. <<>> \in [0 .. 0 - 1 -> Rows]
    OBVIOUS
  <2>2. QED
    BY <2>1
<1>6. b \in MenuBox
  BY <1>3, <1>4, <1>5 DEF MenuBox, Call
<1>7. b.n = n /\ b.hot = hot /\ b.selected = selected /\ b.choice = 0 /\ b.first_item = 0
  BY DEF Call
<1>8. box' = Layout(b, h)
  BY <1>a
<1> HIDE DEF b
<1>9. /\ box' \in MenuBox /\ box'.n = b.n /\ box'.hot = b.hot /\ box'.selected = b.selected
      /\ box'.n <= box'.room => box'.first_item = 0
      /\ Placed(box') /\ InStep(box')
  BY <1>3, <1>6, <1>7, <1>8, LayoutPlaced
<1>10. box'.kind = "menu"
  BY <1>9 DEF MenuBox
<1>11. QED
  BY <1>a, <1>7, <1>9, <1>10 DEF MenuInv, IsMenu, Placed, InUse, InStep

LEMMA Resized ==
  ASSUME MenuAssumption, ResizeScrolled = FALSE, MenuInv, NEW h \in Height, KeyResize(h)
  PROVE  MenuInv'
<1>1. /\ box \in MenuBox /\ DOMAIN box.hot = 0 .. box.n - 1 /\ box.selected \in -1 .. box.n - 1
      /\ box.n <= box.room /\ box.first_item = 0 /\ box' = Layout(box, h) /\ h \in Nat \ {0}
      /\ Placed(box)
  BY DEF KeyResize, MenuInv, MenuAssumption
<1>2. IF box.n = 0 THEN box.choice = 0 ELSE box.choice \in 0 .. box.n - 1
  BY <1>1, InUseOf DEF Placed, MenuBox
<1>3. /\ box' \in MenuBox /\ box'.n = box.n /\ box'.hot = box.hot /\ box'.selected = box.selected
      /\ box'.n <= box'.room => box'.first_item = 0
      /\ Placed(box') /\ InStep(box')
  BY <1>1, <1>2, LayoutPlaced
<1>4. box'.kind = "menu"
  BY <1>3 DEF MenuBox
<1>5. QED
  BY <1>1, <1>3, <1>4 DEF MenuInv, IsMenu, Placed, InUse, InStep

(* The keys that move, with the place they move to. *)
LEMMA Walked ==
  ASSUME MenuInv
  PROVE  /\ KeyUp => MenuInv' /\ Cursor(box') = Most(Cursor(box) - 1, 0)
         /\ KeyDown => MenuInv' /\ Cursor(box') = Least(Cursor(box) + 1, box.n - 1)
         /\ KeyPageUp => MenuInv' /\ Cursor(box') = Most(Cursor(box) - InUse(box), 0)
         /\ KeyPageDown => MenuInv' /\ Cursor(box') = Least(Cursor(box) + InUse(box), box.n - 1)
         /\ \A l \in Letter : KeyLetter(l) => MenuInv'
<1> DEFINE b == Draw(box, Cursor(box), box.choice, FALSE)
<1>1. ASSUME IsMenu(box), box.n # 0
      PROVE  Darkly(b) /\ Cursor(b) = Cursor(box) /\ InUse(b) = InUse(box) /\ b.n = box.n
  BY <1>1, DarkenedMenu
<1>2. ASSUME KeyUp PROVE MenuInv' /\ Cursor(box') = Most(Cursor(box) - 1, 0)
  <2>1. IsMenu(box) /\ box.n # 0 /\ box' = Draw(Up(b), Cursor(Up(b)), Up(b).choice, TRUE)
    BY <1>2 DEF KeyUp, Move
  <2> HIDE DEF b
  <2>2. QED
    BY <1>1, <2>1, UpMoves, LightedMenu
<1>3. ASSUME KeyDown PROVE MenuInv' /\ Cursor(box') = Least(Cursor(box) + 1, box.n - 1)
  <2>1. IsMenu(box) /\ box.n # 0 /\ box' = Draw(Down(b), Cursor(Down(b)), Down(b).choice, TRUE)
    BY <1>3 DEF KeyDown, Move
  <2> HIDE DEF b
  <2>2. QED
    BY <1>1, <2>1, DownMoves, LightedMenu
<1>4. ASSUME KeyPageUp PROVE MenuInv' /\ Cursor(box') = Most(Cursor(box) - InUse(box), 0)
  <2>1. IsMenu(box) /\ box.n # 0 /\ box' = Draw(PageUp(b), Cursor(PageUp(b)), PageUp(b).choice, TRUE)
    BY <1>4 DEF KeyPageUp, Move
  <2> HIDE DEF b
  <2>2. QED
    BY <1>1, <2>1, PageUpMoves, LightedMenu
<1>5. ASSUME KeyPageDown PROVE MenuInv' /\ Cursor(box') = Least(Cursor(box) + InUse(box), box.n - 1)
  <2>1. IsMenu(box) /\ box.n # 0 /\ box' = Draw(PageDown(b), Cursor(PageDown(b)), PageDown(b).choice, TRUE)
    BY <1>5 DEF KeyPageDown, Move
  <2> HIDE DEF b
  <2>2. QED
    BY <1>1, <2>1, PageDownMoves, LightedMenu
<1>6. ASSUME NEW l \in Letter, KeyLetter(l) PROVE MenuInv'
  <2>1. /\ IsMenu(box) /\ box.n # 0 /\ RowsWith(box, l) # {}
        /\ box' = Draw(To(b, l), Cursor(To(b, l)), To(b, l).choice, TRUE)
    BY <1>6 DEF KeyLetter, Move
  <2>2. b.scroll = box.scroll /\ b.hot = box.hot
    BY <2>1 DEF MenuInv, MenuBox, Draw
  <2> HIDE DEF b
  <2>3. Darkly(b) /\ RowsWith(b, l) # {}
    BY <1>1, <2>1, <2>2 DEF RowsWith
  <2>4. QED
    BY <2>1, <2>3, LetterMoves, LightedMenu
<1>7. QED
  BY <1>2, <1>3, <1>4, <1>5, <1>6

LEMMA MenuStep ==
  ASSUME MenuAssumption, ResizeScrolled = FALSE, MenuInv, [Next]_box
  PROVE  MenuInv'
<1>1. ASSUME NEW d \in {-1, 1}, KeyButton(d) PROVE MenuInv'
  <2>1. /\ box \in MenuBox /\ DOMAIN box.hot = 0 .. box.n - 1 /\ box.selected \in -1 .. box.n - 1
        /\ box.n <= box.room => box.first_item = 0
        /\ Placed(box) /\ InStep(box)
    BY <1>1 DEF MenuInv, KeyButton
  <2>2. box' = [box EXCEPT !.button = (box.button + d) % 5] /\ (box.button + d) % 5 \in Int
    BY <1>1, <2>1 DEF KeyButton, MenuBox
  <2>3. /\ box' \in MenuBox /\ box'.n = box.n /\ box'.hot = box.hot /\ box'.selected = box.selected
        /\ box'.room = box.room /\ box'.scroll = box.scroll /\ box'.first_item = box.first_item
        /\ box'.choice = box.choice /\ box'.rows = box.rows /\ box'.kind = "menu"
    BY <2>1, <2>2 DEF MenuBox
  <2>4. QED
    BY <2>1, <2>3 DEF MenuInv, IsMenu, Placed, InStep, InUse
<1>2. ASSUME KeyEnter \/ KeyEscape \/ \E key \in DOMAIN Answers : KeyAnswer(key) PROVE MenuInv'
  <2>1. box'.kind = "answered"
    BY <1>2 DEF KeyEnter, KeyEscape, KeyAnswer, Answered
  <2>2. QED
    BY <2>1 DEF MenuInv, IsMenu
<1>3. CASE UNCHANGED box
  BY <1>3 DEF MenuInv, IsMenu, Placed, InStep, InUse
<1>4. QED
  BY <1>1, <1>2, <1>3, Opened, Resized, Walked DEF Next

(* What is highlighted is what an answer selects, and the rows are those of   *)
(* the list, for lists of every length in windows of every height.            *)
THEOREM MenuShown ==
  ASSUME MenuAssumption, ResizeScrolled = FALSE
  PROVE  Spec => []ShownIsSelected
<1>1. MenuInv => ShownIsSelected
  BY DEF MenuInv, ShownIsSelected, Placed
<1>2. QED
  BY <1>1, MenuInit, MenuStep, PTL DEF Spec

(* The keys move in the list as in one long page.                             *)
THEOREM MenuMoves ==
  ASSUME MenuAssumption, ResizeScrolled = FALSE
  PROVE  Spec => CursorMoves
<1>1. MenuInv => [IsMenu(box) /\ IsMenu(box') =>
       LET at == Cursor(box)  page == InUse(box)  last == box.n - 1
       IN  /\ KeyUp => Cursor(box') = Most(at - 1, 0)
           /\ KeyDown => Cursor(box') = Least(at + 1, last)
           /\ KeyPageUp => Cursor(box') = Most(at - page, 0)
           /\ KeyPageDown => Cursor(box') = Least(at + page, last)]_box
  BY Walked
<1>2. QED
  BY <1>1, MenuInit, MenuStep, PTL DEF Spec, CursorMoves
=============================================================================
