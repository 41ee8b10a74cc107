-------------------------- MODULE Checklist_proofs --------------------------
(***************************************************************************)
(* That the highlighted value of a choice is the one an answer selects,    *)
(* for every length of list and height of window.                          *)
(***************************************************************************)
EXTENDS Checklist, TLAPS, WellFoundedInduction

-----------------------------------------------------------------------------
(* What printing and scrolling do to the rows of a list window. *)

Rows == [item : Int, lit : BOOLEAN]

(* No row is highlighted; and only row c is. *)
Dark(f, first, count) ==
  f \in [0 .. count - 1 -> Rows] /\ \A r \in 0 .. count - 1 : f[r] = Row(first + r, FALSE)
LitAt(f, first, count, c) ==
  /\ f \in [0 .. count - 1 -> Rows] /\ f[c] = Row(first + c, TRUE)
  /\ \A r \in 0 .. count - 1 : r # c => f[r] = Row(first + r, FALSE)

LEMMA RowType ==
  \A i \in Int : Row(i, TRUE) \in Rows /\ Row(i, FALSE) \in Rows
BY DEF Row, Rows

LEMMA PageRow ==
  ASSUME NEW first \in Int, NEW count \in Nat, NEW c \in Int, NEW r \in 0 .. count - 1
  PROVE  Page(first, count, c)[r] = IF r = c THEN Row(first + r, TRUE) ELSE Row(first + r, FALSE)
<1>1. Page(first, count, c)[r] = Row(first + r, r = c)
  BY DEF Page
<1>2. CASE r # c
  <2>1. (r = c) = FALSE
    BY <1>2
  <2>2. QED
    BY <1>1, <1>2, <2>1, Zenon
<1>3. CASE r = c
  <2>1. (r = c) = TRUE
    BY <1>3
  <2>2. QED
    BY <1>1, <1>3, <2>1, Zenon
<1>4. QED
  BY <1>2, <1>3

LEMMA PageType ==
  ASSUME NEW first \in Int, NEW count \in Nat, NEW c \in Int
  PROVE  Page(first, count, c) \in [0 .. count - 1 -> Rows]
<1>1. \A r \in 0 .. count - 1 : Row(first + r, r = c) \in Rows
  BY DEF Row, Rows
<1>2. QED
  BY <1>1, Zenon DEF Page

LEMMA PageIsLit ==
  ASSUME NEW first \in Int, NEW count \in Nat, NEW c \in 0 .. count - 1
  PROVE  LitAt(Page(first, count, c), first, count, c)
<1>1. c \in Int /\ Page(first, count, c) \in [0 .. count - 1 -> Rows]
  BY PageType
<1>2. \A r \in 0 .. count - 1 : Page(first, count, c)[r] = IF r = c THEN Row(first + r, TRUE) ELSE Row(first + r, FALSE)
  BY <1>1, PageRow
<1>3. QED
  BY <1>1, <1>2 DEF LitAt

LEMMA LitIsPage ==
  ASSUME NEW first \in Int, NEW count \in Nat, NEW c \in 0 .. count - 1, NEW f,
         LitAt(f, first, count, c)
  PROVE  f = Page(first, count, c)
<1> DEFINE p == Page(first, count, c)
<1>1. LitAt(p, first, count, c)
  BY PageIsLit
<1> HIDE DEF p
<1>2. \A r \in 0 .. count - 1 : f[r] = p[r]
  BY <1>1 DEF LitAt
<1>3. f \in [0 .. count - 1 -> Rows] /\ p \in [0 .. count - 1 -> Rows]
  BY <1>1 DEF LitAt
<1>4. f = p
  BY <1>2, <1>3
<1>5. QED
  BY <1>4 DEF p

(* Printing the chosen row again without its highlight darkens the window.   *)
LEMMA Darkened ==
  ASSUME NEW first \in Int, NEW count \in Nat, NEW c \in 0 .. count - 1, NEW f,
         f = Page(first, count, c)
  PROVE  Dark([f EXCEPT ![c] = Row(first + c, FALSE)], first, count)
<1>1. LitAt(f, first, count, c)
  BY PageIsLit
<1>2. Row(first + c, FALSE) \in Rows
  BY RowType, first + c \in Int
<1>3. QED
  BY <1>1, <1>2 DEF LitAt, Dark

(* Printing a row highlighted in a dark window highlights just that row.     *)
LEMMA Lighted ==
  ASSUME NEW first \in Int, NEW count \in Nat, NEW c \in 0 .. count - 1, NEW f,
         Dark(f, first, count)
  PROVE  [f EXCEPT ![c] = Row(first + c, TRUE)] = Page(first, count, c)
<1>1. Row(first + c, TRUE) \in Rows
  BY RowType, first + c \in Int
<1>2. LitAt([f EXCEPT ![c] = Row(first + c, TRUE)], first, count, c)
  BY <1>1 DEF LitAt, Dark
<1>3. QED
  BY <1>2, LitIsPage

(* The only row of a window is printed.                                       *)
LEMMA OneRow ==
  ASSUME NEW first \in Int, NEW f \in [0 .. 1 - 1 -> Rows]
  PROVE  [f EXCEPT ![0] = Row(first, TRUE)] = Page(first, 1, 0)
<1> DEFINE g == [f EXCEPT ![0] = Row(first, TRUE)]
<1>0. Row(first, TRUE) \in Rows
  BY RowType
<1>1. 0 \in 0 .. 1 - 1 /\ 1 \in Nat /\ first + 0 = first
  OBVIOUS
<1>2. g \in [0 .. 1 - 1 -> Rows] /\ g[0] = Row(first, TRUE)
  BY <1>0, <1>1
<1>3. \A r \in 0 .. 1 - 1 : r = 0
  OBVIOUS
<1> HIDE DEF g
<1>4. LitAt(g, first, 1, 0)
  BY <1>1, <1>2, <1>3 DEF LitAt
<1>5. g = Page(first, 1, 0)
  BY <1>1, <1>4, LitIsPage
<1>6. QED
  BY <1>5 DEF g

(* Scrolling a dark window by d lines leaves it dark, d items further.       *)
LEMMA DarkScrolled ==
  ASSUME NEW first \in Int, NEW count \in Nat, NEW d \in Int, NEW f,
         Dark(f, first, count)
  PROVE  Dark([r \in DOMAIN f |-> IF r + d \in DOMAIN f THEN f[r + d] ELSE Row(first + d + r, FALSE)],
              first + d, count)
<1>1. \A r \in 0 .. count - 1 : first + d + r \in Int /\ first + (r + d) = first + d + r
  OBVIOUS
<1>2. \A r \in 0 .. count - 1 : Row(first + d + r, FALSE) \in Rows
  BY <1>1, RowType
<1>3. DOMAIN f = 0 .. count - 1
  BY DEF Dark
<1>4. \A r \in 0 .. count - 1 : r + d \in 0 .. count - 1 => f[r + d] = Row(first + d + r, FALSE)
  <2>1. \A q \in 0 .. count - 1 : f[q] = Row(first + q, FALSE)
    BY DEF Dark
  <2>2. QED
    BY <1>1, <2>1
<1>5. QED
  BY <1>2, <1>3, <1>4 DEF Dark

(* The least row of those a search has found.                                *)
LEMMA LeastRow ==
  ASSUME NEW I \in SUBSET Nat, I # {}
  PROVE  \E i \in I : \A j \in I : i <= j
<1> DEFINE R == {p \in Nat \X Nat : p[1] < p[2]}
<1>1. IsWellFoundedOn(R, Nat)
  BY NatLessThanWellFounded DEF OpToRel
<1>2. PICK i \in I : \A j \in I : ~(<<j, i>> \in R)
  BY <1>1, WFMin
<1>3. ASSUME NEW j \in I PROVE i <= j
  <2>1. <<j, i>> \notin R
    BY <1>2
  <2>2. <<j, i>> \in Nat \X Nat /\ <<j, i>>[1] = j /\ <<j, i>>[2] = i
    OBVIOUS
  <2>3. QED
    BY <2>1, <2>2
<1>4. QED
  BY <1>3

-----------------------------------------------------------------------------
(* The box. *)

ListBox ==
  [kind : {"list"}, n : Nat \ {0}, first : UNION {[0 .. n - 1 -> Letter] : n \in Nat}, room : Nat \ {0},
   scroll : Int, choice : Int, button : Int, rows : UNION {[0 .. u - 1 -> Rows] : u \in Nat}]

Placed(b) == b.scroll \in 0 .. b.n - InUse(b) /\ b.choice \in 0 .. InUse(b) - 1

ListInv ==
  /\ box.kind \in {"none", "list", "answered"}
  /\ IsList(box) => box \in ListBox /\ DOMAIN box.first = 0 .. box.n - 1 /\ Placed(box) /\ InStep(box)

LEMMA InUseOf ==
  ASSUME NEW b \in ListBox
  PROVE  /\ InUse(b) \in Nat /\ InUse(b) > 0 /\ InUse(b) <= b.n /\ InUse(b) <= b.room
         /\ InUse(b) \in {b.n, b.room}
BY DEF InUse, ListBox, Least

LEMMA ListInit == Init => ListInv
BY DEF Init, ListInv, IsList

(* The layout of a list, of which the choice may be below the window.        *)
LEMMA LayoutPlaced ==
  ASSUME NEW b \in ListBox, b.choice \in 0 .. b.n - 1, NEW c, c = Layout(b),
         b.scroll = 0 \/ Placed(b)
  PROVE  c \in ListBox /\ c.n = b.n /\ c.first = b.first /\ Placed(c) /\ InStep(c)
<1> DEFINE over == IF b.choice >= b.room THEN b.choice - b.room + 1 ELSE 0
           scroll == IF over > 0 THEN over ELSE b.scroll
           rows == Page(scroll, InUse(b), b.choice - over)
<1>1. c = [b EXCEPT !.scroll = scroll, !.choice = b.choice - over, !.rows = rows]
  BY DEF Layout
<1>2. /\ b.n \in Nat /\ b.room \in Nat /\ b.scroll \in Int /\ InUse(b) \in Nat /\ InUse(b) > 0
      /\ InUse(b) <= b.n /\ InUse(b) <= b.room /\ InUse(b) \in {b.n, b.room}
  BY InUseOf DEF ListBox
<1>3. scroll \in 0 .. b.n - InUse(b) /\ b.choice - over \in 0 .. InUse(b) - 1
  BY <1>2 DEF Placed
<1>4. scroll \in Int /\ b.choice - over \in Int
  BY <1>2, <1>3
<1> HIDE DEF over, scroll
<1>5. rows \in UNION {[0 .. u - 1 -> Rows] : u \in Nat}
  <2>1. rows \in [0 .. InUse(b) - 1 -> Rows]
    BY <1>2, <1>4, PageType
  <2> HIDE DEF rows
  <2>2. QED
    BY <1>2, <2>1
<1> HIDE DEF rows
<1>6. /\ c \in ListBox /\ c.n = b.n /\ c.first = b.first /\ c.room = b.room
      /\ c.scroll = scroll /\ c.choice = b.choice - over /\ c.rows = rows
  BY <1>1, <1>4, <1>5 DEF ListBox
<1>7. InUse(c) = InUse(b)
  BY <1>6 DEF InUse
<1>8. QED
  BY <1>3, <1>6, <1>7 DEF Placed, InStep, InUse, rows

LEMMA Opened ==
  ASSUME ListAssumption, Open
  PROVE  ListInv'
<1> DEFINE Call(n, first, item, h) ==
             [kind |-> "list", n |-> n, first |-> first, room |-> h,
              scroll |-> 0, choice |-> item, button |-> 0, rows |-> <<>>]
<1>1. PICK first \in Lists, h \in Height, n \in 1 .. MaxItems : \E item \in 0 .. n - 1 :
        DOMAIN first = 0 .. n - 1 /\ box' = Layout(Call(n, first, item, h))
  BY DEF Open
<1>2. PICK item \in 0 .. n - 1 : DOMAIN first = 0 .. n - 1 /\ box' = Layout(Call(n, first, item, h))
  BY <1>1
<1> DEFINE b == Call(n, first, item, h)
<1>3. n \in Nat \ {0} /\ h \in Nat \ {0} /\ item \in Int
  BY DEF ListAssumption
<1>4. first \in UNION {[0 .. k - 1 -> Letter] : k \in Nat}
  BY DEF Lists, ListAssumption
<1>5. <<>> \in UNION {[0 .. u - 1 -> Rows] : u \in Nat}
  <2>1. <<>> \in [0 .. 0 - 1 -> Rows]
    OBVIOUS
  <2>2. QED
    BY <2>1
<1>6. b \in ListBox
  BY <1>3, <1>4, <1>5 DEF ListBox
<1>7. b.n = n /\ b.first = first /\ b.choice = item /\ b.scroll = 0
  OBVIOUS
<1>8. box' = Layout(b)
  BY <1>2
<1> HIDE DEF b
<1>9. box' \in ListBox /\ box'.n = b.n /\ box'.first = b.first /\ Placed(box') /\ InStep(box')
  BY <1>6, <1>7, <1>8, LayoutPlaced
<1>10. box'.kind = "list"
  BY <1>9 DEF ListBox
<1>11. QED
  BY <1>2, <1>7, <1>9, <1>10 DEF ListInv, IsList, Placed, InUse, InStep

-----------------------------------------------------------------------------
(* The keys that move: the highlight is taken off, the window or the choice   *)
(* moved, and the highlight put on again.                                    *)
Darkly(b) ==
  b \in ListBox /\ DOMAIN b.first = 0 .. b.n - 1 /\ Placed(b) /\ Dark(b.rows, b.scroll, InUse(b))

LEMMA Known ==
  ASSUME ListInv, IsList(box)
  PROVE  /\ box \in ListBox /\ DOMAIN box.first = 0 .. box.n - 1 /\ Placed(box)
         /\ InUse(box) \in Nat /\ InUse(box) > 0 /\ box.n \in Nat /\ box.room \in Nat \ {0}
         /\ InUse(box) <= box.n /\ InUse(box) \in {box.n, box.room}
         /\ box.scroll \in 0 .. box.n - InUse(box) /\ box.scroll \in Int
         /\ box.choice \in 0 .. InUse(box) - 1 /\ box.choice \in Int
         /\ box.rows = Page(box.scroll, InUse(box), box.choice)
         /\ Cursor(box) = box.scroll + box.choice
<1>1. box \in ListBox /\ DOMAIN box.first = 0 .. box.n - 1 /\ Placed(box) /\ InStep(box)
  BY DEF ListInv
<1>2. /\ InUse(box) \in Nat /\ InUse(box) > 0 /\ InUse(box) <= box.n
      /\ InUse(box) \in {box.n, box.room}
  BY <1>1, InUseOf
<1>3. /\ box.n \in Nat /\ box.room \in Nat \ {0} /\ box.scroll \in Int /\ box.choice \in Int
  BY <1>1 DEF ListBox
<1>4. box.scroll \in 0 .. box.n - InUse(box) /\ box.choice \in 0 .. InUse(box) - 1
  BY <1>1 DEF Placed
<1>5. box.rows = Page(box.scroll, InUse(box), box.choice)
  BY <1>1 DEF InStep, InUse
<1>6. QED
  BY <1>1, <1>2, <1>3, <1>4, <1>5 DEF Cursor

LEMMA DarkenedList ==
  ASSUME ListInv, IsList(box), NEW r \in 0 .. InUse(box) - 1,
         NEW b, b = Draw([box EXCEPT !.choice = r], Cursor(box), box.choice, FALSE)
  PROVE  /\ Darkly(b) /\ InUse(b) = InUse(box) /\ b.n = box.n /\ b.room = box.room
         /\ b.choice = r /\ b.scroll = box.scroll
<1> DEFINE rows == [box.rows EXCEPT ![box.choice] = Row(box.scroll + box.choice, FALSE)]
<1>1. /\ box \in ListBox /\ DOMAIN box.first = 0 .. box.n - 1 /\ Placed(box)
      /\ InUse(box) \in Nat /\ box.scroll \in Int /\ box.scroll \in 0 .. box.n - InUse(box)
      /\ box.choice \in 0 .. InUse(box) - 1
      /\ box.rows = Page(box.scroll, InUse(box), box.choice)
      /\ Cursor(box) = box.scroll + box.choice
  BY Known
<1>2. Dark(rows, box.scroll, InUse(box))
  BY <1>1, Darkened
<1>3. b = [box EXCEPT !.choice = r, !.rows = rows]
  BY <1>1 DEF Draw, ListBox
<1> HIDE DEF rows
<1>4. rows \in [0 .. InUse(box) - 1 -> Rows] /\ r \in Int
  BY <1>1, <1>2 DEF Dark
<1>5. rows \in UNION {[0 .. u - 1 -> Rows] : u \in Nat}
  BY <1>1, <1>4
<1>6. /\ b \in ListBox /\ b.n = box.n /\ b.first = box.first /\ b.room = box.room
      /\ b.scroll = box.scroll /\ b.choice = r /\ b.rows = rows
  BY <1>1, <1>3, <1>4, <1>5 DEF ListBox
<1>7. InUse(b) = InUse(box)
  BY <1>6 DEF InUse
<1>8. QED
  BY <1>1, <1>2, <1>6, <1>7 DEF Darkly, Placed

LEMMA LightedList ==
  ASSUME NEW b, Darkly(b), box' = Draw(b, b.scroll + b.choice, b.choice, TRUE)
  PROVE  ListInv'
<1> DEFINE rows == [b.rows EXCEPT ![b.choice] = Row(b.scroll + b.choice, TRUE)]
<1>1. box' = [b EXCEPT !.rows = rows]
  BY DEF Draw
<1>2. /\ b \in ListBox /\ DOMAIN b.first = 0 .. b.n - 1 /\ Placed(b)
      /\ InUse(b) \in Nat /\ b.choice \in 0 .. InUse(b) - 1
      /\ b.scroll \in Int /\ b.choice \in Int /\ Dark(b.rows, b.scroll, InUse(b))
  BY InUseOf DEF Darkly, Placed, ListBox
<1>3. rows = Page(b.scroll, InUse(b), b.choice)
  BY <1>2, Lighted
<1> HIDE DEF rows
<1>4. rows \in [0 .. InUse(b) - 1 -> Rows]
  BY <1>2, <1>3, PageType
<1>5. rows \in UNION {[0 .. u - 1 -> Rows] : u \in Nat}
  BY <1>2, <1>4
<1>6. /\ box' \in ListBox /\ box'.n = b.n /\ box'.first = b.first
      /\ box'.room = b.room /\ box'.scroll = b.scroll
      /\ box'.choice = b.choice /\ box'.rows = rows /\ box'.kind = "list"
  BY <1>1, <1>2, <1>5 DEF ListBox
<1>7. InUse(box') = InUse(b)
  BY <1>6 DEF InUse
<1>8. InStep(box')
  BY <1>3, <1>6 DEF InStep, InUse
<1>9. QED
  BY <1>2, <1>6, <1>7, <1>8 DEF ListInv, Placed, IsList

LEMMA HighlightedInv ==
  ASSUME ListInv, IsList(box), NEW r \in 0 .. InUse(box) - 1, box' = Highlighted(box, r)
  PROVE  ListInv'
<1> DEFINE b == Draw([box EXCEPT !.choice = r], Cursor(box), box.choice, FALSE)
<1>1. Darkly(b) /\ b.choice = r /\ b.scroll = box.scroll
  BY DarkenedList
<1>2. box' = Draw(b, box.scroll + r, r, TRUE)
  BY DEF Highlighted
<1> HIDE DEF b
<1>3. QED
  BY <1>1, <1>2, LightedList

LEMMA ScrolledList ==
  ASSUME NEW b, Darkly(b), NEW d \in Int, b.scroll + d \in 0 .. b.n - InUse(b),
         NEW c, c = Scrolled(b, d)
  PROVE  Darkly(c) /\ c.scroll = b.scroll + d /\ c.choice = b.choice
<1> DEFINE rows == [r \in DOMAIN b.rows |-> IF r + d \in DOMAIN b.rows THEN b.rows[r + d]
                                            ELSE Row(b.scroll + d + r, FALSE)]
<1>1. c = [b EXCEPT !.scroll = b.scroll + d, !.rows = rows]
  BY DEF Scrolled
<1>2. b \in ListBox /\ InUse(b) \in Nat /\ b.scroll \in Int /\ Dark(b.rows, b.scroll, InUse(b))
  BY InUseOf DEF Darkly, ListBox
<1>3. Dark(rows, b.scroll + d, InUse(b))
  BY <1>2, DarkScrolled
<1> HIDE DEF rows
<1>4. rows \in UNION {[0 .. u - 1 -> Rows] : u \in Nat} /\ b.scroll + d \in Int
  BY <1>2, <1>3 DEF Dark
<1>5. /\ c \in ListBox /\ c.n = b.n /\ c.first = b.first /\ c.room = b.room
      /\ c.scroll = b.scroll + d /\ c.choice = b.choice /\ c.rows = rows
  BY <1>1, <1>2, <1>4 DEF ListBox
<1>6. InUse(c) = InUse(b)
  BY <1>5 DEF InUse
<1>7. QED
  BY <1>3, <1>5, <1>6 DEF Darkly, Placed

(* A window of one row is not scrolled: its only row is printed again.        *)
LEMMA RolledInv ==
  ASSUME ListInv, IsList(box), NEW d \in Int, box.scroll + d \in 0 .. box.n - InUse(box),
         box' = Rolled(box, d, box.choice)
  PROVE  ListInv'
<1> DEFINE off == Draw(box, Cursor(box), box.choice, FALSE)
           one == [box EXCEPT !.scroll = @ + d]
<1>1. /\ box \in ListBox /\ DOMAIN box.first = 0 .. box.n - 1 /\ Placed(box)
      /\ InUse(box) \in Nat /\ InUse(box) > 0 /\ InUse(box) <= box.n
      /\ InUse(box) \in {box.n, box.room} /\ box.n \in Nat /\ box.room \in Nat \ {0}
      /\ box.scroll \in Int /\ box.choice \in 0 .. InUse(box) - 1
      /\ box.rows = Page(box.scroll, InUse(box), box.choice) /\ box.choice \in Int
  BY Known
<1>2. CASE box.room > 1
  <2>1. off = Draw([box EXCEPT !.choice = box.choice], Cursor(box), box.choice, FALSE)
    BY <1>1 DEF ListBox
  <2>2. Darkly(off) /\ InUse(off) = InUse(box) /\ off.n = box.n /\ off.scroll = box.scroll
        /\ off.choice = box.choice
    BY <1>1, <2>1, DarkenedList
  <2> HIDE DEF off
  <2>3. Darkly(Scrolled(off, d)) /\ Scrolled(off, d).choice = box.choice
    BY <2>2, ScrolledList
  <2>4. box' = Draw(Scrolled(off, d), Scrolled(off, d).scroll + box.choice, box.choice, TRUE)
    BY <1>2 DEF Rolled, off
  <2>5. QED
    BY <2>3, <2>4, LightedList
<1>3. CASE ~(box.room > 1)
  <2>1. InUse(box) = 1 /\ box.choice = 0
    BY <1>1, <1>3, InUseOf
  <2>2. box' = Draw(one, one.scroll + 0, 0, TRUE)
    BY <1>3, <2>1 DEF Rolled
  <2>3. /\ one \in ListBox /\ one.n = box.n /\ one.first = box.first /\ one.room = box.room
        /\ one.scroll = box.scroll + d /\ one.choice = 0 /\ one.rows = box.rows
    BY <1>1, <2>1 DEF ListBox
  <2>e. box.scroll + d \in Int /\ box.scroll + d + 0 = box.scroll + d /\ box.scroll \in Int /\ 0 \in Int
    BY <1>1
  <2> HIDE DEF one
  <2> DEFINE rows == [box.rows EXCEPT ![0] = Row(box.scroll + d, TRUE)]
  <2>f. one.scroll + 0 = box.scroll + d
    BY <2>3, <2>e
  <2>4. box' = [one EXCEPT !.rows = rows]
    BY <2>2, <2>3, <2>f DEF Draw
  <2>5. box.rows \in [0 .. 1 - 1 -> Rows]
    <3>1. box.rows = Page(box.scroll, 1, 0)
      BY <1>1, <2>1
    <3>2. Page(box.scroll, 1, 0) \in [0 .. 1 - 1 -> Rows]
      BY <2>e, PageType
    <3>3. QED
      BY <3>1, <3>2
  <2>9. rows = Page(box.scroll + d, 1, 0)
    BY <2>e, <2>5, OneRow
  <2> HIDE DEF rows
  <2>7. rows \in [0 .. 1 - 1 -> Rows]
    BY <2>9, <2>e, PageType
  <2>10. rows \in UNION {[0 .. u - 1 -> Rows] : u \in Nat}
    BY <2>7
  <2>11. /\ box' \in ListBox /\ box'.n = box.n /\ box'.first = box.first /\ box'.room = box.room
         /\ box'.scroll = box.scroll + d /\ box'.choice = 0 /\ box'.rows = rows /\ box'.kind = "list"
    BY <2>3, <2>4, <2>10 DEF ListBox
  <2>12. InUse(box') = 1
    BY <2>1, <2>11 DEF InUse
  <2>13. InStep(box')
    BY <2>9, <2>11, <2>12 DEF InStep, InUse
  <2>14. QED
    BY <1>1, <2>1, <2>11, <2>12, <2>13 DEF ListInv, Placed, IsList
<1>4. QED
  BY <1>2, <1>3

LEMMA UpInv == ASSUME ListInv, KeyUp PROVE ListInv'
<1>1. /\ IsList(box) /\ box.choice \in 0 .. InUse(box) - 1 /\ InUse(box) \in Nat /\ box.n \in Nat
      /\ box.scroll \in 0 .. box.n - InUse(box)
  BY Known DEF KeyUp
<1>2. CASE box.choice # 0
  <2>1. box' = Highlighted(box, box.choice - 1) /\ box.choice - 1 \in 0 .. InUse(box) - 1
    BY <1>1, <1>2 DEF KeyUp
  <2>2. QED
    BY <1>1, <2>1, HighlightedInv
<1>3. CASE box.choice = 0
  <2>1. box' = Rolled(box, -1, box.choice) /\ box.scroll # 0
    BY <1>3 DEF KeyUp
  <2>2. -1 \in Int /\ box.scroll + (-1) \in 0 .. box.n - InUse(box)
    BY <1>1, <2>1
  <2>3. QED
    BY <1>1, <2>1, <2>2, RolledInv
<1>4. QED
  BY <1>2, <1>3

LEMMA DownInv == ASSUME ListInv, KeyDown PROVE ListInv'
<1>1. /\ IsList(box) /\ box.choice \in 0 .. InUse(box) - 1 /\ InUse(box) \in Nat /\ box.n \in Nat
      /\ box.scroll \in 0 .. box.n - InUse(box) /\ Cursor(box) = box.scroll + box.choice
  BY Known DEF KeyDown
<1>2. CASE box.choice # InUse(box) - 1
  <2>1. box' = Highlighted(box, box.choice + 1) /\ box.choice + 1 \in 0 .. InUse(box) - 1
    BY <1>1, <1>2 DEF KeyDown
  <2>2. QED
    BY <1>1, <2>1, HighlightedInv
<1>3. CASE box.choice = InUse(box) - 1
  <2>1. box' = Rolled(box, 1, box.choice) /\ Cursor(box) < box.n - 1
    BY <1>3 DEF KeyDown
  <2>2. box.scroll + 1 \in 0 .. box.n - InUse(box)
    BY <1>1, <1>3, <2>1
  <2>3. QED
    BY <1>1, <2>1, <2>2, RolledInv
<1>4. QED
  BY <1>2, <1>3

LEMMA LetterInv == ASSUME ListInv, NEW l \in Letter, KeyLetter(l) PROVE ListInv'
<1> DEFINE hits == RowsWith(box, l)
           row == CHOOSE r \in hits : \A q \in hits : r <= q
<1>1. IsList(box) /\ hits # {} /\ box' = Highlighted(box, row)
  BY DEF KeyLetter
<1>2. InUse(box) \in Nat /\ \A r \in hits : r \in 0 .. InUse(box) - 1
  BY <1>1, Known DEF RowsWith
<1>3. hits \in SUBSET Nat
  BY <1>2
<1> HIDE DEF hits
<1>4. \E r \in hits : \A q \in hits : r <= q
  BY <1>1, <1>3, LeastRow
<1>5. row \in 0 .. InUse(box) - 1
  BY <1>2, <1>4
<1> HIDE DEF row
<1>6. QED
  BY <1>1, <1>5, HighlightedInv

LEMMA ResizedInv == ASSUME ListInv, KeyResize PROVE ListInv'
<1>1. IsList(box) /\ box' = Layout(box)
  BY DEF KeyResize
<1>2. /\ box \in ListBox /\ DOMAIN box.first = 0 .. box.n - 1 /\ Placed(box)
      /\ box.choice \in 0 .. InUse(box) - 1 /\ InUse(box) \in Nat /\ InUse(box) <= box.n /\ box.n \in Nat
  BY <1>1, Known
<1>3. box.choice \in 0 .. box.n - 1
  BY <1>2
<1>4. box' \in ListBox /\ box'.n = box.n /\ box'.first = box.first /\ Placed(box') /\ InStep(box')
  BY <1>1, <1>2, <1>3, LayoutPlaced
<1>5. box'.kind = "list"
  BY <1>4 DEF ListBox
<1>6. QED
  BY <1>2, <1>4, <1>5 DEF ListInv, IsList, Placed, InUse, InStep

LEMMA ListStep == ASSUME ListAssumption, ListInv, [Next]_box PROVE ListInv'
<1>1. ASSUME KeyButton PROVE ListInv'
  <2>1. /\ IsList(box) /\ box \in ListBox /\ DOMAIN box.first = 0 .. box.n - 1
        /\ Placed(box) /\ InStep(box)
    BY <1>1 DEF ListInv, KeyButton
  <2>2. box' = [box EXCEPT !.button = 1 - box.button] /\ 1 - box.button \in Int
    BY <1>1, <2>1 DEF KeyButton, ListBox
  <2>3. /\ box' \in ListBox /\ box'.n = box.n /\ box'.first = box.first
        /\ box'.room = box.room /\ box'.scroll = box.scroll
        /\ box'.choice = box.choice /\ box'.rows = box.rows /\ box'.kind = "list"
    BY <2>1, <2>2 DEF ListBox
  <2>4. QED
    BY <2>1, <2>3 DEF ListInv, IsList, Placed, InStep, InUse
<1>2. ASSUME KeyEnter \/ KeyEscape \/ KeyHelp PROVE ListInv'
  <2>1. box'.kind = "answered"
    BY <1>2 DEF KeyEnter, KeyEscape, KeyHelp, Answered
  <2>2. QED
    BY <2>1 DEF ListInv, IsList
<1>3. CASE UNCHANGED box
  BY <1>3 DEF ListInv, IsList, Placed, InStep, InUse
<1>4. QED
  BY <1>1, <1>2, <1>3, Opened, ResizedInv, UpInv, DownInv, LetterInv DEF Next

(* The highlighted row is the item that an answer selects, and the rows are   *)
(* those of the list, for lists of every length in windows of every height.   *)
THEOREM ListShown ==
  ASSUME ListAssumption
  PROVE  Spec => []ListIsSelected
<1>1. ListInv => ListIsSelected
  BY DEF ListInv, ListIsSelected, Placed
<1>2. QED
  BY <1>1, ListInit, ListStep, PTL DEF Spec
=============================================================================
