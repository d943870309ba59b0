--------------------------- MODULE ConsoleProofs ---------------------------
(***************************************************************************)
(* Proofs about module Console, for a screen of any size, a prompt of any  *)
(* length and text without end.                                            *)
(*                                                                         *)
(* TextInv relates the driver to the text: Cursor says where row, start_row *)
(* and move_row are for a text of n rows that took h at most, Shows what   *)
(* each cell of the ring holds.  The proof goes character by character:    *)
(* FoldLeft is unfolded into the states between the characters (PrintfPuts), *)
(* each of which satisfies Follows for the text printed so far.            *)
(***************************************************************************)
EXTENDS Console, TLAPS, WellFoundedInduction, SequenceTheorems

\* Every non-empty set of naturals has a least element: an induction that fails
\* fails first somewhere.
LEMMA LeastNatural ==
  ASSUME NEW T \in SUBSET Nat, T # {}
  PROVE  \E x \in T : \A y \in T : x <= y
<1>1. \E x \in T : \A y \in T : ~ (<<y, x>> \in OpToRel(<, Nat))
  BY WFMin, NatLessThanWellFounded, Zenon
<1>2. PICK x \in T : \A y \in T : ~ (<<y, x>> \in OpToRel(<, Nat))
  BY <1>1, Zenon
<1>3. \A y \in T : ~ (y < x)
  BY <1>2, Zenon DEF OpToRel
<1>4. QED
  BY <1>3

-----------------------------------------------------------------------------
(* The invariant. *)

Cells == Chars \cup {Space}

VgaType ==
  [buf : [Row -> [Col -> Cells]], row : 0 .. 255, col : 0 .. WIDTH, start_row : Row,
   move_row : 0 .. 255, stray : BOOLEAN, lost : BOOLEAN]

\* The cursor of a text of n rows that took h at most: as long as the display has
\* not scrolled it is in the last row; later it is h - n rows above the bottom.
Cursor(s, n, h) ==
  /\ h <= HEIGHT => s.start_row = 0 /\ s.move_row = 0 /\ n = h /\ s.row = h - 1
  /\ h > HEIGHT /\ s.start_row = 0 => n = h /\ s.move_row = 0 /\ s.row = HEIGHT - 1
  /\ h > HEIGHT /\ s.start_row > 0 =>
       /\ h - n < s.start_row
       /\ s.row = s.start_row - 1 - (h - n)
       /\ s.move_row = s.start_row - (h - n)
  /\ h = HEIGHT + 1 => s.start_row = 1

\* The row of the text that ring row q is for.
TextRow(s, h, q) ==
  IF h <= HEIGHT THEN q + 1
  ELSE IF q < s.start_row THEN q + 1 + h - s.start_row
  ELSE q + 1 + h - s.start_row - HEIGHT

\* What is to be in column c of ring row q, for a text with rows P: after the first
\* scroll the row at the top is blank.
Due(s, P, n, h, q, c) ==
  IF TextRow(s, h, q) <= n /\ ~(h > HEIGHT /\ q = s.start_row) THEN P[TextRow(s, h, q)][c] ELSE Space

\* The cells no one has cleared.
Uncleared(s, n, h, q, c) == h = HEIGHT + 1 /\ TextRow(s, h, q) = n /\ c >= s.col

Shows(s, P, n, h) ==
  \A q \in Row, c \in Col : s.buf[q][c] = Due(s, P, n, h, q, c) \/ Uncleared(s, n, h, q, c)

\* The rows of the text, those no longer remembered left blank.
Page(rws, g, l) ==
  [j \in Nat \ {0} |-> IF j <= g THEN BlankRow
                       ELSE IF j <= g + Len(rws) THEN rws[j - g]
                       ELSE RowOf(l, j - (g + Len(rws)) - 1)]

\* Line l takes e rows, and the driver has followed the text.
Follows(s, rws, g, l, h, e) ==
  /\ Len(l) = WIDTH * (e - 1) + s.col
  /\ g + Len(rws) + e <= h
  /\ Cursor(s, g + Len(rws) + e, h)
  /\ Shows(s, Page(rws, g, l), g + Len(rws) + e, h)
  /\ ~s.stray

TextTypes(rws, g, l, h) ==
  /\ rws \in Seq([Col -> Cells]) /\ Len(rws) <= HEIGHT
  /\ g \in Nat /\ (g > 0 => Len(rws) = HEIGHT)
  /\ l \in Seq(Chars)
  /\ h \in Nat \ {0}

\* The driver's fields have their types, the display is the ring as flushed, and
\* unless the cursor is lost the driver follows the text.
TextInv ==
  /\ vga \in VgaType /\ vram = VGA_flush(vga)
  /\ TextTypes(rows, gone, line, high)
  /\ ~vga.lost => \E e \in Nat \ {0} : Follows(vga, rows, gone, line, high, e)

ConsoleInv == TextInv /\ typed \in Nat

-----------------------------------------------------------------------------
(* printf's characters, one at a time. *)

\* The greatest element of a set of positions.
LEMMA MaxOfPositions ==
  ASSUME NEW m \in Nat, NEW S \in SUBSET (1 .. m), S # {}
  PROVE  Max(S) \in S /\ \A y \in S : Max(S) >= y
<1>1. PICK T \in SUBSET Nat : T = {n \in Nat : m - n \in S}
  <2>1. {n \in Nat : m - n \in S} \in SUBSET Nat
    OBVIOUS
  <2> QED
    BY <2>1
<1>2. T # {}
  <2>1. PICK y \in S : TRUE
    OBVIOUS
  <2>2. y \in 1 .. m
    OBVIOUS
  <2>3. m - y \in Nat /\ m - (m - y) = y
    BY <2>2
  <2> QED
    BY <1>1, <2>1, <2>3
<1>3. PICK n \in T : \A k \in T : n <= k
  BY <1>2, LeastNatural
<1>4. m - n \in S
  BY <1>1, <1>3
<1>5. ASSUME NEW y \in S PROVE m - n >= y
  <2>1. y \in 1 .. m
    OBVIOUS
  <2>2. m - y \in Nat /\ m - (m - y) = y /\ n \in Nat
    BY <2>1, <1>1, <1>3
  <2>3. m - y \in T
    BY <1>1, <2>2
  <2> QED
    BY <1>3, <2>1, <2>2, <2>3
<1>6. \E x \in S : \A y \in S : x >= y
  BY <1>4, <1>5
<1> QED
  BY <1>6 DEF Max

\* f is what FoldLeft iterates over the sets of positions up to m.
Iterates(f, b, str, m) ==
  f = [s \in SUBSET (1 .. m) |-> IF s = {} THEN b ELSE VGA_putc(f[s \ {Max(s)}], str[Max(s)])]

LEMMA FoldIterates ==
  ASSUME NEW b, NEW str, NEW n \in Nat, DOMAIN str = 1 .. n
  PROVE  FoldLeft(VGA_putc, b, str) = (CHOOSE f : Iterates(f, b, str, n))[1 .. n]
  BY Zenon DEF FoldLeft, MapThenFoldSet, Iterates

LEMMA IterationExists ==
  ASSUME NEW b, NEW str, NEW n \in Nat
  PROVE  \E f : Iterates(f, b, str, n)
<1> SUFFICES ASSUME ~ \E f : Iterates(f, b, str, n)
             PROVE  FALSE
  OBVIOUS
<1>1. PICK T \in SUBSET Nat : T = {m \in Nat : ~ \E f : Iterates(f, b, str, m)}
  <2>1. {m \in Nat : ~ \E f : Iterates(f, b, str, m)} \in SUBSET Nat
    OBVIOUS
  <2> QED
    BY <2>1
<1>2. n \in T
  BY <1>1
<1>3. PICK m \in T : \A k \in T : m <= k
  BY <1>2, LeastNatural
<1>4. m # 0
  <2>1. SUBSET (1 .. 0) = {{}}
    <3>1. 1 .. 0 = {}
      OBVIOUS
    <3> QED
      BY <3>1
  <2>2. PICK g : g = [s \in {{}} |-> b]
    OBVIOUS
  <2>3. g = [s \in {{}} |-> IF s = {} THEN b ELSE VGA_putc(g[s \ {Max(s)}], str[Max(s)])]
    BY <2>2
  <2>4. Iterates(g, b, str, 0)
    BY <2>1, <2>3 DEF Iterates
  <2> QED
    BY <1>1, <1>3, <2>4
<1>5. PICK p \in Nat : m = p + 1
  <2>1. m \in Nat /\ m - 1 \in Nat /\ m = (m - 1) + 1
    BY <1>1, <1>3, <1>4
  <2> QED
    BY <2>1
<1>6. PICK f : Iterates(f, b, str, p)
  <2>1. p \notin T
    BY <1>3, <1>5
  <2> QED
    BY <1>1, <2>1
<1>7. PICK g : g = [s \in SUBSET (1 .. p + 1) |->
                     IF p + 1 \in s THEN VGA_putc(f[s \ {p + 1}], str[p + 1]) ELSE f[s]]
  OBVIOUS
<1>8. ASSUME NEW s \in SUBSET (1 .. p + 1)
      PROVE  g[s] = IF s = {} THEN b ELSE VGA_putc(g[s \ {Max(s)}], str[Max(s)])
  <2>1. CASE p + 1 \in s
    <3>1. Max(s) = p + 1
      <4>1. p + 1 \in Nat /\ s # {}
        BY <2>1
      <4>2. Max(s) \in s /\ \A y \in s : Max(s) >= y
        BY <4>1, MaxOfPositions
      <4>3. Max(s) \in 1 .. p + 1 /\ Max(s) >= p + 1
        BY <2>1, <4>2
      <4> QED
        BY <4>3
    <3>2. s \ {p + 1} \in SUBSET (1 .. p) /\ s \ {p + 1} \in SUBSET (1 .. p + 1)
      OBVIOUS
    <3>3. g[s \ {p + 1}] = f[s \ {p + 1}]
      BY <1>7, <3>2
    <3> QED
      BY <1>7, <2>1, <3>1, <3>3
  <2>2. CASE p + 1 \notin s
    <3>1. s \in SUBSET (1 .. p)
      BY <2>2
    <3>2. g[s] = f[s]
      BY <1>7, <2>2
    <3>3. f[s] = IF s = {} THEN b ELSE VGA_putc(f[s \ {Max(s)}], str[Max(s)])
      BY <1>6, <3>1, Zenon DEF Iterates
    <3>4. s # {} => g[s \ {Max(s)}] = f[s \ {Max(s)}]
      <4>1. s \ {Max(s)} \in SUBSET (1 .. p + 1) /\ p + 1 \notin s \ {Max(s)}
        BY <2>2
      <4> QED
        BY <1>7, <4>1
    <3> QED
      BY <3>2, <3>3, <3>4
  <2> QED
    BY <2>1, <2>2
<1>9. g = [s \in SUBSET (1 .. p + 1) |-> g[s]]
  BY <1>7
<1>10. Iterates(g, b, str, p + 1)
  BY <1>8, <1>9 DEF Iterates
<1> QED
  BY <1>1, <1>3, <1>5, <1>10

\* The driver's states while it is given the characters of str, one by one.
Puts(h, b, str, n) ==
  /\ h = [k \in 0 .. n |-> h[k]]
  /\ h[0] = b
  /\ \A k \in 1 .. n : h[k] = VGA_putc(h[k - 1], str[k])

\* printf puts one character after the other.
LEMMA PrintfPuts ==
  ASSUME NEW b, NEW str, NEW n \in Nat, DOMAIN str = 1 .. n
  PROVE  \E h : Puts(h, b, str, n) /\ FoldLeft(VGA_putc, b, str) = h[n]
<1>1. PICK f : f = CHOOSE g : Iterates(g, b, str, n)
  OBVIOUS
<1>2. Iterates(f, b, str, n)
  BY <1>1, IterationExists, Zenon
<1>3. \A s \in SUBSET (1 .. n) : f[s] = IF s = {} THEN b ELSE VGA_putc(f[s \ {Max(s)}], str[Max(s)])
  BY <1>2, Zenon DEF Iterates
<1>4. PICK h : h = [k \in 0 .. n |-> f[1 .. k]]
  OBVIOUS
<1>5. h[0] = b
  <2>1. 1 .. 0 = {} /\ {} \in SUBSET (1 .. n)
    OBVIOUS
  <2>2. f[{}] = b
    BY <1>3, <2>1
  <2> QED
    BY <1>4, <2>1, <2>2
<1>6. ASSUME NEW k \in 1 .. n PROVE h[k] = VGA_putc(h[k - 1], str[k])
  <2>1. 1 .. k \in SUBSET (1 .. n) /\ k \in 1 .. k /\ 1 .. k # {}
    <3>1. \A j \in 1 .. k : j \in 1 .. n
      OBVIOUS
    <3>2. k \in 1 .. k
      OBVIOUS
    <3> QED
      BY <3>1, <3>2, Zenon
  <2>2. Max(1 .. k) = k
    <3>1. Max(1 .. k) \in 1 .. k /\ Max(1 .. k) >= k
      BY <2>1, MaxOfPositions
    <3> QED
      BY <3>1
  <2>3. (1 .. k) \ {k} = 1 .. k - 1
    OBVIOUS
  <2>4. f[1 .. k] = VGA_putc(f[1 .. k - 1], str[k])
    BY <1>3, <2>1, <2>2, <2>3
  <2>5. h[k] = f[1 .. k] /\ h[k - 1] = f[1 .. k - 1]
    BY <1>4
  <2> QED
    BY <2>4, <2>5
<1>7. FoldLeft(VGA_putc, b, str) = h[n]
  <2>1. h[n] = f[1 .. n]
    BY <1>4
  <2> QED
    BY <1>1, <2>1, FoldIterates
<1>8. h = [k \in 0 .. n |-> h[k]]
  BY <1>4
<1>9. Puts(h, b, str, n)
  BY <1>5, <1>6, <1>8 DEF Puts
<1> QED
  BY <1>7, <1>9

-----------------------------------------------------------------------------
(* What the driver's operations do to its fields. *)

LEMMA Sizes ==
  /\ WIDTH \in Nat /\ 2 <= WIDTH /\ WIDTH <= 255
  /\ HEIGHT \in Nat /\ 2 <= HEIGHT /\ HEIGHT <= 255
  /\ Row = 0 .. HEIGHT - 1 /\ Col = 0 .. WIDTH - 1
  BY ConsoleAssumption DEF Row, Col

LEMMA Blanks == BlankRow \in [Col -> Cells] /\ \A c \in Col : BlankRow[c] = Space
  BY DEF BlankRow, Cells

LEMMA Printable == \A c \in Chars : c # NewLine /\ c # Backspace /\ c \in Cells
  BY ConsoleAssumption DEF Cells, NewLine, Backspace

\* Row numbers count round the ring.
LEMMA RingNext ==
  /\ \A x \in Nat : x % HEIGHT \in Row
  /\ \A x \in Row : (x + 1) % HEIGHT = IF x = HEIGHT - 1 THEN 0 ELSE x + 1
  BY Sizes

LEMMA Bytes ==
  /\ \A x \in Int : uint8(x) \in 0 .. 255
  /\ \A x \in 0 .. 255 : uint8(x) = x
  BY DEF uint8

\* The fields of a driver state.
LEMMA Fields ==
  ASSUME NEW s \in VgaType
  PROVE  /\ s.buf \in [Row -> [Col -> Cells]] /\ s.row \in 0 .. 255 /\ s.col \in 0 .. WIDTH
         /\ s.start_row \in Row /\ s.move_row \in 0 .. 255
         /\ s.stray \in BOOLEAN /\ s.lost \in BOOLEAN
  BY ZenonT(60) DEF VgaType

LEMMA ClearLineDoes ==
  ASSUME NEW s \in VgaType, NEW t, t = VGA_clear_line(s)
  PROVE  /\ t \in VgaType /\ t.buf = [s.buf EXCEPT ![s.start_row] = BlankRow]
         /\ t.row = s.row /\ t.col = s.col /\ t.start_row = s.start_row
         /\ t.move_row = s.move_row /\ t.stray = s.stray /\ t.lost = s.lost
<1>1. PICK b \in [Row -> [Col -> Cells]] : b = [s.buf EXCEPT ![s.start_row] = BlankRow]
  <2>1. s.buf \in [Row -> [Col -> Cells]] /\ s.start_row \in Row
    BY Fields
  <2>2. [s.buf EXCEPT ![s.start_row] = BlankRow] \in [Row -> [Col -> Cells]]
    BY <2>1, Blanks
  <2> QED
    BY <2>2
<1>2. t = [s EXCEPT !.buf = b]
  BY <1>1, Zenon DEF VGA_clear_line
<1> QED
  BY <1>1, <1>2, ZenonT(60) DEF VgaType

LineFed(s, t) ==
  /\ t.row = (s.row + 1) % HEIGHT /\ t.col = 0 /\ t.stray = s.stray /\ t.lost = s.lost
  /\ \/ /\ s.start_row = 0 /\ t.row # 0
        /\ t.buf = s.buf /\ t.start_row = s.start_row /\ t.move_row = s.move_row
     \/ /\ s.start_row > 0 \/ t.row = 0
        /\ t.buf = [s.buf EXCEPT ![t.start_row] = BlankRow]
        /\ \/ /\ s.move_row = s.start_row
              /\ t.start_row = (s.start_row + 1) % HEIGHT /\ t.move_row = t.start_row
           \/ /\ s.move_row # s.start_row
              /\ t.start_row = s.start_row /\ t.move_row = uint8(s.move_row + 1)

LEMMA LineFeedDoes ==
  ASSUME NEW s \in VgaType
  PROVE  LineFeed(s) \in VgaType /\ LineFed(s, LineFeed(s))
<1> DEFINE r == (s.row + 1) % HEIGHT
           nx == (s.start_row + 1) % HEIGHT
           up == uint8(s.move_row + 1)
<1>1. /\ s.buf \in [Row -> [Col -> Cells]] /\ s.row \in 0 .. 255 /\ s.col \in 0 .. WIDTH
      /\ s.start_row \in Row /\ s.move_row \in 0 .. 255
      /\ s.stray \in BOOLEAN /\ s.lost \in BOOLEAN
  BY Fields
<1>2. /\ r \in Row /\ r \in 0 .. 255 /\ nx \in Row /\ nx \in 0 .. 255 /\ up \in 0 .. 255
      /\ 0 \in 0 .. WIDTH /\ (s.start_row > 0 \/ s.start_row = 0)
  <2>1. s.start_row \in Nat
    BY <1>1, Sizes
  <2>2. s.row + 1 \in Nat /\ s.start_row + 1 \in Nat /\ s.move_row + 1 \in Int
    BY <1>1, <2>1
  <2>3. r \in Row /\ nx \in Row /\ up \in 0 .. 255
    BY <2>2, RingNext, Bytes
  <2>4. \A x \in Row : x \in 0 .. 255
    BY Sizes
  <2>5. 0 \in 0 .. WIDTH
    BY Sizes
  <2> QED
    BY <2>1, <2>3, <2>4, <2>5
<1> HIDE DEF r, nx, up
<1>3. PICK u : u = [s EXCEPT !.row = r, !.col = 0]
  OBVIOUS
<1>4. /\ u \in VgaType /\ u.buf = s.buf /\ u.row = r /\ u.col = 0 /\ u.start_row = s.start_row
      /\ u.move_row = s.move_row /\ u.stray = s.stray /\ u.lost = s.lost
  BY <1>2, <1>3, ZenonT(60) DEF VgaType
<1>5. LineFeed(s) = IF u.start_row > 0 \/ u.row = 0 THEN VGA_clear_line(Scroll(u)) ELSE u
  BY <1>3, Zenon DEF LineFeed, r
<1>6. CASE ~(s.start_row > 0 \/ r = 0)
  <2>1. LineFeed(s) = u
    BY <1>4, <1>5, <1>6
  <2> QED
    BY <1>2, <1>4, <1>6, <2>1 DEF LineFed, r
<1>7. CASE (s.start_row > 0 \/ r = 0) /\ s.move_row = s.start_row
  <2>1. PICK v : v = [u EXCEPT !.start_row = nx, !.move_row = nx]
    OBVIOUS
  <2>2. LineFeed(s) = VGA_clear_line(v)
    BY <1>4, <1>5, <1>7, <2>1 DEF nx, Scroll
  <2>3. /\ v \in VgaType /\ v.buf = s.buf /\ v.row = r /\ v.col = 0 /\ v.start_row = nx
        /\ v.move_row = nx /\ v.stray = s.stray /\ v.lost = s.lost
    <3>1. u \in VgaType /\ nx \in Row /\ nx \in 0 .. 255
      BY <1>2, <1>4
    <3>2. v \in VgaType
      BY <2>1, <3>1, ZenonT(60) DEF VgaType
    <3>3. /\ v.buf = u.buf /\ v.row = u.row /\ v.col = u.col /\ v.start_row = nx
          /\ v.move_row = nx /\ v.stray = u.stray /\ v.lost = u.lost
      BY <1>4, <2>1, ZenonT(60) DEF VgaType
    <3> QED
      BY <1>4, <3>2, <3>3
  <2>4. PICK t : t = VGA_clear_line(v)
    OBVIOUS
  <2>5. /\ t \in VgaType /\ t.buf = [s.buf EXCEPT ![nx] = BlankRow] /\ t.row = r /\ t.col = 0
        /\ t.start_row = nx /\ t.move_row = nx /\ t.stray = s.stray /\ t.lost = s.lost
    BY <1>1, <1>2, <2>3, <2>4, ClearLineDoes
  <2>6. LineFed(s, t)
    BY <1>7, <2>5 DEF LineFed, r, nx
  <2> QED
    BY <2>2, <2>4, <2>5, <2>6
<1>8. CASE (s.start_row > 0 \/ r = 0) /\ s.move_row # s.start_row
  <2>1. PICK v : v = [u EXCEPT !.move_row = up]
    OBVIOUS
  <2>2. LineFeed(s) = VGA_clear_line(v)
    BY <1>4, <1>5, <1>8, <2>1 DEF up, Scroll
  <2>3. /\ v \in VgaType /\ v.buf = s.buf /\ v.row = r /\ v.col = 0 /\ v.start_row = s.start_row
        /\ v.move_row = up /\ v.stray = s.stray /\ v.lost = s.lost
    <3>1. v.buf = u.buf /\ v.row = u.row /\ v.col = u.col /\ v.start_row = u.start_row /\ v.move_row = up
          /\ v.stray = u.stray /\ v.lost = u.lost
      BY <1>4, <2>1 DEF VgaType
    <3>2. u \in VgaType /\ up \in 0 .. 255
      BY <1>2, <1>4
    <3>3. v \in VgaType
      BY <2>1, <3>2, ZenonT(60) DEF VgaType
    <3> QED
      BY <1>4, <3>1, <3>3
  <2>4. PICK t : t = VGA_clear_line(v)
    OBVIOUS
  <2>5. /\ t \in VgaType /\ t.buf = [s.buf EXCEPT ![s.start_row] = BlankRow] /\ t.row = r /\ t.col = 0
        /\ t.start_row = s.start_row /\ t.move_row = up /\ t.stray = s.stray /\ t.lost = s.lost
    BY <1>1, <1>2, <2>3, <2>4, ClearLineDoes
  <2>6. LineFed(s, t)
    BY <1>8, <2>5 DEF LineFed, r, up
  <2> QED
    BY <2>2, <2>4, <2>5, <2>6
<1> QED
  BY <1>6, <1>7, <1>8

-----------------------------------------------------------------------------
(* The driver and a page of n rows, h at most. *)

At(s, P, n, h) == Cursor(s, n, h) /\ Shows(s, P, n, h) /\ ~s.stray /\ n <= h

\* Everything is as it is due.
Clear(s, P, n, h) == \A q \in Row, c \in Col : s.buf[q][c] = Due(s, P, n, h, q, c)

Larger(x, y) == IF y > x THEN y ELSE x

\* Row j of P is blank, or blank from a column on.
BlankFrom(P, j, col) == \A c \in Col : c >= col => P[j][c] = Space
BlankAt(P, j) == \A c \in Col : P[j][c] = Space

\* Up to row n, P2 differs from P in one cell.
Changes(P, P2, n, col, ch) ==
  \A j \in 1 .. n, c \in Col : P2[j][c] = IF j = n /\ c = col THEN ch ELSE P[j][c]

\* The driver gets from s to t, with page P.
Reaches(s, t, P, n, h, col) == t \in VgaType /\ At(t, P, n, h) /\ t.col = col /\ t.lost = s.lost

\* Where a line feed takes the cursor.
LEMMA FeedCursor ==
  ASSUME NEW s \in VgaType, NEW n \in Nat \ {0}, NEW h \in Nat \ {0}, n <= h, Cursor(s, n, h),
         NEW t \in VgaType, LineFed(s, t)
  PROVE  /\ Cursor(t, n + 1, Larger(h, n + 1))
         /\ \/ n < h /\ h > HEIGHT /\ t.start_row = s.start_row /\ t.buf = [s.buf EXCEPT ![t.start_row] = BlankRow]
            \/ n = h /\ h < HEIGHT /\ t.start_row = s.start_row /\ t.buf = s.buf
            \/ /\ n = h /\ h >= HEIGHT
               /\ t.start_row = (IF s.start_row = HEIGHT - 1 THEN 0 ELSE s.start_row + 1)
               /\ t.buf = [s.buf EXCEPT ![t.start_row] = BlankRow]
<1>1. s.row \in 0 .. 255 /\ s.start_row \in Row /\ s.move_row \in 0 .. 255
  BY Fields
<1>2. s.row \in Row
  BY <1>1, Sizes DEF Cursor
<1>3. t.row = IF s.row = HEIGHT - 1 THEN 0 ELSE s.row + 1
  BY <1>2, RingNext DEF LineFed
<1>4. (s.start_row + 1) % HEIGHT = IF s.start_row = HEIGHT - 1 THEN 0 ELSE s.start_row + 1
  BY <1>1, RingNext
<1>5. s.move_row < 255 => uint8(s.move_row + 1) = s.move_row + 1
  <2>1. s.move_row < 255 => s.move_row + 1 \in 0 .. 255
    BY <1>1
  <2> QED
    BY <2>1, Bytes
<1>6. CASE n < h
  <2>1. /\ h > HEIGHT /\ s.start_row > 0 /\ s.move_row # s.start_row /\ s.move_row < 255
        /\ s.row = s.start_row - 1 - (h - n) /\ s.move_row = s.start_row - (h - n)
        /\ h - n < s.start_row /\ h # HEIGHT + 1
    BY <1>1, <1>6, Sizes DEF Cursor
  <2>2. t.start_row = s.start_row /\ t.move_row = s.move_row + 1 /\ t.row = s.row + 1
        /\ t.buf = [s.buf EXCEPT ![t.start_row] = BlankRow]
    BY <1>1, <1>3, <1>5, <2>1, Sizes, SMTT(40) DEF LineFed
  <2>3. Larger(h, n + 1) = h
    BY <1>6 DEF Larger
  <2>4. Cursor(t, n + 1, h)
    BY <1>1, <1>6, <2>1, <2>2, Sizes DEF Cursor
  <2> QED
    BY <1>6, <2>1, <2>2, <2>3, <2>4
<1>7. CASE n = h /\ h < HEIGHT
  <2>1. s.start_row = 0 /\ s.move_row = 0 /\ s.row = h - 1
    BY <1>7, Sizes DEF Cursor
  <2>2. t.start_row = 0 /\ t.move_row = 0 /\ t.row = h /\ t.buf = s.buf
    BY <1>3, <1>7, <2>1, Sizes DEF LineFed
  <2>3. Larger(h, n + 1) = h + 1
    BY <1>7 DEF Larger
  <2>4. Cursor(t, n + 1, h + 1)
    BY <1>7, <2>2, Sizes DEF Cursor
  <2> QED
    BY <1>7, <2>1, <2>2, <2>3, <2>4
<1>8. CASE n = h /\ h >= HEIGHT
  <2>1. /\ s.move_row = s.start_row
        /\ s.row = IF s.start_row = 0 THEN HEIGHT - 1 ELSE s.start_row - 1
        /\ h = HEIGHT => s.start_row = 0
        /\ h = HEIGHT + 1 => s.start_row = 1
    BY <1>1, <1>8, Sizes DEF Cursor
  <2>2. t.row = s.start_row
    BY <1>1, <1>3, <2>1, Sizes
  <2>3. /\ t.start_row = (IF s.start_row = HEIGHT - 1 THEN 0 ELSE s.start_row + 1)
        /\ t.move_row = t.start_row /\ t.buf = [s.buf EXCEPT ![t.start_row] = BlankRow]
    BY <1>1, <1>4, <2>1, <2>2, Sizes DEF LineFed
  <2>4. Larger(h, n + 1) = h + 1
    BY <1>8 DEF Larger
  <2>5. Cursor(t, n + 1, h + 1)
    BY <1>1, <1>8, <2>1, <2>2, <2>3, Sizes DEF Cursor
  <2> QED
    BY <1>8, <2>3, <2>4, <2>5
<1>9. n < h \/ (n = h /\ h < HEIGHT) \/ (n = h /\ h >= HEIGHT)
  BY Sizes
<1> QED
  BY <1>6, <1>7, <1>8, <1>9


\* A line feed from a page on which everything is as due brings in a blank row.
LEMMA FeedShows ==
  ASSUME NEW s \in VgaType, NEW n \in Nat \ {0}, NEW h \in Nat \ {0}, n <= h, Cursor(s, n, h),
         NEW P, Clear(s, P, n, h), BlankAt(P, n + 1),
         NEW t \in VgaType, LineFed(s, t)
  PROVE  Shows(t, P, n + 1, Larger(h, n + 1))
<1> SUFFICES ASSUME NEW q \in Row, NEW c \in Col
             PROVE  \/ t.buf[q][c] = Due(t, P, n + 1, Larger(h, n + 1), q, c)
                    \/ Uncleared(t, n + 1, Larger(h, n + 1), q, c)
  BY DEF Shows
<1>1. /\ s.buf \in [Row -> [Col -> Cells]] /\ s.start_row \in Row /\ t.start_row \in Row
      /\ q \in Nat /\ q < HEIGHT /\ c \in Nat /\ s.start_row \in Nat /\ t.start_row \in Nat
      /\ s.start_row < HEIGHT /\ t.start_row < HEIGHT
  BY Fields, Sizes
<1>2. s.buf[q][c] = Due(s, P, n, h, q, c)
  BY DEF Clear
<1>3. t.col = 0
  BY DEF LineFed
<1>4. P[n + 1][c] = Space /\ BlankRow[c] = Space
  BY Blanks DEF BlankAt
<1>5. CASE n < h /\ h > HEIGHT /\ t.start_row = s.start_row /\ t.buf = [s.buf EXCEPT ![t.start_row] = BlankRow]
  <2>1. Larger(h, n + 1) = h
    BY <1>5 DEF Larger
  <2>2. PICK k \in Int : TextRow(s, h, q) = k /\ TextRow(t, h, q) = k
    BY <1>1, <1>5, Sizes DEF TextRow
  <2>3. t.buf[q][c] = IF q = t.start_row THEN Space ELSE s.buf[q][c]
    BY <1>1, <1>4, <1>5
  <2>4. k <= n + 1 <=> k <= n \/ k = n + 1
    BY <2>2
  <2> QED
    BY <1>2, <1>4, <1>5, <2>1, <2>2, <2>3, <2>4 DEF Due
<1>6. CASE n = h /\ h < HEIGHT /\ t.start_row = s.start_row /\ t.buf = s.buf
  <2>1. Larger(h, n + 1) = h + 1 /\ h + 1 <= HEIGHT /\ ~(h > HEIGHT) /\ ~(h + 1 > HEIGHT) /\ h <= HEIGHT
    BY <1>6, Sizes DEF Larger
  <2>2. TextRow(s, h, q) = q + 1 /\ TextRow(t, h + 1, q) = q + 1
    BY <1>6, <2>1 DEF TextRow
  <2>3. q + 1 <= n + 1 <=> q + 1 <= n \/ q + 1 = n + 1
    BY <1>1
  <2> QED
    BY <1>2, <1>4, <1>6, <2>1, <2>2, <2>3 DEF Due
<1>7. CASE /\ n = h /\ h >= HEIGHT
           /\ t.start_row = (IF s.start_row = HEIGHT - 1 THEN 0 ELSE s.start_row + 1)
           /\ t.buf = [s.buf EXCEPT ![t.start_row] = BlankRow]
  <2>1. Larger(h, n + 1) = h + 1 /\ h + 1 > HEIGHT
    BY <1>7, Sizes DEF Larger
  <2>2. t.buf[q][c] = IF q = t.start_row THEN Space ELSE s.buf[q][c]
    BY <1>1, <1>4, <1>7
  <2>3. CASE q = t.start_row
    BY <2>1, <2>2, <2>3 DEF Due
  <2>4. CASE q # t.start_row /\ q = s.start_row
    <3>1. TextRow(t, h + 1, q) = n + 1
      <4>1. s.start_row = HEIGHT - 1 => h > HEIGHT
        BY <1>7, Sizes DEF Cursor
      <4> QED
        BY <1>1, <1>7, <2>1, <2>4, Sizes DEF TextRow
    <3>2. CASE h = HEIGHT
      BY <1>1, <1>3, <2>1, <3>1, <3>2, Sizes DEF Uncleared
    <3>3. CASE h > HEIGHT
      <4>1. s.buf[q][c] = Space
        BY <1>2, <2>4, <3>3 DEF Due
      <4> QED
        BY <1>4, <2>1, <2>2, <2>4, <3>1, <4>1 DEF Due
    <3> QED
      BY <1>7, <3>2, <3>3, Sizes
  <2>5. CASE q # t.start_row /\ q # s.start_row
    <3>1. h = HEIGHT => s.start_row = 0
      BY <1>7, Sizes DEF Cursor
    <3>2. PICK k \in Int : TextRow(s, h, q) = k /\ TextRow(t, h + 1, q) = k /\ k <= n
      <4>1. CASE h = HEIGHT
        <5>1. TextRow(s, h, q) = q + 1 /\ TextRow(t, h + 1, q) = q + 1
          BY <1>1, <1>7, <2>1, <2>5, <3>1, <4>1, Sizes DEF TextRow
        <5> QED
          BY <1>1, <1>7, <4>1, <5>1
      <4>2. CASE h > HEIGHT /\ q < s.start_row
        <5>1. TextRow(s, h, q) = q + 1 + h - s.start_row
          BY <4>2, Sizes DEF TextRow
        <5>2. TextRow(t, h + 1, q) = q + 1 + h - s.start_row
          BY <1>1, <1>7, <2>1, <2>5, <4>2, Sizes DEF TextRow
        <5> QED
          BY <1>1, <1>7, <4>2, <5>1, <5>2
      <4>3. CASE h > HEIGHT /\ ~(q < s.start_row)
        <5>1. TextRow(s, h, q) = q + 1 + h - s.start_row - HEIGHT
          BY <4>3, Sizes DEF TextRow
        <5>2. TextRow(t, h + 1, q) = q + 1 + h - s.start_row - HEIGHT
          <6>1. t.start_row = s.start_row + 1 /\ ~(q < t.start_row) /\ ~(h + 1 <= HEIGHT)
            BY <1>1, <1>7, <2>1, <2>5, <4>3, Sizes
          <6>2. TextRow(t, h + 1, q) = q + 1 + (h + 1) - t.start_row - HEIGHT
            BY <6>1 DEF TextRow
          <6> QED
            BY <1>1, <6>1, <6>2, Sizes
        <5> QED
          BY <1>1, <1>7, <4>3, <5>1, <5>2, Sizes
      <4> QED
        BY <1>7, <4>1, <4>2, <4>3, Sizes
    <3>3. k <= n + 1
      BY <3>2
    <3> QED
      BY <1>2, <2>1, <2>2, <2>5, <3>2, <3>3 DEF Due
  <2> QED
    BY <2>3, <2>4, <2>5
<1>8. \/ n < h /\ h > HEIGHT /\ t.start_row = s.start_row /\ t.buf = [s.buf EXCEPT ![t.start_row] = BlankRow]
      \/ n = h /\ h < HEIGHT /\ t.start_row = s.start_row /\ t.buf = s.buf
      \/ /\ n = h /\ h >= HEIGHT
         /\ t.start_row = (IF s.start_row = HEIGHT - 1 THEN 0 ELSE s.start_row + 1)
         /\ t.buf = [s.buf EXCEPT ![t.start_row] = BlankRow]
  BY FeedCursor, Zenon
<1> QED
  BY <1>5, <1>6, <1>7, <1>8

\* A line feed starts the next row of the page.
LEMMA Feeds ==
  ASSUME NEW s \in VgaType, NEW n \in Nat \ {0}, NEW h \in Nat \ {0}, NEW P, At(s, P, n, h),
         Clear(s, P, n, h) \/ s.col = WIDTH, BlankAt(P, n + 1)
  PROVE  Reaches(s, LineFeed(s), P, n + 1, Larger(h, n + 1), 0)
<1>1. PICK t : t = LineFeed(s)
  OBVIOUS
<1>2. t \in VgaType /\ LineFed(s, t)
  BY <1>1, LineFeedDoes
<1>3. n <= h /\ Cursor(s, n, h) /\ Shows(s, P, n, h) /\ ~s.stray
  BY DEF At
<1>4. Clear(s, P, n, h)
  <2> SUFFICES ASSUME s.col = WIDTH PROVE Clear(s, P, n, h)
    OBVIOUS
  <2>1. \A c \in Col : ~(c >= s.col)
    BY Sizes
  <2> QED
    BY <1>3, <2>1 DEF Clear, Shows, Uncleared
<1>5. Cursor(t, n + 1, Larger(h, n + 1))
  BY <1>2, <1>3, FeedCursor
<1>6. Shows(t, P, n + 1, Larger(h, n + 1))
  BY <1>2, <1>3, <1>4, FeedShows
<1>7. n + 1 <= Larger(h, n + 1)
  BY DEF Larger
<1>8. t.col = 0 /\ t.lost = s.lost /\ ~t.stray
  BY <1>2, <1>3 DEF LineFed
<1> QED
  BY <1>1, <1>2, <1>5, <1>6, <1>7, <1>8 DEF At, Reaches

\* The ring row of the cursor is the one for the last row of the page, and no other is.
LEMMA CursorAt ==
  ASSUME NEW s \in VgaType, NEW n \in Nat \ {0}, NEW h \in Nat \ {0}, n <= h, Cursor(s, n, h)
  PROVE  /\ s.row \in Row
         /\ \A q \in Row : TextRow(s, h, q) = n <=> q = s.row
         /\ ~(h > HEIGHT /\ s.row = s.start_row)
<1>1. s.row \in 0 .. 255 /\ s.start_row \in Nat /\ s.start_row < HEIGHT
  BY Fields, Sizes
<1>2. s.row \in Row /\ ~(h > HEIGHT /\ s.row = s.start_row)
  BY <1>1, Sizes, SMTT(40) DEF Cursor
<1>3. ASSUME NEW q \in Row PROVE TextRow(s, h, q) = n <=> q = s.row
  <2>1. q \in Nat /\ q < HEIGHT
    BY Sizes
  <2>2. CASE h <= HEIGHT
    <3>1. n = h /\ s.row = h - 1
      BY <2>2 DEF Cursor
    <3>2. TextRow(s, h, q) = q + 1
      BY <2>2 DEF TextRow
    <3> QED
      BY <2>1, <3>1, <3>2
  <2>3. CASE h > HEIGHT /\ s.start_row = 0
    <3>1. n = h /\ s.row = HEIGHT - 1
      BY <2>3 DEF Cursor
    <3>2. TextRow(s, h, q) = q + 1 + h - HEIGHT
      BY <2>1, <2>3, Sizes DEF TextRow
    <3> QED
      BY <2>1, <3>1, <3>2, Sizes
  <2>4. CASE h > HEIGHT /\ s.start_row > 0
    <3>1. s.row = s.start_row - 1 - (h - n) /\ h - n < s.start_row
      BY <2>4 DEF Cursor
    <3>2. CASE q < s.start_row
      <4>1. TextRow(s, h, q) = q + 1 + h - s.start_row
        BY <2>1, <2>4, <3>2, Sizes DEF TextRow
      <4> QED
        BY <1>1, <2>1, <3>1, <4>1
    <3>3. CASE ~(q < s.start_row)
      <4>1. TextRow(s, h, q) = q + 1 + h - s.start_row - HEIGHT
        BY <2>1, <2>4, <3>3, Sizes DEF TextRow
      <4> QED
        BY <1>1, <2>1, <3>1, <3>3, <4>1, Sizes, SMTT(40)
    <3> QED
      BY <3>2, <3>3
  <2> QED
    BY <1>1, <2>2, <2>3, <2>4, Sizes
<1> QED
  BY <1>2, <1>3

LEMMA BlankRestDoes ==
  ASSUME NEW s \in VgaType, s.row \in Row
  PROVE  /\ BlankRest(s) \in VgaType
         /\ \A q \in Row, c \in Col :
              BlankRest(s).buf[q][c] = IF q = s.row /\ c >= s.col THEN Space ELSE s.buf[q][c]
         /\ BlankRest(s).row = s.row /\ BlankRest(s).col = s.col
         /\ BlankRest(s).start_row = s.start_row /\ BlankRest(s).move_row = s.move_row
         /\ BlankRest(s).stray = s.stray /\ BlankRest(s).lost = s.lost
<1>1. s.buf \in [Row -> [Col -> Cells]]
  BY Fields
<1>2. PICK w \in [Col -> Cells] : w = [c \in Col |-> IF c >= s.col THEN Space ELSE s.buf[s.row][c]]
  <2>1. \A c \in Col : (IF c >= s.col THEN Space ELSE s.buf[s.row][c]) \in Cells
    BY <1>1 DEF Cells
  <2>2. [c \in Col |-> IF c >= s.col THEN Space ELSE s.buf[s.row][c]] \in [Col -> Cells]
    BY <2>1
  <2> QED
    BY <2>2
<1>3. PICK b \in [Row -> [Col -> Cells]] : b = [s.buf EXCEPT ![s.row] = w]
  <2>1. [s.buf EXCEPT ![s.row] = w] \in [Row -> [Col -> Cells]]
    BY <1>1, <1>2
  <2> QED
    BY <2>1
<1>4. \A q \in Row, c \in Col : b[q][c] = IF q = s.row /\ c >= s.col THEN Space ELSE s.buf[q][c]
  BY <1>1, <1>2, <1>3
<1>5. PICK t : t = [s EXCEPT !.buf = b]
  OBVIOUS
<1>6. BlankRest(s) = t
  BY <1>2, <1>3, <1>5, Zenon DEF BlankRest
<1>7. /\ t \in VgaType /\ t.buf = b
      /\ t.row = s.row /\ t.col = s.col /\ t.start_row = s.start_row /\ t.move_row = s.move_row
      /\ t.stray = s.stray /\ t.lost = s.lost
  BY <1>5, ZenonT(60) DEF VgaType
<1> QED
  BY <1>4, <1>6, <1>7

\* A newline blanks the rest of its row: everything is as due.
LEMMA Blanked ==
  ASSUME NEW s \in VgaType, NEW n \in Nat \ {0}, NEW h \in Nat \ {0}, NEW P, At(s, P, n, h),
         BlankFrom(P, n, s.col)
  PROVE  Reaches(s, BlankRest(s), P, n, h, s.col) /\ Clear(BlankRest(s), P, n, h)
<1>1. PICK t : t = BlankRest(s)
  OBVIOUS
<1>2. n <= h /\ Cursor(s, n, h) /\ Shows(s, P, n, h) /\ ~s.stray
  BY DEF At
<1>3. /\ s.row \in Row
      /\ \A q \in Row : TextRow(s, h, q) = n <=> q = s.row
      /\ ~(h > HEIGHT /\ s.row = s.start_row)
  BY <1>2, CursorAt
<1>4. /\ t \in VgaType
      /\ \A q \in Row, c \in Col : t.buf[q][c] = IF q = s.row /\ c >= s.col THEN Space ELSE s.buf[q][c]
      /\ t.row = s.row /\ t.col = s.col /\ t.start_row = s.start_row /\ t.move_row = s.move_row
      /\ t.stray = s.stray /\ t.lost = s.lost
  BY <1>1, <1>3, BlankRestDoes
<1>5. Cursor(t, n, h)
  BY <1>2, <1>4 DEF Cursor
<1>6. ASSUME NEW q \in Row, NEW c \in Col PROVE t.buf[q][c] = Due(t, P, n, h, q, c)
  <2>1. TextRow(t, h, q) = TextRow(s, h, q)
    BY <1>4 DEF TextRow
  <2>2. CASE q = s.row /\ c >= s.col
    <3>1. Due(t, P, n, h, q, c) = P[n][c]
      BY <1>3, <1>4, <2>1, <2>2 DEF Due
    <3> QED
      BY <1>4, <2>2, <3>1 DEF BlankFrom
  <2>3. CASE ~(q = s.row /\ c >= s.col)
    <3>1. ~Uncleared(s, n, h, q, c)
      BY <1>3, <2>3 DEF Uncleared
    <3>2. s.buf[q][c] = Due(s, P, n, h, q, c)
      BY <1>2, <3>1 DEF Shows
    <3> QED
      BY <1>4, <2>1, <2>3, <3>2 DEF Due
  <2> QED
    BY <2>2, <2>3
<1> QED
  BY <1>1, <1>2, <1>4, <1>5, <1>6 DEF At, Clear, Shows, Reaches

\* A character goes into the last row of the page.
LEMMA PutsInRow ==
  ASSUME NEW s \in VgaType, NEW n \in Nat \ {0}, NEW h \in Nat \ {0}, NEW P, At(s, P, n, h),
         s.col # WIDTH, NEW ch \in Cells, NEW P2, Changes(P, P2, n, s.col, ch),
         NEW t, t = [VGA_set(s, s.row, s.col, ch) EXCEPT !.col = @ + 1]
  PROVE  Reaches(s, t, P2, n, h, s.col + 1)
<1>1. n <= h /\ Cursor(s, n, h) /\ Shows(s, P, n, h) /\ ~s.stray
  BY DEF At
<1>2. /\ s.row \in Row
      /\ \A q \in Row : TextRow(s, h, q) = n <=> q = s.row
      /\ ~(h > HEIGHT /\ s.row = s.start_row)
  BY <1>1, CursorAt
<1>3. s.buf \in [Row -> [Col -> Cells]] /\ s.col \in Col /\ s.col \in Nat /\ s.col + 1 \in 0 .. WIDTH
  BY Fields, Sizes
<1>4. PICK b \in [Row -> [Col -> Cells]] : b = [s.buf EXCEPT ![s.row][s.col] = ch]
  <2>1. [s.buf EXCEPT ![s.row][s.col] = ch] \in [Row -> [Col -> Cells]]
    BY <1>2, <1>3
  <2> QED
    BY <2>1
<1>5. PICK k \in 0 .. WIDTH : k = s.col + 1
  BY <1>3
<1>6. PICK u : u = [s EXCEPT !.buf = b]
  OBVIOUS
<1>7. VGA_set(s, s.row, s.col, ch) = u
  BY <1>2, <1>4, <1>6, Zenon DEF VGA_set
<1>8. /\ u \in VgaType /\ u.buf = b
      /\ u.row = s.row /\ u.col = s.col /\ u.start_row = s.start_row /\ u.move_row = s.move_row
      /\ u.stray = s.stray /\ u.lost = s.lost
  BY <1>6, ZenonT(60) DEF VgaType
<1>9. t = [u EXCEPT !.col = k]
  BY <1>5, <1>7, <1>8
<1>10. /\ t \in VgaType /\ t.buf = b
       /\ t.row = s.row /\ t.col = k /\ t.start_row = s.start_row /\ t.move_row = s.move_row
       /\ t.stray = s.stray /\ t.lost = s.lost
  BY <1>8, <1>9, ZenonT(60) DEF VgaType
<1>11. Cursor(t, n, h)
  BY <1>1, <1>10 DEF Cursor
<1>12. ASSUME NEW q \in Row, NEW c \in Col
       PROVE  t.buf[q][c] = Due(t, P2, n, h, q, c) \/ Uncleared(t, n, h, q, c)
  <2>1. TextRow(t, h, q) = TextRow(s, h, q)
    BY <1>10 DEF TextRow
  <2>2. t.buf[q][c] = IF q = s.row /\ c = s.col THEN ch ELSE s.buf[q][c]
    BY <1>2, <1>3, <1>4, <1>10
  <2>3. CASE q = s.row /\ c = s.col
    <3>1. Due(t, P2, n, h, q, c) = P2[n][c]
      BY <1>2, <1>10, <2>1, <2>3 DEF Due
    <3> QED
      BY <2>2, <2>3, <3>1 DEF Changes
  <2>4. CASE ~(q = s.row /\ c = s.col)
    <3>1. Uncleared(s, n, h, q, c) => Uncleared(t, n, h, q, c)
      <4>1. c \in Nat
        BY Sizes
      <4>2. TextRow(s, h, q) = n /\ c >= s.col => c >= k
        <5>1. TextRow(s, h, q) = n => c # s.col
          BY <1>2, <2>4
        <5>2. c # s.col /\ c >= s.col => c >= k
          <6>1. \A x, y \in Nat : x # y /\ x >= y => x >= y + 1
            OBVIOUS
          <6> QED
            BY <1>3, <1>5, <4>1, <6>1
        <5> QED
          BY <5>1, <5>2
      <4> QED
        BY <1>10, <2>1, <4>2 DEF Uncleared
    <3>2. Due(t, P2, n, h, q, c) = Due(s, P, n, h, q, c)
      <4>1. CASE TextRow(s, h, q) <= n /\ ~(h > HEIGHT /\ q = s.start_row)
        <5>1. TextRow(s, h, q) \in 1 .. n
          <6>1. q \in Nat /\ q < HEIGHT /\ s.start_row \in Nat /\ s.start_row < HEIGHT
            BY Fields, Sizes
          <6>2. TextRow(s, h, q) \in Int /\ TextRow(s, h, q) >= 1
            <7>1. CASE h <= HEIGHT
              BY <6>1, <7>1 DEF TextRow
            <7>2. CASE ~(h <= HEIGHT) /\ q < s.start_row
              <8>1. TextRow(s, h, q) = q + 1 + h - s.start_row
                BY <7>2 DEF TextRow
              <8> QED
                BY <6>1, <7>2, <8>1, Sizes
            <7>3. CASE ~(h <= HEIGHT) /\ ~(q < s.start_row)
              <8>1. TextRow(s, h, q) = q + 1 + h - s.start_row - HEIGHT
                BY <7>3 DEF TextRow
              <8> QED
                BY <6>1, <7>3, <8>1, Sizes, SMTT(40)
            <7> QED
              BY <7>1, <7>2, <7>3
          <6> QED
            BY <4>1, <6>2
        <5>2. P2[TextRow(s, h, q)][c] = P[TextRow(s, h, q)][c]
          BY <1>2, <2>4, <5>1 DEF Changes
        <5> QED
          BY <1>10, <2>1, <4>1, <5>2 DEF Due
      <4>2. CASE ~(TextRow(s, h, q) <= n /\ ~(h > HEIGHT /\ q = s.start_row))
        BY <1>10, <2>1, <4>2 DEF Due
      <4> QED
        BY <4>1, <4>2
    <3> QED
      BY <1>1, <2>2, <2>4, <3>1, <3>2 DEF Shows
  <2> QED
    BY <2>3, <2>4
<1> QED
  BY <1>1, <1>5, <1>10, <1>11, <1>12 DEF At, Shows, Reaches

\* An erasure that is not lost goes one column back, from the left margin of a blank
\* row to the right margin of the row above.
LEMMA GoesBack ==
  ASSUME NEW s \in VgaType, NEW n \in Nat \ {0}, NEW h \in Nat \ {0}, NEW P, At(s, P, n, h),
         s.col # WIDTH, s.col = 0 => BlankAt(P, n),
         NEW t, t = GoBack(s), ~t.lost
  PROVE  /\ t \in VgaType /\ ~s.lost
         /\ s.col = 0 => t.col = WIDTH - 1 /\ n > 1 /\ At(t, P, n - 1, h)
         /\ s.col # 0 => t.col = s.col - 1 /\ At(t, P, n, h)
<1>1. n <= h /\ Cursor(s, n, h) /\ Shows(s, P, n, h) /\ ~s.stray
  BY DEF At
<1>2. /\ s.buf \in [Row -> [Col -> Cells]] /\ s.row \in 0 .. 255 /\ s.col \in 0 .. WIDTH
      /\ s.start_row \in Nat /\ s.start_row < HEIGHT /\ s.move_row \in 0 .. 255
      /\ s.stray \in BOOLEAN /\ s.lost \in BOOLEAN
  BY Fields, Sizes
<1>3. CASE s.col # 0
  <2>1. PICK k \in 0 .. WIDTH : k = s.col - 1
    <3>1. s.col - 1 \in 0 .. WIDTH
      BY <1>2, <1>3, Sizes
    <3> QED
      BY <3>1
  <2>2. t = [s EXCEPT !.col = k]
    BY <1>3, <2>1 DEF GoBack
  <2>3. /\ t \in VgaType /\ t.buf = s.buf
        /\ t.row = s.row /\ t.col = k /\ t.start_row = s.start_row /\ t.move_row = s.move_row
        /\ t.stray = s.stray /\ t.lost = s.lost
    BY <2>2, ZenonT(60) DEF VgaType
  <2>4. Cursor(t, n, h)
    BY <1>1, <2>3 DEF Cursor
  <2>5. ASSUME NEW q \in Row, NEW c \in Col
        PROVE  t.buf[q][c] = Due(t, P, n, h, q, c) \/ Uncleared(t, n, h, q, c)
    <3>1. TextRow(t, h, q) = TextRow(s, h, q)
      BY <2>3 DEF TextRow
    <3>2. Due(t, P, n, h, q, c) = Due(s, P, n, h, q, c)
      BY <2>3, <3>1 DEF Due
    <3>3. c >= s.col => c >= k
      BY <1>2, <2>1, Sizes
    <3>4. Uncleared(s, n, h, q, c) => Uncleared(t, n, h, q, c)
      BY <2>3, <3>1, <3>3 DEF Uncleared
    <3> QED
      BY <1>1, <2>3, <3>2, <3>4 DEF Shows
  <2> QED
    BY <1>1, <1>3, <2>1, <2>3, <2>4, <2>5 DEF At, Shows
<1>4. CASE s.col = 0
  <2>1. PICK k \in 0 .. WIDTH, r \in 0 .. 255, m \in 0 .. 255, x \in BOOLEAN :
          /\ k = WIDTH - 1 /\ r = uint8(s.row - 1) /\ m = uint8(s.move_row - 1)
          /\ x = (s.lost \/ Disorients(s))
    <3>1. WIDTH - 1 \in 0 .. WIDTH
      BY Sizes
    <3>2. s.row - 1 \in Int /\ s.move_row - 1 \in Int
      BY <1>2
    <3>3. uint8(s.row - 1) \in 0 .. 255 /\ uint8(s.move_row - 1) \in 0 .. 255
      BY <3>2, Bytes
    <3>4. (s.lost \/ Disorients(s)) \in BOOLEAN
      OBVIOUS
    <3> QED
      BY <3>1, <3>3, <3>4, Zenon
  <2>2. t = [s EXCEPT !.col = k, !.row = r, !.move_row = m, !.lost = x]
    BY <1>4, <2>1, Zenon DEF GoBack
  <2>3. t \in VgaType
    <3>1. PICK u : u = [s EXCEPT !.col = k, !.row = r]
      OBVIOUS
    <3>2. u \in VgaType
      BY <3>1, ZenonT(60) DEF VgaType
    <3>3. [u EXCEPT !.move_row = m, !.lost = x] \in VgaType
      BY <3>2, ZenonT(60) DEF VgaType
    <3> QED
      BY <2>2, <3>1, <3>3
  <2>4. /\ t.buf = s.buf
        /\ t.row = r /\ t.col = k /\ t.start_row = s.start_row /\ t.move_row = m
        /\ t.stray = s.stray /\ t.lost = x
    BY <2>1, <2>2, ZenonT(60) DEF VgaType
  <2>5. ~s.lost /\ ~Disorients(s)
    BY <2>1, <2>4
  <2>6. s.row > 0 /\ s.start_row > 0
    BY <1>2, <1>4, <2>5 DEF Disorients
  <2>7. /\ h > HEIGHT /\ h # HEIGHT + 1 /\ h - n < s.start_row - 1
        /\ s.row = s.start_row - 1 - (h - n) /\ s.move_row = s.start_row - (h - n)
    BY <1>1, <1>2, <2>6, Sizes DEF Cursor
  <2>8. n - 1 \in Nat \ {0} /\ n > 1
    BY <1>2, <2>7, Sizes
  <2>9. r = s.row - 1 /\ m = s.move_row - 1
    <3>1. s.row - 1 \in 0 .. 255 /\ s.move_row - 1 \in 0 .. 255
      BY <1>2, <2>6, <2>7
    <3> QED
      BY <2>1, <3>1, Bytes
  <2>10. Cursor(t, n - 1, h)
    BY <1>2, <2>4, <2>6, <2>7, <2>9, Sizes, SMTT(40) DEF Cursor
  <2>11. ASSUME NEW q \in Row, NEW c \in Col
         PROVE  t.buf[q][c] = Due(t, P, n - 1, h, q, c)
    <3>1. TextRow(t, h, q) = TextRow(s, h, q)
      BY <2>4 DEF TextRow
    <3>2. TextRow(s, h, q) \in Int
      <4>1. q \in Nat
        BY Sizes
      <4> QED
        <5>1. /\ q + 1 \in Int /\ q + 1 + h - s.start_row \in Int
              /\ q + 1 + h - s.start_row - HEIGHT \in Int
          BY <1>2, <4>1, Sizes, SMTT(40)
        <5> QED
          BY <5>1 DEF TextRow
    <3>3. s.buf[q][c] = Due(s, P, n, h, q, c)
      BY <1>1, <2>7 DEF Shows, Uncleared
    <3>4. TextRow(s, h, q) <= n <=> TextRow(s, h, q) <= n - 1 \/ TextRow(s, h, q) = n
      BY <3>2
    <3> HIDE DEF TextRow
    <3> QED
      BY <1>4, <2>4, <3>1, <3>3, <3>4 DEF Due, BlankAt
  <2>12. n - 1 <= h
    BY <1>1
  <2> QED
    BY <1>1, <1>4, <2>1, <2>3, <2>4, <2>5, <2>8, <2>10, <2>11, <2>12 DEF At, Shows
<1> QED
  BY <1>3, <1>4

\* Whatever the state, the driver's fields keep their types and a lost cursor is not found again.
LEMMA PutcKeeps ==
  ASSUME NEW s \in VgaType, NEW ch \in Cells \cup {NewLine, Backspace}
  PROVE  VGA_putc(s, ch) \in VgaType /\ (s.lost => VGA_putc(s, ch).lost)
<1>1. ASSUME NEW u \in VgaType PROVE LineFeed(u) \in VgaType /\ LineFeed(u).lost = u.lost
  BY LineFeedDoes DEF LineFed
<1>2. ASSUME NEW u \in VgaType PROVE BlankRest(u) \in VgaType /\ BlankRest(u).lost = u.lost
  <2>1. CASE u.row \in Row
    BY <2>1, BlankRestDoes
  <2>2. CASE u.row \notin Row
    <3>1. BlankRest(u) = [u EXCEPT !.stray = TRUE]
      BY <2>2, Zenon DEF BlankRest
    <3> QED
      BY <3>1, ZenonT(60) DEF VgaType
  <2> QED
    BY <2>1, <2>2
<1>3. ASSUME NEW u \in VgaType PROVE GoBack(u) \in VgaType /\ (u.lost => GoBack(u).lost)
  <2>1. u.row \in Int /\ u.move_row \in Int /\ u.col \in 0 .. WIDTH /\ u.lost \in BOOLEAN
    BY Fields, SMTT(40)
  <2>2. CASE u.col # 0
    <3>1. PICK k \in 0 .. WIDTH : k = u.col - 1
      <4>1. u.col - 1 \in 0 .. WIDTH
        BY <2>1, <2>2, Sizes
      <4> QED
        BY <4>1
    <3>2. GoBack(u) = [u EXCEPT !.col = k]
      BY <2>2, <3>1 DEF GoBack
    <3> QED
      BY <3>1, <3>2, ZenonT(60) DEF VgaType
  <2>3. CASE u.col = 0
    <3>1. PICK k \in 0 .. WIDTH, r \in 0 .. 255, m \in 0 .. 255, x \in BOOLEAN :
            /\ k = WIDTH - 1 /\ r = uint8(u.row - 1) /\ m = uint8(u.move_row - 1)
            /\ x = (u.lost \/ Disorients(u))
      <4>1. WIDTH - 1 \in 0 .. WIDTH
        BY Sizes
      <4>2. u.row - 1 \in Int /\ u.move_row - 1 \in Int
        BY <2>1
      <4>3. uint8(u.row - 1) \in 0 .. 255 /\ uint8(u.move_row - 1) \in 0 .. 255
        BY <4>2, Bytes
      <4>4. (u.lost \/ Disorients(u)) \in BOOLEAN
        OBVIOUS
      <4> QED
        BY <4>1, <4>3, <4>4, Zenon
    <3>2. GoBack(u) = [u EXCEPT !.col = k, !.row = r, !.move_row = m, !.lost = x]
      BY <2>3, <3>1, Zenon DEF GoBack
    <3>3. PICK v : v = [u EXCEPT !.col = k, !.row = r]
      OBVIOUS
    <3>4. v \in VgaType
      BY <3>3, ZenonT(60) DEF VgaType
    <3>5. [v EXCEPT !.move_row = m, !.lost = x] \in VgaType /\ [v EXCEPT !.move_row = m, !.lost = x].lost = x
      BY <3>4, ZenonT(60) DEF VgaType
    <3> QED
      BY <3>1, <3>2, <3>3, <3>5
  <2> QED
    BY <2>2, <2>3
<1>4. ASSUME NEW u \in VgaType, u.col # WIDTH, NEW d \in Cells, NEW v,
             v = [VGA_set(u, u.row, u.col, d) EXCEPT !.col = @ + 1]
      PROVE  v \in VgaType /\ v.lost = u.lost
  <2>1. u.buf \in [Row -> [Col -> Cells]] /\ u.col \in Col /\ u.col + 1 \in 0 .. WIDTH
    BY <1>4, Fields, Sizes
  <2>2. PICK k \in 0 .. WIDTH : k = u.col + 1
    BY <2>1
  <2>3. PICK w : w = VGA_set(u, u.row, u.col, d)
    OBVIOUS
  <2>4. w \in VgaType /\ w.col = u.col /\ w.lost = u.lost
    <3>1. CASE u.row \in Row
      <4>1. PICK b \in [Row -> [Col -> Cells]] : b = [u.buf EXCEPT ![u.row][u.col] = d]
        <5>1. [u.buf EXCEPT ![u.row][u.col] = d] \in [Row -> [Col -> Cells]]
          BY <2>1, <3>1
        <5> QED
          BY <5>1
      <4>2. w = [u EXCEPT !.buf = b]
        BY <2>3, <3>1, <4>1, Zenon DEF VGA_set
      <4> QED
        BY <4>2, ZenonT(60) DEF VgaType
    <3>2. CASE u.row \notin Row
      <4>1. w = [u EXCEPT !.stray = TRUE]
        BY <2>3, <3>2, Zenon DEF VGA_set
      <4> QED
        BY <4>1, ZenonT(60) DEF VgaType
    <3> QED
      BY <3>1, <3>2
  <2>5. v = [w EXCEPT !.col = k]
    BY <1>4, <2>2, <2>3, <2>4
  <2> QED
    BY <2>4, <2>5, ZenonT(60) DEF VgaType
<1>5. PICK t : t = IF s.col = WIDTH THEN LineFeed(s) ELSE s
  OBVIOUS
<1>6. t \in VgaType /\ t.lost = s.lost /\ t.col # WIDTH
  <2>1. CASE s.col = WIDTH
    <3>1. t \in VgaType /\ t.lost = s.lost /\ t.col = 0
      BY <1>5, <2>1, LineFeedDoes DEF LineFed
    <3> QED
      BY <3>1, Sizes
  <2> QED
    BY <1>5, <2>1
<1>7. CASE ch = NewLine
  <2>1. VGA_putc(s, ch) = LineFeed(BlankRest(t))
    BY <1>5, <1>7 DEF VGA_putc, NewLine, Backspace
  <2> QED
    BY <1>1, <1>2, <1>6, <2>1
<1>8. CASE ch = Backspace
  <2>1. VGA_putc(s, ch) = GoBack(t)
    BY <1>5, <1>8 DEF VGA_putc, NewLine, Backspace
  <2> QED
    BY <1>3, <1>6, <2>1
<1>9. CASE ch \in Cells /\ ch # NewLine /\ ch # Backspace
  <2>1. VGA_putc(s, ch) = [VGA_set(t, t.row, t.col, ch) EXCEPT !.col = @ + 1]
    BY <1>5, <1>9 DEF VGA_putc
  <2> QED
    BY <1>4, <1>6, <1>9, <2>1
<1> QED
  BY <1>7, <1>8, <1>9

\* A number is a multiple of WIDTH and a column in one way.
LEMMA DivUnique ==
  ASSUME NEW a \in Nat, NEW b \in Nat, NEW c \in Col, NEW d \in Col, a * WIDTH + c = b * WIDTH + d
  PROVE  a = b /\ c = d
<1>1. c \in Nat /\ d \in Nat /\ c < WIDTH /\ d < WIDTH /\ WIDTH \in Nat
  BY Sizes
<1>2. ASSUME NEW x \in Nat, NEW y \in Nat, x < y PROVE x * WIDTH + WIDTH <= y * WIDTH
  <2>1. PICK z \in Nat : y = x + 1 + z
    <3>1. y - x - 1 \in Nat /\ y = x + 1 + (y - x - 1)
      BY <1>2
    <3> QED
      BY <3>1
  <2>2. y * WIDTH = x * WIDTH + WIDTH + z * WIDTH /\ z * WIDTH \in Nat
    BY <1>1, <2>1
  <2> QED
    BY <1>1, <2>2
<1>3. a * WIDTH \in Nat /\ b * WIDTH \in Nat
  BY <1>1
<1>4. ~(a < b)
  BY <1>1, <1>2, <1>3
<1>5. ~(b < a)
  BY <1>1, <1>2, <1>3
<1>6. a = b
  BY <1>4, <1>5
<1> QED
  BY <1>1, <1>3, <1>6

LEMMA DivIs ==
  ASSUME NEW a \in Nat, NEW c \in Col, NEW m, m = WIDTH * a + c
  PROVE  m \div WIDTH = a
<1>1. c \in Nat /\ WIDTH \in Nat \ {0}
  BY Sizes
<1>2. PICK w \in Nat \ {0} : w = WIDTH
  BY <1>1
<1>3. PICK k \in Nat : k = m
  BY <1>1
<1>4. k \div w \in Nat /\ k % w \in 0 .. w - 1
  OBVIOUS
<1>5. (k \div w) * w + (k % w) = k
  OBVIOUS
<1>6. PICK q \in Nat, r \in Col : q = m \div WIDTH /\ q * WIDTH + r = m
  <2>1. k % w \in Col
    BY <1>2, <1>4, Sizes
  <2> QED
    BY <1>2, <1>3, <1>4, <1>5, <2>1
<1>7. a * WIDTH + c = q * WIDTH + r
  BY <1>1, <1>6
<1>8. a = q
  BY <1>7, DivUnique
<1> QED
  BY <1>6, <1>8

-----------------------------------------------------------------------------
(* The text as a page. *)

\* The position of a cell in its line.
Place(k, c) == k * WIDTH + c

LEMMA Places ==
  ASSUME NEW k \in Nat, NEW c \in Col
  PROVE  /\ Place(k, c) \in Nat
         /\ \A j \in Nat, d \in Col : Place(k, c) = Place(j, d) => k = j /\ c = d
         /\ Place(k, c) >= WIDTH * k
         /\ Place(k + 1, c) = Place(k, c) + WIDTH
<1>1. c \in Nat /\ WIDTH \in Nat
  BY Sizes
<1>2. Place(k, c) \in Nat /\ Place(k, c) >= WIDTH * k /\ Place(k + 1, c) = Place(k, c) + WIDTH
  <2>1. k * WIDTH \in Nat /\ k * WIDTH = WIDTH * k /\ (k + 1) * WIDTH = k * WIDTH + WIDTH
    BY <1>1
  <2> QED
    BY <1>1, <2>1 DEF Place
<1>3. \A j \in Nat, d \in Col : Place(k, c) = Place(j, d) => k = j /\ c = d
  BY DivUnique DEF Place
<1> QED
  BY <1>2, <1>3

\* Row k of line l on the page, column c.
InLine(rws, g, l, k, c) ==
  Page(rws, g, l)[g + Len(rws) + (k + 1)][c] = IF Place(k, c) < Len(l) THEN l[Place(k, c) + 1] ELSE Space

LEMMA LineCell ==
  ASSUME NEW rws \in Seq([Col -> Cells]), NEW g \in Nat, NEW l \in Seq(Cells), NEW k \in Nat, NEW c \in Col
  PROVE  InLine(rws, g, l, k, c)
<1>1. PICK m \in Nat : m = Len(rws)
  OBVIOUS
<1>2. PICK j \in Nat \ {0} : /\ j = g + Len(rws) + (k + 1) /\ ~(j <= g) /\ ~(j <= g + Len(rws))
                             /\ j - (g + Len(rws)) - 1 = k
  <2>1. /\ g + m + (k + 1) \in Nat \ {0} /\ ~(g + m + (k + 1) <= g) /\ ~(g + m + (k + 1) <= g + m)
        /\ g + m + (k + 1) - (g + m) - 1 = k
    OBVIOUS
  <2> QED
    BY <1>1, <2>1
<1>3. Page(rws, g, l)[j] = RowOf(l, k)
  BY <1>2 DEF Page
<1> QED
  BY <1>2, <1>3 DEF RowOf, Place, InLine

\* A row of a line that has ended does not depend on the line that has not.
LEMMA PastCell ==
  ASSUME NEW rws \in Seq([Col -> Cells]), NEW g \in Nat, NEW l \in Seq(Cells),
         NEW l2 \in Seq(Cells), NEW j \in Nat \ {0}, j <= g + Len(rws)
  PROVE  Page(rws, g, l)[j] = Page(rws, g, l2)[j]
<1>1. Len(rws) \in Nat
  OBVIOUS
<1> QED
  BY <1>1 DEF Page

\* A character at the end of the line is in the row and the column of the cursor.
LEMMA AppendCell ==
  ASSUME NEW rws \in Seq([Col -> Cells]), NEW g \in Nat, NEW l \in Seq(Cells), NEW e \in Nat \ {0}, NEW col \in Col,
         Len(l) = WIDTH * (e - 1) + col, NEW ch \in Cells
  PROVE  /\ Changes(Page(rws, g, l), Page(rws, g, Append(l, ch)), g + Len(rws) + e, col, ch)
         /\ Page(rws, g, l)[g + Len(rws) + e][col] = Space
<1>1. PICK m \in Nat : m = Len(rws)
  OBVIOUS
<1>2. PICK k \in Nat : e = k + 1
  <2>1. e - 1 \in Nat /\ e = (e - 1) + 1
    OBVIOUS
  <2> QED
    BY <2>1
<1>3. Len(l) = Place(k, col) /\ Len(l) \in Nat /\ Place(k, col) \in Nat
  <2>1. e - 1 = k /\ col \in Nat /\ WIDTH \in Nat
    BY <1>2, Sizes
  <2>2. WIDTH * k = k * WIDTH
    BY <2>1
  <2> QED
    BY <2>1, <2>2, Places DEF Place
<1>4. PICK l2 \in Seq(Cells) : l2 = Append(l, ch)
  <2>1. Append(l, ch) \in Seq(Cells)
    OBVIOUS
  <2> QED
    BY <2>1, Zenon
<1>5. Len(l2) = Len(l) + 1 /\ l2[Len(l) + 1] = ch /\ \A i \in 1 .. Len(l) : l2[i] = l[i]
  BY <1>4
<1>6. ASSUME NEW i \in Nat, NEW c \in Col
      PROVE  Page(rws, g, l2)[g + Len(rws) + (i + 1)][c] =
               IF i = k /\ c = col THEN ch ELSE Page(rws, g, l)[g + Len(rws) + (i + 1)][c]
  <2>1. PICK p \in Nat : p = Place(i, c)
    BY Places
  <2>2. p = Place(k, col) <=> i = k /\ c = col
    <3>1. \A j \in Nat, d \in Col : Place(i, c) = Place(j, d) => i = j /\ c = d
      BY Places, ZenonT(40)
    <3> QED
      BY <2>1, <3>1, Zenon
  <2>3. Page(rws, g, l)[g + Len(rws) + (i + 1)][c] = IF p < Len(l) THEN l[p + 1] ELSE Space
    <3>1. InLine(rws, g, l, i, c)
      BY LineCell
    <3> QED
      BY <2>1, <3>1 DEF InLine
  <2>4. Page(rws, g, l2)[g + Len(rws) + (i + 1)][c] = IF p < Len(l2) THEN l2[p + 1] ELSE Space
    <3>1. InLine(rws, g, l2, i, c)
      BY LineCell
    <3> QED
      BY <2>1, <3>1 DEF InLine
  <2>5. CASE p < Len(l)
    <3>1. p < Len(l2) /\ p + 1 \in 1 .. Len(l) /\ p # Place(k, col)
      BY <1>3, <1>5, <2>5
    <3> QED
      BY <1>5, <2>2, <2>3, <2>4, <2>5, <3>1
  <2>6. CASE p = Len(l)
    <3>1. p < Len(l2) /\ l2[p + 1] = ch
      BY <1>3, <1>5, <2>6
    <3> QED
      BY <1>3, <2>2, <2>4, <2>6, <3>1
  <2>7. CASE p > Len(l)
    <3>1. ~(p < Len(l2)) /\ ~(p < Len(l)) /\ p # Place(k, col)
      BY <1>3, <1>5, <2>7
    <3> QED
      BY <2>2, <2>3, <2>4, <3>1
  <2> QED
    BY <1>3, <2>5, <2>6, <2>7
<1>7. ASSUME NEW j \in 1 .. g + Len(rws) + e, NEW c \in Col
      PROVE  Page(rws, g, l2)[j][c] = IF j = g + Len(rws) + e /\ c = col THEN ch ELSE Page(rws, g, l)[j][c]
  <2>1. j \in Nat \ {0}
    OBVIOUS
  <2>2. CASE j <= g + Len(rws)
    <3>1. j # g + Len(rws) + e
      BY <1>1, <2>1, <2>2
    <3> QED
      <4>1. Page(rws, g, l)[j] = Page(rws, g, l2)[j]
        BY <2>1, <2>2, PastCell, ZenonT(40)
      <4> QED
        BY <3>1, <4>1
  <2>3. CASE ~(j <= g + Len(rws))
    <3>1. PICK i \in Nat : j = g + Len(rws) + (i + 1)
      <4>1. j - (g + m) - 1 \in Nat /\ j = g + m + ((j - (g + m) - 1) + 1)
        BY <1>1, <2>1, <2>3
      <4> QED
        BY <1>1, <4>1
    <3>2. j = g + Len(rws) + e <=> i = k
      BY <1>1, <1>2, <3>1
    <3> QED
      BY <1>6, <3>1, <3>2
  <2> QED
    BY <2>2, <2>3
<1>8. Page(rws, g, l)[g + Len(rws) + e][col] = Space
  <2>1. ~(Place(k, col) < Len(l))
    BY <1>3
  <2> QED
    <3>1. InLine(rws, g, l, k, col)
      BY LineCell
    <3> QED
      BY <1>2, <2>1, <3>1 DEF InLine
<1> QED
  BY <1>4, <1>7, <1>8 DEF Changes

\* The rows after the line are blank.
LEMMA RestBlank ==
  ASSUME NEW rws \in Seq([Col -> Cells]), NEW g \in Nat, NEW l \in Seq(Cells), NEW k \in Nat, Len(l) <= WIDTH * k
  PROVE  BlankAt(Page(rws, g, l), g + Len(rws) + (k + 1))
<1> SUFFICES ASSUME NEW c \in Col PROVE Page(rws, g, l)[g + Len(rws) + (k + 1)][c] = Space
  BY DEF BlankAt
<1>1. PICK p \in Nat : p = Place(k, c) /\ p >= WIDTH * k
  BY Places
<1>2. Len(l) \in Nat /\ WIDTH * k \in Nat
  BY Sizes
<1>3. ~(p < Len(l))
  BY <1>1, <1>2
<1>4. InLine(rws, g, l, k, c)
  BY LineCell
<1> QED
  BY <1>1, <1>3, <1>4 DEF InLine

\* So are the cells after it in its last row.
LEMMA RestOfRowBlank ==
  ASSUME NEW rws \in Seq([Col -> Cells]), NEW g \in Nat, NEW l \in Seq(Cells), NEW k \in Nat, NEW col \in Nat,
         Len(l) = WIDTH * k + col
  PROVE  BlankFrom(Page(rws, g, l), g + Len(rws) + (k + 1), col)
<1> SUFFICES ASSUME NEW c \in Col, c >= col PROVE Page(rws, g, l)[g + Len(rws) + (k + 1)][c] = Space
  BY DEF BlankFrom
<1>1. PICK m \in Nat : m = WIDTH * k /\ m = k * WIDTH
  BY Sizes
<1>2. Place(k, c) = m + c /\ c \in Nat
  BY <1>1, Sizes DEF Place
<1>3. ~(Place(k, c) < Len(l))
  BY <1>1, <1>2
<1>4. InLine(rws, g, l, k, c)
  BY LineCell
<1> QED
  BY <1>3, <1>4 DEF InLine

-----------------------------------------------------------------------------
(* What a character does to the text and the driver. *)

\* A printable character, or the space of an erasure, is added to the line.
Adds(s, t, rws, g, l, ch, h, e) ==
  /\ t \in VgaType /\ t.lost = s.lost
  /\ \E e2 \in {e, e + 1} : Follows(t, rws, g, Append(l, ch), Larger(h, g + Len(rws) + e2), e2)

LEMMA PutsChar ==
  ASSUME NEW s \in VgaType, NEW rws \in Seq([Col -> Cells]), NEW g \in Nat, NEW l \in Seq(Cells),
         NEW h \in Nat \ {0}, NEW e \in Nat \ {0}, Follows(s, rws, g, l, h, e),
         NEW ch \in Cells, ch # NewLine, ch # Backspace
  PROVE  Adds(s, VGA_putc(s, ch), rws, g, l, ch, h, e)
<1>1. PICK m \in Nat : m = Len(rws)
  OBVIOUS
<1>2. PICK k \in Nat : e = k + 1
  <2>1. e - 1 \in Nat /\ e = (e - 1) + 1
    OBVIOUS
  <2> QED
    BY <2>1
<1>3. PICK n \in Nat \ {0} : n = g + Len(rws) + e /\ n = g + m + e
  BY <1>1
<1>4. Len(l) = WIDTH * (e - 1) + s.col /\ n <= h /\ At(s, Page(rws, g, l), n, h)
  BY <1>3 DEF Follows, At
<1>5. PICK P : P = Page(rws, g, l)
  OBVIOUS
<1>6. s.col \in 0 .. WIDTH /\ Len(l) \in Nat /\ WIDTH \in Nat /\ WIDTH > 0
  BY Fields, Sizes
<1>7. PICK t : t = VGA_putc(s, ch)
  OBVIOUS
<1>8. CASE s.col # WIDTH
  <2>1. t = [VGA_set(s, s.row, s.col, ch) EXCEPT !.col = @ + 1]
    BY <1>7, <1>8 DEF VGA_putc
  <2>2. s.col \in Col
    BY <1>6, <1>8, Sizes
  <2>3. PICK P2 : P2 = Page(rws, g, Append(l, ch))
    OBVIOUS
  <2>4. Changes(P, P2, n, s.col, ch)
    BY <1>3, <1>4, <1>5, <2>2, <2>3, AppendCell
  <2>5. t \in VgaType /\ At(t, P2, n, h) /\ t.col = s.col + 1 /\ t.lost = s.lost
    <3>1. Reaches(s, t, P2, n, h, s.col + 1)
      BY <1>4, <1>5, <1>8, <2>1, <2>4, PutsInRow
    <3> QED
      BY <3>1 DEF Reaches
  <2>6. Larger(h, n) = h
    BY <1>4 DEF Larger
  <2>7. Len(Append(l, ch)) = WIDTH * (e - 1) + t.col
    <3>1. PICK x \in Nat : x = WIDTH * (e - 1)
      BY <1>2, <1>6
    <3> QED
      <4>1. Len(Append(l, ch)) = Len(l) + 1
        OBVIOUS
      <4>2. x + s.col + 1 = x + (s.col + 1)
        BY <1>6
      <4> QED
        BY <1>4, <2>5, <3>1, <4>1, <4>2
  <2>8. Follows(t, rws, g, Append(l, ch), h, e)
    BY <1>3, <1>4, <2>3, <2>5, <2>7 DEF Follows, At
  <2> QED
    BY <1>3, <1>7, <2>5, <2>6, <2>8 DEF Adds
<1>9. CASE s.col = WIDTH
  <2>1. PICK u : u = LineFeed(s)
    OBVIOUS
  <2>2. t = [VGA_set(u, u.row, u.col, ch) EXCEPT !.col = @ + 1]
    BY <1>7, <1>9, <2>1 DEF VGA_putc
  <2>3. Len(l) = WIDTH * e /\ WIDTH * e \in Nat
    <3>1. WIDTH * e = WIDTH * (e - 1) + WIDTH /\ WIDTH * e \in Nat
      BY <1>6
    <3> QED
      BY <1>4, <1>9, <3>1
  <2>4. n + 1 = g + Len(rws) + (e + 1) /\ n + 1 \in Nat \ {0} /\ e + 1 \in Nat \ {0} /\ e + 1 - 1 = e
    BY <1>1, <1>3
  <2>5. BlankAt(P, n + 1)
    <3>1. Len(l) <= WIDTH * e
      BY <2>3
    <3> QED
      BY <1>5, <2>4, <3>1, RestBlank
  <2>6. PICK h1 \in Nat \ {0} : h1 = Larger(h, n + 1)
    BY DEF Larger
  <2>7. u \in VgaType /\ At(u, P, n + 1, h1) /\ u.col = 0 /\ u.lost = s.lost
    <3>1. Reaches(s, u, P, n + 1, h1, 0)
      BY <1>4, <1>5, <1>9, <2>1, <2>5, <2>6, Feeds
    <3> QED
      BY <3>1 DEF Reaches
  <2>8. PICK P2 : P2 = Page(rws, g, Append(l, ch))
    OBVIOUS
  <2>9. 0 \in Col /\ Len(l) = WIDTH * (e + 1 - 1) + 0
    BY <2>3, <2>4, Sizes
  <2>10. Changes(P, P2, n + 1, 0, ch)
    <3>1. PICK e2 \in Nat \ {0}, z \in Col : e2 = e + 1 /\ z = 0 /\ Len(l) = WIDTH * (e2 - 1) + z
      BY <2>4, <2>9
    <3>2. Changes(P, P2, g + Len(rws) + e2, z, ch)
      BY <1>5, <2>8, <3>1, AppendCell
    <3> QED
      BY <2>4, <3>1, <3>2
  <2>11. t \in VgaType /\ At(t, P2, n + 1, h1) /\ t.col = 1 /\ t.lost = s.lost
    <3>1. u.col # WIDTH
      BY <1>6, <2>7
    <3>2. Changes(P, P2, n + 1, u.col, ch)
      BY <2>7, <2>10
    <3>3. Reaches(u, t, P2, n + 1, h1, u.col + 1)
      BY <2>2, <2>4, <2>7, <3>1, <3>2, PutsInRow
    <3> QED
      BY <2>7, <3>3 DEF Reaches
  <2>12. Len(Append(l, ch)) = WIDTH * (e + 1 - 1) + t.col
    BY <2>3, <2>4, <2>11
  <2>13. Follows(t, rws, g, Append(l, ch), h1, e + 1)
    BY <2>4, <2>8, <2>11, <2>12 DEF Follows, At
  <2> QED
    BY <1>7, <2>4, <2>6, <2>11, <2>13 DEF Adds
<1> QED
  BY <1>8, <1>9

\* A newline ends the line: the page stays as it is, a blank row is started.
LEMMA PutsNewLine ==
  ASSUME NEW s \in VgaType, NEW rws \in Seq([Col -> Cells]), NEW g \in Nat, NEW l \in Seq(Cells),
         NEW h \in Nat \ {0}, NEW e \in Nat \ {0}, Follows(s, rws, g, l, h, e),
         NEW t, t = VGA_putc(s, NewLine)
  PROVE  /\ t \in VgaType /\ t.lost = s.lost /\ t.col = 0
         /\ \E k \in {e - 1, e} :
              /\ k = Len(l) \div WIDTH
              /\ At(t, Page(rws, g, l), g + Len(rws) + k + 2, Larger(h, g + Len(rws) + k + 2))
<1>1. PICK m \in Nat : m = Len(rws)
  OBVIOUS
<1>2. PICK n \in Nat \ {0} : n = g + Len(rws) + e /\ n = g + m + e
  BY <1>1
<1>3. Len(l) = WIDTH * (e - 1) + s.col /\ n <= h /\ At(s, Page(rws, g, l), n, h)
  BY <1>2 DEF Follows, At
<1>4. PICK P : P = Page(rws, g, l)
  OBVIOUS
<1>5. s.col \in 0 .. WIDTH /\ Len(l) \in Nat /\ WIDTH \in Nat /\ WIDTH > 0
  BY Fields, Sizes
<1>6. ASSUME NEW u \in VgaType, NEW k \in Nat, NEW i \in Nat \ {0}, u.col \in Col, Len(l) = WIDTH * k + u.col,
             At(u, P, g + Len(rws) + (k + 1), i)
      PROVE  LET v == LineFeed(BlankRest(u))
             IN /\ v \in VgaType /\ v.lost = u.lost /\ v.col = 0
                /\ At(v, P, g + Len(rws) + k + 2, Larger(i, g + Len(rws) + k + 2))
                /\ k = Len(l) \div WIDTH
  <2>1. PICK j \in Nat \ {0} : j = g + Len(rws) + (k + 1) /\ j + 1 = g + Len(rws) + k + 2
                               /\ j + 1 = g + Len(rws) + (k + 1 + 1)
    BY <1>1
  <2>2. u.col \in Nat /\ k + 1 \in Nat
    BY <1>6, Sizes
  <2>3. BlankFrom(P, j, u.col)
    BY <1>4, <1>6, <2>1, <2>2, RestOfRowBlank
  <2>4. Len(l) <= WIDTH * (k + 1)
    <3>1. WIDTH * (k + 1) = WIDTH * k + WIDTH /\ WIDTH * k \in Nat
      BY <1>5
    <3>2. u.col < WIDTH
      BY <1>6, Sizes
    <3> QED
      BY <1>5, <1>6, <2>2, <3>1, <3>2
  <2>5. BlankAt(P, j + 1)
    BY <1>4, <2>1, <2>2, <2>4, RestBlank
  <2>6. PICK v : v = BlankRest(u)
    OBVIOUS
  <2>7. v \in VgaType /\ At(v, P, j, i) /\ Clear(v, P, j, i) /\ v.col = u.col /\ v.lost = u.lost
    <3>1. Reaches(u, v, P, j, i, u.col) /\ Clear(v, P, j, i)
      BY <1>6, <2>1, <2>3, <2>6, Blanked
    <3> QED
      BY <3>1 DEF Reaches
  <2>8. /\ LineFeed(v) \in VgaType /\ At(LineFeed(v), P, j + 1, Larger(i, j + 1))
        /\ LineFeed(v).col = 0 /\ LineFeed(v).lost = v.lost
    <3>1. Reaches(v, LineFeed(v), P, j + 1, Larger(i, j + 1), 0)
      BY <2>5, <2>7, Feeds
    <3> QED
      BY <3>1 DEF Reaches
  <2>9. k = Len(l) \div WIDTH
    BY <1>6, DivIs
  <2> QED
    BY <2>1, <2>6, <2>7, <2>8, <2>9
<1>7. CASE s.col # WIDTH
  <2>1. t = LineFeed(BlankRest(s))
    BY <1>7 DEF VGA_putc, NewLine, Backspace
  <2>2. s.col \in Col /\ e - 1 \in Nat /\ g + Len(rws) + (e - 1 + 1) = n
    BY <1>1, <1>2, <1>5, <1>7, Sizes
  <2>3. At(s, P, g + Len(rws) + (e - 1 + 1), h)
    BY <1>3, <1>4, <2>2
  <2>4. /\ t \in VgaType /\ t.lost = s.lost /\ t.col = 0
        /\ At(t, P, g + Len(rws) + (e - 1) + 2, Larger(h, g + Len(rws) + (e - 1) + 2))
        /\ e - 1 = Len(l) \div WIDTH
    BY <1>3, <1>6, <2>1, <2>2, <2>3
  <2> QED
    BY <1>4, <2>4
<1>8. CASE s.col = WIDTH
  <2>1. PICK u : u = LineFeed(s)
    OBVIOUS
  <2>2. t = LineFeed(BlankRest(u))
    BY <1>8, <2>1 DEF VGA_putc, NewLine, Backspace
  <2>3. Len(l) = WIDTH * e /\ WIDTH * e \in Nat
    <3>1. WIDTH * e = WIDTH * (e - 1) + WIDTH /\ WIDTH * e \in Nat
      BY <1>5
    <3> QED
      BY <1>3, <1>8, <3>1
  <2>4. n + 1 = g + Len(rws) + (e + 1) /\ n + 1 \in Nat \ {0} /\ e \in Nat
    BY <1>1, <1>2
  <2>5. BlankAt(P, n + 1)
    <3>1. Len(l) <= WIDTH * e
      BY <2>3
    <3> QED
      BY <1>4, <2>4, <3>1, RestBlank
  <2>6. PICK h1 \in Nat \ {0} : h1 = Larger(h, n + 1)
    BY DEF Larger
  <2>7. u \in VgaType /\ At(u, P, n + 1, h1) /\ u.col = 0 /\ u.lost = s.lost
    <3>1. Reaches(s, u, P, n + 1, h1, 0)
      BY <1>3, <1>4, <1>8, <2>1, <2>5, <2>6, Feeds
    <3> QED
      BY <3>1 DEF Reaches
  <2>8. u.col \in Col /\ Len(l) = WIDTH * e + u.col
    BY <2>3, <2>7, Sizes
  <2>9. /\ t \in VgaType /\ t.lost = u.lost /\ t.col = 0
        /\ At(t, P, g + Len(rws) + e + 2, Larger(h1, g + Len(rws) + e + 2))
        /\ e = Len(l) \div WIDTH
    BY <1>6, <2>2, <2>4, <2>7, <2>8
  <2>10. Larger(h1, g + Len(rws) + e + 2) = Larger(h, g + Len(rws) + e + 2)
    <3>1. g + Len(rws) + e + 2 = n + 2
      BY <1>1, <1>2
    <3> QED
      BY <2>6, <3>1 DEF Larger
  <2> QED
    BY <1>4, <2>7, <2>9, <2>10
<1> QED
  BY <1>7, <1>8

\* A backspace that is not lost takes the cursor one column back; at the right margin
\* of a full row it feeds a line first.
LEMMA PutsBackspace ==
  ASSUME NEW s \in VgaType, NEW n \in Nat \ {0}, NEW h \in Nat \ {0}, NEW P, At(s, P, n, h),
         BlankAt(P, n + 1), s.col = 0 => BlankAt(P, n),
         NEW t, t = VGA_putc(s, Backspace), ~t.lost
  PROVE  /\ t \in VgaType /\ ~s.lost
         /\ s.col = WIDTH => t.col = WIDTH - 1 /\ At(t, P, n, Larger(h, n + 1))
         /\ s.col = 0 => t.col = WIDTH - 1 /\ n > 1 /\ At(t, P, n - 1, h)
         /\ s.col # WIDTH /\ s.col # 0 => t.col = s.col - 1 /\ At(t, P, n, h)
<1>1. WIDTH \in Nat /\ WIDTH > 1
  BY Sizes
<1>2. CASE s.col # WIDTH
  <2>1. t = GoBack(s)
    BY <1>2 DEF VGA_putc, NewLine, Backspace
  <2> QED
    BY <1>2, <2>1, GoesBack
<1>3. CASE s.col = WIDTH
  <2>1. PICK u : u = LineFeed(s)
    OBVIOUS
  <2>2. t = GoBack(u)
    BY <1>3, <2>1 DEF VGA_putc, NewLine, Backspace
  <2>3. PICK h1 \in Nat \ {0}, m \in Nat \ {0} : h1 = Larger(h, n + 1) /\ m = n + 1
    BY DEF Larger
  <2>4. Reaches(s, u, P, m, h1, 0)
    BY <1>3, <2>1, <2>3, Feeds
  <2>5. u \in VgaType /\ At(u, P, m, h1) /\ u.col = 0 /\ u.lost = s.lost
    BY <2>4 DEF Reaches
  <2>6. u.col # WIDTH /\ BlankAt(P, m)
    BY <1>1, <2>3, <2>5
  <2>7. t \in VgaType /\ ~u.lost /\ t.col = WIDTH - 1 /\ At(t, P, m - 1, h1)
    BY <2>2, <2>5, <2>6, GoesBack
  <2>8. m - 1 = n
    BY <2>3
  <2> QED
    BY <1>1, <1>3, <2>3, <2>5, <2>7, <2>8
<1> QED
  BY <1>2, <1>3

\* printf("\b \b") takes the last character off the line.
LEMMA Erases ==
  ASSUME NEW s \in VgaType, NEW rws \in Seq([Col -> Cells]), NEW g \in Nat, NEW l \in Seq(Cells), NEW last \in Cells,
         NEW h \in Nat \ {0}, NEW e \in Nat \ {0}, Follows(s, rws, g, Append(l, last), h, e),
         NEW t, t = VGA_putc(s, Backspace), NEW u, u = VGA_putc(t, Space), NEW v, v = VGA_putc(u, Backspace), ~v.lost
  PROVE  /\ v \in VgaType /\ ~s.lost
         /\ \E e2 \in Nat \ {0} :
              Follows(v, rws, g, l,
                      Larger(h, g + Len(rws) + e2 + (IF v.col = WIDTH - 1 THEN 1 ELSE 0)), e2)
<1>1. PICK m \in Nat : m = Len(rws)
  OBVIOUS
<1>2. PICK l2 \in Seq(Cells) : l2 = Append(l, last)
  <2>1. Append(l, last) \in Seq(Cells)
    OBVIOUS
  <2> QED
    BY <2>1, Zenon
<1>3. Len(l2) = Len(l) + 1 /\ Len(l) \in Nat
  BY <1>2
<1>4. PICK n \in Nat \ {0} : n = g + Len(rws) + e /\ n = g + m + e
  BY <1>1
<1>5. PICK P, P2 : P = Page(rws, g, l2) /\ P2 = Page(rws, g, l)
  OBVIOUS
<1>6. Len(l2) = WIDTH * (e - 1) + s.col /\ n <= h /\ At(s, P, n, h)
  BY <1>2, <1>4, <1>5 DEF Follows, At
<1>7. s.col \in 0 .. WIDTH /\ WIDTH \in Nat /\ WIDTH > 1
  BY Fields, Sizes
<1>8. t \in VgaType /\ u \in VgaType /\ v \in VgaType /\ ~t.lost /\ ~u.lost /\ ~s.lost
  <2>1. Backspace \in Cells \cup {NewLine, Backspace} /\ Space \in Cells \cup {NewLine, Backspace}
    BY DEF Cells
  <2>2. t \in VgaType /\ (s.lost => t.lost)
    BY <2>1, PutcKeeps
  <2>3. u \in VgaType /\ (t.lost => u.lost)
    BY <2>1, <2>2, PutcKeeps
  <2>4. v \in VgaType /\ (u.lost => v.lost)
    BY <2>1, <2>3, PutcKeeps
  <2> QED
    BY <2>2, <2>3, <2>4
<1>9. PICK x \in Nat : x = WIDTH * (e - 1) /\ WIDTH * e = x + WIDTH
  <2>1. WIDTH * (e - 1) \in Nat /\ WIDTH * e = WIDTH * (e - 1) + WIDTH
    BY <1>7
  <2> QED
    BY <2>1
<1>10. BlankAt(P, n + 1) /\ (s.col = 0 => BlankAt(P, n))
  <2>1. Len(l2) <= WIDTH * e
    BY <1>6, <1>7, <1>9
  <2>2. BlankAt(P, g + Len(rws) + (e + 1))
    BY <1>5, <2>1, RestBlank
  <2>3. g + Len(rws) + (e + 1) = n + 1
    BY <1>1, <1>4
  <2>4. ASSUME s.col = 0 PROVE BlankAt(P, n)
    <3>1. PICK k \in Nat : k = e - 1 /\ k + 1 = e
      OBVIOUS
    <3>2. Len(l2) <= WIDTH * k
      BY <1>6, <1>9, <2>4, <3>1
    <3>3. BlankAt(P, g + Len(rws) + (k + 1))
      BY <1>5, <3>2, RestBlank
    <3> QED
      BY <1>4, <3>1, <3>3
  <2> QED
    BY <2>2, <2>3, <2>4
<1>11. /\ s.col = WIDTH => t.col = WIDTH - 1 /\ At(t, P, n, Larger(h, n + 1))
       /\ s.col = 0 => t.col = WIDTH - 1 /\ n > 1 /\ At(t, P, n - 1, h)
       /\ s.col # WIDTH /\ s.col # 0 => t.col = s.col - 1 /\ At(t, P, n, h)
  BY <1>6, <1>8, <1>10, PutsBackspace
\* The first erasure.
<1>12. PICK e2 \in Nat \ {0}, i \in Nat \ {0}, n2 \in Nat \ {0} :
         /\ n2 = g + Len(rws) + e2 /\ n2 = g + m + e2
         /\ At(t, P, n2, i) /\ t.col \in Col /\ Len(l) = WIDTH * (e2 - 1) + t.col
         /\ Larger(i, n2 + (IF t.col = WIDTH - 1 THEN 1 ELSE 0))
              = Larger(h, n2 + (IF t.col = WIDTH - 1 THEN 1 ELSE 0))
         /\ t.col # WIDTH - 1 => i = h
         /\ i >= n2
  <2>1. CASE s.col = WIDTH
    <3>1. PICK i \in Nat \ {0} : i = Larger(h, n + 1) /\ i >= n + 1
      BY DEF Larger
    <3>2. t.col = WIDTH - 1 /\ t.col \in Col /\ At(t, P, n, i)
      BY <1>11, <2>1, <3>1, Sizes
    <3>3. Len(l) = WIDTH * (e - 1) + t.col
      BY <1>3, <1>6, <1>7, <1>9, <2>1, <3>2
    <3>4. Larger(i, n + 1) = Larger(h, n + 1)
      BY <3>1 DEF Larger
    <3>5. i >= n
      BY <3>1
    <3> QED
      BY <1>4, <3>2, <3>3, <3>4, <3>5
  <2>2. CASE s.col = 0
    <3>1. t.col = WIDTH - 1 /\ t.col \in Col /\ At(t, P, n - 1, h) /\ n > 1
      BY <1>7, <1>11, <2>2, Sizes
    <3>2. e > 1
      <4>1. e = 1 => x = 0
        BY <1>7, <1>9
      <4> QED
        BY <1>3, <1>6, <1>9, <2>2, <4>1
    <3>3. PICK k \in Nat \ {0} : k = e - 1
      BY <3>2
    <3>4. n - 1 = g + Len(rws) + k /\ n - 1 = g + m + k /\ n - 1 \in Nat \ {0} /\ h >= n - 1
      BY <1>1, <1>4, <1>6, <3>1, <3>3
    <3>5. Len(l) = WIDTH * (k - 1) + t.col
      <4>1. WIDTH * k = WIDTH * (k - 1) + WIDTH /\ WIDTH * (k - 1) \in Nat /\ WIDTH * k = x
        BY <1>7, <1>9, <3>3
      <4> QED
        <5>1. PICK y \in Nat : y = WIDTH * (k - 1) /\ x = y + WIDTH
          BY <4>1
        <5>2. Len(l) + 1 = x
          BY <1>3, <1>6, <1>9, <2>2
        <5> QED
          BY <1>3, <1>7, <3>1, <5>1, <5>2
    <3> QED
      BY <3>1, <3>4, <3>5
  <2>3. CASE s.col # WIDTH /\ s.col # 0
    <3>1. t.col = s.col - 1 /\ t.col \in Col /\ At(t, P, n, h) /\ t.col # WIDTH - 1
      BY <1>7, <1>11, <2>3, Sizes
    <3>2. Len(l) = WIDTH * (e - 1) + t.col
      BY <1>3, <1>6, <1>7, <1>9, <3>1, SMTT(40)
    <3> QED
      BY <1>4, <1>6, <3>1, <3>2
  <2> QED
    BY <2>1, <2>2, <2>3
\* The space takes the character's place.
<1>13. u \in VgaType /\ At(u, P2, n2, i) /\ u.col = t.col + 1
  <2>1. t.col # WIDTH /\ t.col \in Nat
    BY <1>12, Sizes
  <2>2. u = [VGA_set(t, t.row, t.col, Space) EXCEPT !.col = @ + 1]
    BY <2>1 DEF VGA_putc, NewLine, Backspace, Space
  <2>3. Changes(P2, P, n2, t.col, last) /\ P2[n2][t.col] = Space
    BY <1>2, <1>5, <1>12, AppendCell
  <2>4. Changes(P, P2, n2, t.col, Space)
    <3> SUFFICES ASSUME NEW j \in 1 .. n2, NEW c \in Col
                 PROVE  P2[j][c] = IF j = n2 /\ c = t.col THEN Space ELSE P[j][c]
      BY DEF Changes
    <3>1. P[j][c] = IF j = n2 /\ c = t.col THEN last ELSE P2[j][c]
      BY <2>3 DEF Changes
    <3> QED
      BY <2>3, <3>1
  <2>5. Space \in Cells
    BY DEF Cells
  <2>6. Reaches(t, u, P2, n2, i, t.col + 1)
    BY <1>8, <1>12, <2>1, <2>2, <2>4, <2>5, PutsInRow
  <2> QED
    BY <2>6 DEF Reaches
\* The second erasure.
<1>14. BlankAt(P2, n2 + 1) /\ u.col # 0 /\ t.col \in Nat /\ t.col < WIDTH
  <2>1. t.col \in Nat /\ t.col < WIDTH
    BY <1>12, Sizes, SMTT(40)
  <2>2. WIDTH * e2 = WIDTH * (e2 - 1) + WIDTH /\ WIDTH * (e2 - 1) \in Nat
    BY <1>7
  <2>3. Len(l) <= WIDTH * e2
    BY <1>7, <1>12, <2>1, <2>2, SMTT(40)
  <2>4. BlankAt(P2, g + Len(rws) + (e2 + 1))
    BY <1>5, <2>3, RestBlank
  <2>5. g + Len(rws) + (e2 + 1) = n2 + 1
    BY <1>1, <1>12
  <2> QED
    BY <1>13, <2>1, <2>4, <2>5
<1>15. /\ u.col = WIDTH => v.col = WIDTH - 1 /\ At(v, P2, n2, Larger(i, n2 + 1))
       /\ u.col # WIDTH => v.col = u.col - 1 /\ At(v, P2, n2, i)
  BY <1>8, <1>13, <1>14, PutsBackspace
<1>16. v.col = t.col /\ At(v, P2, n2, Larger(h, n2 + (IF v.col = WIDTH - 1 THEN 1 ELSE 0)))
  <2>1. CASE t.col = WIDTH - 1
    <3>1. u.col = WIDTH
      BY <1>7, <1>13, <2>1
    <3> QED
      BY <1>12, <1>15, <2>1, <3>1
  <2>2. CASE t.col # WIDTH - 1
    <3>1. u.col # WIDTH /\ u.col - 1 = t.col
      <4>1. \A y \in Nat : y + 1 - 1 = y /\ (y # WIDTH - 1 => y + 1 # WIDTH)
        BY <1>7
      <4> QED
        BY <1>13, <1>14, <2>2, <4>1
    <3>2. Larger(h, n2 + 0) = h
      BY <1>12, <2>2 DEF Larger
    <3> QED
      BY <1>12, <1>15, <2>2, <3>1, <3>2
  <2> QED
    BY <2>1, <2>2
<1>17. Follows(v, rws, g, l, Larger(h, n2 + (IF v.col = WIDTH - 1 THEN 1 ELSE 0)), e2)
  BY <1>5, <1>12, <1>16 DEF Follows, At
<1> QED
  BY <1>8, <1>12, <1>17

-----------------------------------------------------------------------------
(* Lines that end. *)

\* What is shown depends on the last HEIGHT rows of the page only.
LEMMA ShowsLast ==
  ASSUME NEW s \in VgaType, NEW n \in Nat \ {0}, NEW h \in Nat \ {0}, NEW P, At(s, P, n, h), NEW P2,
         \A j \in 1 .. n, c \in Col : (h <= HEIGHT \/ j > h - HEIGHT + 1) => P2[j][c] = P[j][c]
  PROVE  At(s, P2, n, h)
<1>1. Cursor(s, n, h) /\ Shows(s, P, n, h) /\ ~s.stray /\ n <= h
  BY DEF At
<1>2. ASSUME NEW q \in Row, NEW c \in Col
      PROVE  s.buf[q][c] = Due(s, P2, n, h, q, c) \/ Uncleared(s, n, h, q, c)
  <2>1. q \in Nat /\ q < HEIGHT /\ s.start_row \in Nat /\ s.start_row < HEIGHT
    BY Fields, Sizes
  <2>2. CASE TextRow(s, h, q) <= n /\ ~(h > HEIGHT /\ q = s.start_row)
    <3>1. /\ TextRow(s, h, q) \in Int /\ TextRow(s, h, q) >= 1
          /\ h <= HEIGHT \/ TextRow(s, h, q) > h - HEIGHT + 1
      <4>1. CASE h <= HEIGHT
        BY <2>1, <4>1 DEF TextRow
      <4>2. CASE ~(h <= HEIGHT) /\ q < s.start_row
        <5>1. TextRow(s, h, q) = q + 1 + h - s.start_row
          BY <4>2 DEF TextRow
        <5> QED
          BY <2>1, <4>2, <5>1, Sizes, SMTT(40)
      <4>3. CASE ~(h <= HEIGHT) /\ ~(q < s.start_row)
        <5>1. TextRow(s, h, q) = q + 1 + h - s.start_row - HEIGHT
          BY <4>3 DEF TextRow
        <5>2. h > HEIGHT /\ q > s.start_row
          BY <2>1, <2>2, <4>3, Sizes
        <5> QED
          BY <2>1, <5>1, <5>2, Sizes
      <4> QED
        BY <4>1, <4>2, <4>3
    <3>2. TextRow(s, h, q) \in 1 .. n
      BY <2>2, <3>1
    <3>3. P2[TextRow(s, h, q)][c] = P[TextRow(s, h, q)][c]
      BY <3>1, <3>2
    <3>4. Due(s, P2, n, h, q, c) = Due(s, P, n, h, q, c)
      BY <2>2, <3>3 DEF Due
    <3> QED
      BY <1>1, <3>4 DEF Shows
  <2>3. CASE ~(TextRow(s, h, q) <= n /\ ~(h > HEIGHT /\ q = s.start_row))
    <3>1. Due(s, P2, n, h, q, c) = Due(s, P, n, h, q, c)
      BY <2>3 DEF Due
    <3> QED
      BY <1>1, <3>1 DEF Shows
  <2> QED
    BY <2>2, <2>3
<1> QED
  BY <1>1, <1>2 DEF At, Shows

\* The rows of a complete line.
LEMMA RowsOf ==
  ASSUME NEW l \in Seq(Cells)
  PROVE  /\ Rows(l) \in Seq([Col -> Cells]) /\ Len(Rows(l)) = Len(l) \div WIDTH + 1
         /\ \A k \in 1 .. Len(l) \div WIDTH + 1 : Rows(l)[k] = RowOf(l, k - 1)
         /\ Len(l) \div WIDTH \in Nat
<1>1. PICK m \in Nat : m = Len(l) \div WIDTH
  <2>1. PICK a \in Nat, w \in Nat \ {0} : a = Len(l) /\ w = WIDTH
    BY Sizes
  <2>2. a \div w \in Nat
    OBVIOUS
  <2> QED
    BY <2>1, <2>2
<1>2. ASSUME NEW k \in Nat PROVE RowOf(l, k) \in [Col -> Cells]
  <2>1. ASSUME NEW c \in Col
        PROVE (IF k * WIDTH + c < Len(l) THEN l[k * WIDTH + c + 1] ELSE Space) \in Cells
    <3>1. PICK p \in Nat : p = k * WIDTH + c
      BY Places DEF Place
    <3>2. p < Len(l) => l[p + 1] \in Cells
      BY <3>1
    <3>3. Space \in Cells
      BY DEF Cells
    <3> QED
      BY <3>1, <3>2, <3>3
  <2> QED
    BY <2>1 DEF RowOf
<1>3. Rows(l) = [k \in 1 .. m + 1 |-> RowOf(l, k - 1)]
  BY <1>1 DEF Rows
<1>4. \A k \in 1 .. m + 1 : RowOf(l, k - 1) \in [Col -> Cells]
  <2>1. \A k \in 1 .. m + 1 : k - 1 \in Nat
    OBVIOUS
  <2> QED
    BY <1>2, <2>1
<1>5. m + 1 \in Nat
  OBVIOUS
<1>6. Rows(l) \in Seq([Col -> Cells]) /\ Len(Rows(l)) = m + 1
  BY <1>3, <1>4, <1>5
<1> QED
  BY <1>1, <1>3, <1>6

\* The last HEIGHT rows are remembered.
Trims(rws, g, l, rws2, g2) ==
  LET all == rws \o Rows(l)
      d == IF Len(all) > HEIGHT THEN Len(all) - HEIGHT ELSE 0
  IN rws2 = SubSeq(all, d + 1, Len(all)) /\ g2 = g + d

LastRows(rws, g, l, rws2, g2) ==
  /\ rws2 \in Seq([Col -> Cells]) /\ Len(rws2) <= HEIGHT
  /\ g2 \in Nat /\ g2 >= g /\ (g2 > 0 => Len(rws2) = HEIGHT)
  /\ g2 + Len(rws2) = g + Len(rws) + (Len(l) \div WIDTH + 1)
  /\ \A i \in 1 .. Len(rws2) : rws2[i] = (rws \o Rows(l))[i + (g2 - g)]

LEMMA Trimmed ==
  ASSUME NEW rws \in Seq([Col -> Cells]), Len(rws) <= HEIGHT, NEW g \in Nat, g > 0 => Len(rws) = HEIGHT,
         NEW l \in Seq(Cells), NEW rws2, NEW g2, Trims(rws, g, l, rws2, g2)
  PROVE  LastRows(rws, g, l, rws2, g2)
<1>1. PICK R \in Seq([Col -> Cells]), m \in Nat : R = Rows(l) /\ m = Len(l) \div WIDTH /\ Len(R) = m + 1
  BY RowsOf
<1>2. PICK all \in Seq([Col -> Cells]) : all = rws \o R
  <2>1. rws \o R \in Seq([Col -> Cells])
    OBVIOUS
  <2> QED
    BY <2>1, Zenon
<1>3. Len(all) = Len(rws) + (m + 1) /\ Len(rws) \in Nat /\ Len(all) \in Nat
  <2>1. Len(rws \o R) = Len(rws) + Len(R) /\ Len(rws) \in Nat
    OBVIOUS
  <2> QED
    BY <1>1, <1>2, <2>1
<1>4. PICK d \in Nat : d = IF Len(all) > HEIGHT THEN Len(all) - HEIGHT ELSE 0
  <2>1. (IF Len(all) > HEIGHT THEN Len(all) - HEIGHT ELSE 0) \in Nat
    BY <1>3, Sizes
  <2> QED
    BY <2>1
<1>5. rws2 = SubSeq(all, d + 1, Len(all)) /\ g2 = g + d
  BY <1>1, <1>2, <1>4, Zenon DEF Trims
<1>6. d <= Len(all) /\ g2 - g = d /\ g2 \in Nat /\ g2 >= g
  BY <1>3, <1>4, <1>5, Sizes
<1>7. rws2 \in Seq([Col -> Cells])
  BY <1>3, <1>5, <1>6
<1>8. Len(rws2) = Len(all) - d /\ \A i \in 1 .. Len(rws2) : rws2[i] = all[i + d]
  <2>1. PICK L \in Nat : L = Len(all) /\ d <= L
    BY <1>3, <1>6
  <2>2. PICK x \in 1 .. Len(all) + 1 : x = d + 1
    BY <2>1
  <2>y. PICK y \in x - 1 .. Len(all) : y = L
    BY <2>1, <2>2
  <2>3. /\ Len(SubSeq(all, x, y)) = IF x <= y THEN y - x + 1 ELSE 0
        /\ \A i \in 1 .. y - x + 1 : SubSeq(all, x, y)[i] = all[x + i - 1]
    BY SubSeqProperties, SMTT(40)
  <2>4. rws2 = SubSeq(all, x, y)
    BY <1>5, <2>1, <2>2, <2>y
  <2>5. (IF x <= y THEN y - x + 1 ELSE 0) = L - d /\ y - x + 1 = L - d
    BY <2>1, <2>2, <2>y
  <2>6. \A i \in 1 .. L - d : x + i - 1 = i + d
    BY <2>1, <2>2
  <2>7. Len(rws2) = L - d
    BY <2>3, <2>4, <2>5
  <2> QED
    BY <2>1, <2>3, <2>4, <2>5, <2>6, <2>7
<1>9. Len(rws2) <= HEIGHT /\ (g2 > 0 => Len(rws2) = HEIGHT)
  BY <1>3, <1>4, <1>5, <1>8, Sizes
<1>10. g2 + Len(rws2) = g + Len(rws) + (m + 1)
  <2>1. PICK a \in Nat, b \in Nat : a = Len(rws) /\ b = Len(all) /\ b = a + (m + 1)
    BY <1>3
  <2>2. g + d + (b - d) = g + a + (m + 1)
    BY <2>1
  <2> QED
    BY <1>5, <1>8, <2>1, <2>2
<1> QED
  BY <1>1, <1>2, <1>6, <1>7, <1>8, <1>9, <1>10 DEF LastRows

LEMMA EndsLine ==
  ASSUME NEW s \in VgaType, NEW rws \in Seq([Col -> Cells]), Len(rws) <= HEIGHT,
         NEW g \in Nat, g > 0 => Len(rws) = HEIGHT, NEW l \in Seq(Cells),
         NEW h \in Nat \ {0}, NEW e \in Nat \ {0}, Follows(s, rws, g, l, h, e),
         NEW t, t = VGA_putc(s, NewLine), NEW rws2, NEW g2, Trims(rws, g, l, rws2, g2)
  PROVE  /\ t.col = 0 /\ g2 + Len(rws2) + 1 >= g + Len(rws) + e
         /\ Follows(t, rws2, g2, <<>>, Larger(h, g2 + Len(rws2) + 1), 1)
<1>1. /\ rws2 \in Seq([Col -> Cells]) /\ Len(rws2) <= HEIGHT
      /\ g2 \in Nat /\ g2 >= g /\ (g2 > 0 => Len(rws2) = HEIGHT)
      /\ g2 + Len(rws2) = g + Len(rws) + (Len(l) \div WIDTH + 1)
      /\ \A i \in 1 .. Len(rws2) : rws2[i] = (rws \o Rows(l))[i + (g2 - g)]
  <2>1. LastRows(rws, g, l, rws2, g2)
    BY Trimmed
  <2> QED
    BY <2>1 DEF LastRows
<1>2. PICK m \in Nat, m2 \in Nat : m = Len(rws) /\ m2 = Len(rws2)
  BY <1>1
<1>3. /\ t \in VgaType /\ t.col = 0
      /\ \E k \in {e - 1, e} :
           /\ k = Len(l) \div WIDTH
           /\ At(t, Page(rws, g, l), g + Len(rws) + k + 2, Larger(h, g + Len(rws) + k + 2))
  BY PutsNewLine
<1>4. PICK k \in Nat : /\ k = Len(l) \div WIDTH /\ k >= e - 1
                       /\ At(t, Page(rws, g, l), g + Len(rws) + k + 2, Larger(h, g + Len(rws) + k + 2))
  <2>1. \A k \in {e - 1, e} : k \in Nat /\ k >= e - 1
    OBVIOUS
  <2> QED
    BY <1>3, <2>1
<1>5. PICK n \in Nat \ {0}, i \in Nat \ {0} :
        /\ n = g + m + k + 2 /\ n = g2 + m2 + 1 /\ i = Larger(h, n) /\ i >= n
  <2>1. g2 + m2 = g + m + (k + 1)
    BY <1>1, <1>2, <1>4
  <2>2. PICK n \in Nat \ {0} : n = g + m + k + 2 /\ n = g2 + m2 + 1
    <3>1. g + m + k + 2 \in Nat \ {0} /\ g + m + k + 2 = g + m + (k + 1) + 1
      OBVIOUS
    <3> QED
      BY <2>1, <3>1
  <2>3. Larger(h, n) \in Nat \ {0} /\ Larger(h, n) >= n
    BY DEF Larger
  <2> QED
    BY <2>2, <2>3
<1>6. PICK P, P2 : P = Page(rws, g, l) /\ P2 = Page(rws2, g2, <<>>)
  OBVIOUS
<1>7. At(t, P, n, i)
  BY <1>2, <1>4, <1>5, <1>6
<1>8. <<>> \in Seq(Cells) /\ Len(<<>>) = 0
  OBVIOUS
<1>9. ASSUME NEW j \in 1 .. n, NEW c \in Col, i <= HEIGHT \/ j > i - HEIGHT + 1
      PROVE  P2[j][c] = P[j][c]
  <2>1. j \in Nat \ {0} /\ j > g2
    <3>1. j \in Nat \ {0} /\ j >= 1 /\ HEIGHT \in Nat
      BY Sizes
    <3>2. CASE g2 = 0
      BY <3>1, <3>2
    <3>3. CASE g2 > 0
      <4>1. m2 = HEIGHT /\ n = g2 + HEIGHT + 1
        BY <1>1, <1>2, <1>5, <3>3
      <4>2. ~(i <= HEIGHT)
        BY <1>1, <1>5, <3>1, <3>3, <4>1
      <4> QED
        BY <1>1, <1>5, <1>9, <3>1, <4>1, <4>2
    <3> QED
      BY <1>1, <3>2, <3>3
  <2>2. CASE j = n
    <3>1. BlankAt(P2, n)
      <4>1. Len(<<>>) <= WIDTH * 0
        BY <1>8, Sizes
      <4>2. BlankAt(P2, g2 + Len(rws2) + (0 + 1))
        BY <1>1, <1>6, <1>8, <4>1, RestBlank
      <4> QED
        BY <1>2, <1>5, <4>2
    <3>2. BlankAt(P, n)
      <4>1. Len(l) <= WIDTH * (k + 1)
        <5>1. PICK a \in Nat, w \in Nat \ {0} : a = Len(l) /\ w = WIDTH
          BY Sizes
        <5>2. a % w \in 0 .. w - 1 /\ (a \div w) * w + (a % w) = a
          OBVIOUS
        <5>3. PICK x \in Nat : x = k * w /\ WIDTH * (k + 1) = x + w
          <6>1. k * w \in Nat /\ w * (k + 1) = k * w + w
            OBVIOUS
          <6> QED
            BY <5>1, <6>1
        <5> QED
          BY <1>4, <5>1, <5>2, <5>3
      <4>2. k + 1 \in Nat
        OBVIOUS
      <4>3. BlankAt(P, g + Len(rws) + (k + 1 + 1))
        BY <1>6, <4>1, <4>2, RestBlank
      <4>4. g + Len(rws) + (k + 1 + 1) = n
        BY <1>2, <1>5
      <4> QED
        BY <4>3, <4>4
    <3> QED
      BY <2>2, <3>1, <3>2 DEF BlankAt
  <2>3. CASE j # n
    <3>0. PICK R \in Seq([Col -> Cells]) : R = Rows(l)
      BY RowsOf
    <3>1. PICK all : all = rws \o R /\ R = Rows(l)
      BY <3>0
    <3>2. j - g2 \in 1 .. m2 /\ j - g2 + (g2 - g) = j - g /\ j - g \in 1 .. m + (k + 1) /\ ~(j <= g2) /\ j <= g2 + m2
      <4>1. j < n /\ j > g2 /\ g2 >= g /\ g2 \in Nat
        BY <1>1, <1>5, <2>1, <2>3
      <4> QED
        BY <1>5, <2>1, <4>1
    <3>3. P2[j] = all[j - g]
      <4>1. P2[j] = rws2[j - g2]
        BY <1>2, <1>6, <2>1, <3>2 DEF Page
      <4>2. rws2[j - g2] = all[j - g]
        BY <1>1, <1>2, <3>1, <3>2
      <4> QED
        BY <4>1, <4>2
    <3>4. P[j] = all[j - g]
      <4>1. ~(j <= g)
        BY <1>1, <2>1
      <4>2. CASE j <= g + m
        <5>1. j - g \in 1 .. Len(rws)
          BY <1>2, <2>1, <4>1, <4>2
        <5>2. P[j] = rws[j - g]
          BY <1>2, <1>6, <2>1, <4>1, <4>2 DEF Page
        <5> QED
          BY <3>1, <5>1, <5>2
      <4>3. CASE ~(j <= g + m)
        <5>1. PICK x \in 1 .. k + 1 : x = j - (g + m) /\ j - g = m + x
          BY <2>1, <3>2, <4>3
        <5>2. P[j] = RowOf(l, x - 1)
          BY <1>2, <1>6, <2>1, <4>1, <4>3, <5>1 DEF Page
        <5>3. R[x] = RowOf(l, x - 1) /\ Len(R) = k + 1
          BY <1>4, <3>1, RowsOf
        <5>4. all[m + x] = R[x]
          BY <1>2, <3>1, <5>3
        <5> QED
          BY <5>1, <5>2, <5>3, <5>4
      <4> QED
        BY <4>2, <4>3
    <3> QED
      BY <3>3, <3>4
  <2> QED
    BY <2>2, <2>3
<1>10. At(t, P2, n, i)
  BY <1>3, <1>7, <1>9, ShowsLast
<1>11. Len(<<>>) = WIDTH * (1 - 1) + t.col
  BY <1>3, <1>8, Sizes
<1>12. Follows(t, rws2, g2, <<>>, i, 1)
  BY <1>2, <1>5, <1>6, <1>10, <1>11 DEF Follows, At
<1>13. n >= g + m + e
  BY <1>4, <1>5, SMTT(40)
<1> QED
  BY <1>2, <1>3, <1>5, <1>12, <1>13

-----------------------------------------------------------------------------
(* What a printf does. *)

Printables == Cells \cup {NewLine, Backspace}

\* The types stay as they are along a printf, and a lost cursor stays lost.
LEMMA PutsKeep ==
  ASSUME NEW b \in VgaType, NEW n \in Nat, NEW str, \A k \in 1 .. n : str[k] \in Printables,
         NEW f, Puts(f, b, str, n), NEW m \in 0 .. n
  PROVE  f[m] \in VgaType /\ (b.lost => f[m].lost)
<1> DEFINE Good(k) == f[k] \in VgaType /\ (b.lost => f[k].lost)
<1> SUFFICES ASSUME ~Good(m) PROVE FALSE
  OBVIOUS
<1>1. f[0] = b /\ \A k \in 1 .. n : f[k] = VGA_putc(f[k - 1], str[k])
  BY DEF Puts
<1>2. Good(0)
  BY <1>1
<1>3. ASSUME NEW k \in 1 .. n, Good(k - 1) PROVE Good(k)
  <2>1. f[k] = VGA_putc(f[k - 1], str[k]) /\ str[k] \in Cells \cup {NewLine, Backspace}
    BY <1>1 DEF Printables
  <2>2. f[k] \in VgaType /\ (f[k - 1].lost => f[k].lost)
    BY <1>3, <2>1, PutcKeeps
  <2> QED
    BY <1>3, <2>2
<1> HIDE DEF Good
<1>4. PICK T \in SUBSET Nat : T = {k \in 0 .. n : ~Good(k)}
  <2>1. {k \in 0 .. n : ~Good(k)} \in SUBSET Nat
    OBVIOUS
  <2> QED
    BY <2>1
<1>5. PICK k \in T : \A j \in T : k <= j
  <2>1. m \in T
    BY <1>4
  <2> QED
    BY <2>1, LeastNatural
<1>6. k \in 1 .. n /\ k - 1 \in 0 .. n
  BY <1>2, <1>4, <1>5
<1>7. k - 1 \notin T
  BY <1>5, <1>6
<1> QED
  BY <1>3, <1>4, <1>5, <1>6, <1>7

\* A prefix that is one character longer.
LEMMA LongerPrefix ==
  ASSUME NEW l \in Seq(Cells), NEW str \in Seq(Cells), NEW k \in 1 .. Len(str)
  PROVE  l \o SubSeq(str, 1, k) = Append(l \o SubSeq(str, 1, k - 1), str[k])
<1>1. SubSeq(str, 1, k) = SubSeq(str, 1, k - 1) \o <<str[k]>>
  BY SubSeqRecursiveSecond
<1>2. PICK a \in Seq(Cells) : a = SubSeq(str, 1, k - 1)
  <2>1. 1 \in 1 .. Len(str) + 1 /\ k - 1 \in 1 - 1 .. Len(str)
    OBVIOUS
  <2>2. SubSeq(str, 1, k - 1) \in Seq(Cells)
    BY <2>1, SubSeqProperties
  <2> QED
    BY <2>2
<1>3. PICK ch \in Cells : ch = str[k]
  OBVIOUS
<1>4. l \o (a \o <<ch>>) = Append(l \o a, ch)
  OBVIOUS
<1> QED
  BY <1>1, <1>2, <1>3, <1>4

\* Characters printed one after the other are added to the line.
LEMMA PutsFollow ==
  ASSUME NEW b \in VgaType, NEW rws \in Seq([Col -> Cells]), NEW g \in Nat, NEW l \in Seq(Cells),
         NEW h \in Nat \ {0}, NEW e \in Nat \ {0}, Follows(b, rws, g, l, h, e),
         NEW str \in Seq(Chars), NEW full, NEW n \in Nat, Len(str) <= n,
         \A k \in 1 .. Len(str) : full[k] = str[k],
         NEW f, Puts(f, b, full, n)
  PROVE  /\ f[Len(str)] \in VgaType
         /\ \E e2 \in Nat \ {0} :
              Follows(f[Len(str)], rws, g, l \o str, Larger(h, g + Len(rws) + e2), e2)
<1>1. PICK w \in Nat, m \in Nat : w = Len(str) /\ w <= n /\ m = Len(rws)
  OBVIOUS
<1>2. str \in Seq(Cells)
  BY DEF Cells
<1> DEFINE Along(k, e2) == Follows(f[k], rws, g, l \o SubSeq(str, 1, k), Larger(h, g + Len(rws) + e2), e2)
           Good(k) == f[k] \in VgaType /\ \E e2 \in Nat \ {0} : Along(k, e2)
<1>3. f[0] = b /\ \A k \in 1 .. n : f[k] = VGA_putc(f[k - 1], full[k])
  BY DEF Puts
<1>4. Good(0)
  <2>1. SubSeq(str, 1, 0) = <<>>
    BY <1>2, SubSeqEmpty
  <2>2. l \o <<>> = l
    OBVIOUS
  <2>3. Larger(h, g + Len(rws) + e) = h
    <3>1. g + Len(rws) + e <= h
      BY DEF Follows
    <3> QED
      BY <1>1, <3>1 DEF Larger
  <2>4. Along(0, e)
    BY <1>3, <2>1, <2>2, <2>3
  <2> QED
    BY <1>3, <2>4
<1>5. ASSUME NEW k \in 1 .. w, Good(k - 1) PROVE Good(k)
  <2> HIDE DEF Along
  <2>1. PICK e1 \in Nat \ {0} : Along(k - 1, e1)
    BY <1>5
  <2>2. PICK h1 \in Nat \ {0} : h1 = Larger(h, g + Len(rws) + e1)
    <3>1. Larger(h, g + Len(rws) + e1) \in Nat \ {0}
      BY <1>1 DEF Larger
    <3> QED
      BY <3>1
  <2>3. PICK l1 \in Seq(Cells) : l1 = l \o SubSeq(str, 1, k - 1)
    <3>1. 1 \in 1 .. Len(str) + 1 /\ k - 1 \in 1 - 1 .. Len(str)
      BY <1>1
    <3>2. SubSeq(str, 1, k - 1) \in Seq(Cells)
      BY <1>2, <3>1, SubSeqProperties
    <3>3. l \o SubSeq(str, 1, k - 1) \in Seq(Cells)
      BY <3>2
    <3> QED
      BY <3>3
  <2>4. PICK s \in VgaType, ch \in Cells : /\ s = f[k - 1] /\ ch = str[k] /\ ch # NewLine /\ ch # Backspace
                                           /\ f[k] = VGA_putc(s, ch)
    <3>1. k \in 1 .. Len(str) /\ k \in 1 .. n
      BY <1>1
    <3>2. str[k] \in Chars /\ full[k] = str[k] /\ f[k] = VGA_putc(f[k - 1], full[k]) /\ f[k - 1] \in VgaType
      BY <1>3, <1>5, <3>1
    <3> QED
      BY <3>2, Printable
  <2>5. Follows(s, rws, g, l1, h1, e1)
    BY <2>1, <2>2, <2>3, <2>4 DEF Along
  <2>6. /\ VGA_putc(s, ch) \in VgaType
        /\ \E e2 \in {e1, e1 + 1} :
             Follows(VGA_putc(s, ch), rws, g, Append(l1, ch), Larger(h1, g + Len(rws) + e2), e2)
    <3>1. Adds(s, VGA_putc(s, ch), rws, g, l1, ch, h1, e1)
      BY <2>4, <2>5, PutsChar
    <3> QED
      BY <3>1 DEF Adds
  <2>7. PICK e2 \in {e1, e1 + 1} :
          Follows(VGA_putc(s, ch), rws, g, Append(l1, ch), Larger(h1, g + Len(rws) + e2), e2)
    BY <2>6
  <2>8. e2 \in Nat \ {0} /\ e2 >= e1
    OBVIOUS
  <2>9. Larger(h1, g + Len(rws) + e2) = Larger(h, g + Len(rws) + e2)
    <3>1. \A x, y \in Nat : y >= x => Larger(Larger(h, x), y) = Larger(h, y)
      BY DEF Larger
    <3>2. g + Len(rws) + e1 \in Nat /\ g + Len(rws) + e2 \in Nat /\ g + Len(rws) + e2 >= g + Len(rws) + e1
      BY <1>1, <2>8
    <3> QED
      BY <2>2, <3>1, <3>2
  <2>10. Append(l1, ch) = l \o SubSeq(str, 1, k)
    <3>1. k \in 1 .. Len(str)
      BY <1>1
    <3> QED
      BY <1>2, <2>3, <2>4, <3>1, LongerPrefix
  <2>11. Along(k, e2)
    BY <2>4, <2>7, <2>9, <2>10 DEF Along
  <2> QED
    BY <2>4, <2>6, <2>8, <2>11
<1>6. Good(w)
  <2> HIDE DEF Good
  <2> SUFFICES ASSUME ~Good(w) PROVE FALSE
    OBVIOUS
  <2>1. PICK T \in SUBSET Nat : T = {k \in 0 .. w : ~Good(k)}
    <3>1. {k \in 0 .. w : ~Good(k)} \in SUBSET Nat
      OBVIOUS
    <3> QED
      BY <3>1
  <2>2. PICK k \in T : \A j \in T : k <= j
    <3>1. w \in T
      BY <1>1, <2>1
    <3> QED
      BY <3>1, LeastNatural
  <2>3. k \in 1 .. w /\ k - 1 \in 0 .. w
    BY <1>4, <2>1, <2>2
  <2>4. k - 1 \notin T
    BY <2>2, <2>3
  <2> QED
    BY <1>5, <2>1, <2>2, <2>3, <2>4
<1>7. SubSeq(str, 1, w) = str
  BY <1>1, SubSeqFull
<1> QED
  BY <1>1, <1>6, <1>7

\* The rows of the current line, from its length and the cursor's column.
LEMMA RowsTaken ==
  ASSUME NEW m \in Nat, NEW col \in 0 .. WIDTH, NEW e \in Nat \ {0}, m = WIDTH * (e - 1) + col
  PROVE  m \div WIDTH + (IF col = WIDTH THEN 0 ELSE 1) = e
<1>1. WIDTH \in Nat /\ WIDTH > 0 /\ col \in Nat
  BY Sizes
<1>2. CASE col # WIDTH
  <2>1. col \in Col /\ e - 1 \in Nat
    BY <1>1, <1>2, Sizes
  <2>2. m \div WIDTH = e - 1
    BY <2>1, DivIs
  <2>3. e - 1 + 1 = e
    OBVIOUS
  <2> QED
    BY <1>2, <2>2, <2>3
<1>3. CASE col = WIDTH
  <2>1. 0 \in Col /\ e \in Nat
    BY <1>1, Sizes
  <2>2. WIDTH * e = WIDTH * (e - 1) + WIDTH /\ WIDTH * e \in Nat
    BY <1>1
  <2>3. m = WIDTH * e + 0
    BY <1>3, <2>2
  <2>4. m \div WIDTH = e
    BY <2>1, <2>3, DivIs
  <2> QED
    BY <1>3, <2>4
<1> QED
  BY <1>2, <1>3

\* How a text is measured.
LEMMA MeasureDoes ==
  ASSUME vga' \in VgaType, rows' \in Seq([Col -> Cells]), gone' \in Nat, line' \in Seq(Chars),
         high \in Nat \ {0}, NEW x \in 0 .. 1, MeasuredWith(x)
  PROVE  /\ high' \in Nat \ {0}
         /\ \A e \in Nat \ {0} : Len(line') = WIDTH * (e - 1) + vga'.col
              => high' = Larger(high, gone' + Len(rows') + e + x)
<1>1. PICK r \in Nat : r = Len(line') \div WIDTH + (IF vga'.col = WIDTH THEN 0 ELSE 1)
  <2>1. PICK a \in Nat, w \in Nat \ {0} : a = Len(line') /\ w = WIDTH
    BY Sizes
  <2>2. a \div w \in Nat
    OBVIOUS
  <2>3. a \div w + (IF vga'.col = WIDTH THEN 0 ELSE 1) \in Nat
    BY <2>2
  <2> QED
    BY <2>1, <2>3
<1>2. LineRows' = r
  BY <1>1 DEF LineRows
<1>3. PICK m \in Nat : m = Len(rows')
  OBVIOUS
<1>4. high' = Larger(high, gone' + Len(rows') + r + x)
  BY <1>2, Zenon DEF MeasuredWith, Larger
<1>5. high' \in Nat \ {0}
  BY <1>3, <1>4 DEF Larger
<1>6. ASSUME NEW e \in Nat \ {0}, Len(line') = WIDTH * (e - 1) + vga'.col
      PROVE  e = r
  <2>1. Len(line') \in Nat /\ vga'.col \in 0 .. WIDTH
    BY Fields
  <2> QED
    BY <1>1, <1>6, <2>1, RowsTaken
<1> QED
  BY <1>4, <1>5, <1>6

LEMMA PrintsKeeps ==
  ASSUME TextInv, NEW str \in Seq(Chars), Prints(str), Measured
  PROVE  TextInv'
<1>1. /\ vga \in VgaType /\ rows \in Seq([Col -> Cells]) /\ Len(rows) <= HEIGHT
      /\ gone \in Nat /\ (gone > 0 => Len(rows) = HEIGHT) /\ line \in Seq(Chars) /\ high \in Nat \ {0}
  BY DEF TextInv, TextTypes
<1>2. /\ vga' = FoldLeft(VGA_putc, vga, str) /\ vram' = VGA_flush(vga')
      /\ line' = line \o str /\ rows' = rows /\ gone' = gone
  BY Zenon DEF Prints, Printed
<1>3. PICK n \in Nat : n = Len(str) /\ DOMAIN str = 1 .. n
  OBVIOUS
<1>4. PICK f : Puts(f, vga, str, n) /\ vga' = f[n]
  BY <1>2, <1>3, PrintfPuts
<1>5. vga' \in VgaType /\ (vga.lost => vga'.lost)
  <2>1. \A k \in 1 .. n : str[k] \in Printables
    BY <1>3, Printable DEF Printables
  <2>2. n \in 0 .. n
    OBVIOUS
  <2> QED
    BY <1>1, <1>4, <2>1, <2>2, PutsKeep
<1>6. line' \in Seq(Chars)
  BY <1>1, <1>2
<1>7. /\ high' \in Nat \ {0}
      /\ \A e \in Nat \ {0} : Len(line') = WIDTH * (e - 1) + vga'.col
           => high' = Larger(high, gone' + Len(rows') + e + 0)
  <2>1. 0 \in 0 .. 1 /\ MeasuredWith(0)
    BY DEF Measured
  <2>2. rows' \in Seq([Col -> Cells]) /\ gone' \in Nat
    BY <1>1, <1>2
  <2> QED
    BY <1>1, <1>5, <1>6, <2>1, <2>2, MeasureDoes
<1>8. ASSUME ~vga'.lost
      PROVE  \E e \in Nat \ {0} : Follows(vga', rows', gone', line', high', e)
  <2>1. PICK e \in Nat \ {0} : Follows(vga, rows, gone, line, high, e)
    BY <1>5, <1>8 DEF TextInv
  <2>2. line \in Seq(Cells) /\ Len(str) <= n /\ \A k \in 1 .. Len(str) : str[k] = str[k]
    BY <1>1, <1>3 DEF Cells
  <2>3. PICK e2 \in Nat \ {0} : Follows(f[Len(str)], rows, gone, line \o str, Larger(high, gone + Len(rows) + e2), e2)
    BY <1>1, <1>4, <2>1, <2>2, PutsFollow
  <2>4. Follows(vga', rows', gone', line', Larger(high, gone' + Len(rows') + e2), e2)
    BY <1>2, <1>3, <1>4, <2>3
  <2>5. Len(line') = WIDTH * (e2 - 1) + vga'.col
    BY <2>4 DEF Follows
  <2>6. gone' + Len(rows') + e2 + 0 = gone' + Len(rows') + e2
    BY <1>1, <1>2
  <2>7. high' = Larger(high, gone' + Len(rows') + e2)
    BY <1>7, <2>5, <2>6
  <2> QED
    BY <2>4, <2>7
<1> QED
  BY <1>1, <1>2, <1>5, <1>6, <1>7, <1>8 DEF TextInv, TextTypes

LEMMA PrintsLineKeeps ==
  ASSUME TextInv, NEW str \in Seq(Chars), PrintsLine(str), Measured
  PROVE  TextInv'
<1>1. /\ vga \in VgaType /\ rows \in Seq([Col -> Cells]) /\ Len(rows) <= HEIGHT
      /\ gone \in Nat /\ (gone > 0 => Len(rows) = HEIGHT) /\ line \in Seq(Chars) /\ high \in Nat \ {0}
  BY DEF TextInv, TextTypes
<1>2. PICK full : full = Append(str, NewLine)
  OBVIOUS
<1>3. /\ vga' = FoldLeft(VGA_putc, vga, full) /\ vram' = VGA_flush(vga')
      /\ line' = <<>> /\ Trims(rows, gone, line \o str, rows', gone')
  BY <1>2, Zenon DEF PrintsLine, Printed, Trims
<1>4. PICK w \in Nat, n \in Nat : w = Len(str) /\ n = w + 1
  OBVIOUS
<1>5. /\ DOMAIN full = 1 .. n /\ full[n] = NewLine /\ \A k \in 1 .. w : full[k] = str[k]
  BY <1>2, <1>4
<1>6. PICK f : Puts(f, vga, full, n) /\ vga' = f[n]
  BY <1>3, <1>4, <1>5, PrintfPuts
<1>7. vga' \in VgaType /\ (vga.lost => vga'.lost)
  <2>1. \A k \in 1 .. n : full[k] \in Printables
    <3>1. \A k \in 1 .. n : k = n \/ k \in 1 .. w
      BY <1>4
    <3>2. \A k \in 1 .. w : str[k] \in Chars
      BY <1>4
    <3> QED
      BY <1>5, <3>1, <3>2, Printable DEF Printables
  <2>2. n \in 0 .. n
    BY <1>4
  <2> QED
    BY <1>1, <1>4, <1>6, <2>1, <2>2, PutsKeep
<1>8. PICK l \in Seq(Cells) : l = line \o str
  <2>1. line \in Seq(Cells) /\ str \in Seq(Cells)
    BY <1>1 DEF Cells
  <2>2. line \o str \in Seq(Cells)
    BY <2>1
  <2> QED
    BY <2>2
<1>9. /\ rows' \in Seq([Col -> Cells]) /\ Len(rows') <= HEIGHT
      /\ gone' \in Nat /\ (gone' > 0 => Len(rows') = HEIGHT)
  <2>1. LastRows(rows, gone, l, rows', gone')
    BY <1>1, <1>3, <1>8, Trimmed
  <2> QED
    BY <2>1 DEF LastRows
<1>10. line' \in Seq(Chars)
  BY <1>3
<1>11. /\ high' \in Nat \ {0}
       /\ \A e \in Nat \ {0} : Len(line') = WIDTH * (e - 1) + vga'.col
            => high' = Larger(high, gone' + Len(rows') + e + 0)
  <2>1. 0 \in 0 .. 1 /\ MeasuredWith(0)
    BY DEF Measured
  <2> QED
    BY <1>1, <1>7, <1>9, <1>10, <2>1, MeasureDoes
<1>12. ASSUME ~vga'.lost
       PROVE  \E e \in Nat \ {0} : Follows(vga', rows', gone', line', high', e)
  <2>1. PICK e \in Nat \ {0} : Follows(vga, rows, gone, line, high, e)
    BY <1>7, <1>12 DEF TextInv
  <2>2. line \in Seq(Cells) /\ Len(str) <= n /\ \A k \in 1 .. Len(str) : full[k] = str[k]
    BY <1>1, <1>4, <1>5 DEF Cells
  <2>3. /\ f[Len(str)] \in VgaType
        /\ \E e2 \in Nat \ {0} : Follows(f[Len(str)], rows, gone, line \o str, Larger(high, gone + Len(rows) + e2), e2)
    BY <1>1, <1>6, <2>1, <2>2, PutsFollow
  <2>4. PICK s \in VgaType : s = f[w] /\ s = f[Len(str)]
    BY <1>4, <2>3
  <2>5. PICK e2 \in Nat \ {0} : Follows(s, rows, gone, l, Larger(high, gone + Len(rows) + e2), e2)
    BY <1>8, <2>3, <2>4
  <2>6. PICK h1 \in Nat \ {0}, m \in Nat : h1 = Larger(high, gone + Len(rows) + e2) /\ m = Len(rows)
    <3>1. PICK m \in Nat : m = Len(rows)
      BY <1>1
    <3>2. Larger(high, gone + m + e2) \in Nat \ {0}
      BY <1>1 DEF Larger
    <3> QED
      BY <3>1, <3>2
  <2>7. vga' = VGA_putc(s, NewLine)
    <3>1. n \in 1 .. n /\ n - 1 = w
      BY <1>4
    <3> QED
      BY <1>5, <1>6, <2>4, <3>1 DEF Puts
  <2>8. /\ vga'.col = 0 /\ gone' + Len(rows') + 1 >= gone + Len(rows) + e2
        /\ Follows(vga', rows', gone', <<>>, Larger(h1, gone' + Len(rows') + 1), 1)
    BY <1>1, <1>3, <1>8, <2>5, <2>6, <2>7, EndsLine
  <2>9. Larger(h1, gone' + Len(rows') + 1) = Larger(high, gone' + Len(rows') + 1)
    <3>1. \A x, y \in Nat : y >= x => Larger(Larger(high, x), y) = Larger(high, y)
      BY <1>1 DEF Larger
    <3>2. gone + Len(rows) + e2 \in Nat /\ gone' + Len(rows') + 1 \in Nat
      BY <1>1, <1>9
    <3> QED
      BY <2>6, <2>8, <3>1, <3>2
  <2>10. high' = Larger(high, gone' + Len(rows') + 1)
    <3>1. Len(line') = WIDTH * (1 - 1) + vga'.col
      BY <1>3, <2>8 DEF Follows
    <3>2. 1 \in Nat \ {0} /\ gone' + Len(rows') + 1 + 0 = gone' + Len(rows') + 1
      BY <1>9
    <3> QED
      BY <1>11, <3>1, <3>2
  <2>11. Follows(vga', rows', gone', line', high', 1)
    BY <1>3, <2>8, <2>9, <2>10
  <2> QED
    BY <2>11
<1> QED
  BY <1>1, <1>3, <1>7, <1>9, <1>10, <1>11, <1>12 DEF TextInv, TextTypes

\* An erasure takes the last character off the line.
LEMMA EraseKeeps ==
  ASSUME TextInv, Erase
  PROVE  TextInv'
<1>1. /\ vga \in VgaType /\ rows \in Seq([Col -> Cells]) /\ Len(rows) <= HEIGHT
      /\ gone \in Nat /\ (gone > 0 => Len(rows) = HEIGHT) /\ line \in Seq(Chars) /\ high \in Nat \ {0}
  BY DEF TextInv, TextTypes
<1>2. PICK full : full = <<Backspace, Space, Backspace>>
  OBVIOUS
<1>3. /\ vga' = FoldLeft(VGA_putc, vga, full) /\ vram' = VGA_flush(vga')
      /\ line # <<>> /\ line' = Front(line) /\ rows' = rows /\ gone' = gone
      /\ MeasuredWith(IF vga'.col = WIDTH - 1 THEN 1 ELSE 0)
  BY <1>2, Zenon DEF Erase, Printed
<1>4. DOMAIN full = 1 .. 3 /\ full[1] = Backspace /\ full[2] = Space /\ full[3] = Backspace
  BY <1>2
<1>5. PICK f : Puts(f, vga, full, 3) /\ vga' = f[3]
  <2>1. PICK n \in Nat : n = 3 /\ DOMAIN full = 1 .. n
    BY <1>4
  <2>2. \E f : Puts(f, vga, full, n) /\ FoldLeft(VGA_putc, vga, full) = f[n]
    BY <2>1, PrintfPuts
  <2> QED
    BY <1>3, <2>1, <2>2
<1>6. PICK t, u : /\ t = VGA_putc(vga, Backspace) /\ u = VGA_putc(t, Space)
                  /\ vga' = VGA_putc(u, Backspace)
  <2>1. 1 \in 1 .. 3 /\ 2 \in 1 .. 3 /\ 3 \in 1 .. 3 /\ 1 - 1 = 0 /\ 2 - 1 = 1 /\ 3 - 1 = 2
    OBVIOUS
  <2>2. f[0] = vga /\ f[1] = VGA_putc(f[0], full[1]) /\ f[2] = VGA_putc(f[1], full[2]) /\ f[3] = VGA_putc(f[2], full[3])
    BY <1>5, <2>1 DEF Puts
  <2> QED
    BY <1>4, <1>5, <2>2
<1>7. vga' \in VgaType /\ (vga.lost => vga'.lost)
  <2>1. \A k \in 1 .. 3 : full[k] \in Printables
    <3>1. \A k \in 1 .. 3 : k = 1 \/ k = 2 \/ k = 3
      OBVIOUS
    <3>2. Backspace \in Printables /\ Space \in Printables
      BY DEF Printables, Cells
    <3> QED
      BY <1>4, <3>1, <3>2
  <2>2. 3 \in 0 .. 3 /\ 3 \in Nat
    OBVIOUS
  <2> QED
    BY <1>1, <1>5, <2>1, <2>2, PutsKeep
<1>8. PICK l \in Seq(Chars), last \in Chars : l = Front(line) /\ line = Append(l, last)
  <2>1. PICK m \in Nat \ {0} : m = Len(line)
    <3>1. Len(line) \in Nat \ {0}
      BY <1>1, <1>3
    <3> QED
      BY <3>1
  <2>2. 1 \in 1 .. Len(line) + 1 /\ m - 1 \in 1 - 1 .. Len(line) /\ m \in 1 .. Len(line)
    BY <2>1
  <2>3. SubSeq(line, 1, m - 1) \in Seq(Chars) /\ line[m] \in Chars
    BY <1>1, <2>2, SubSeqProperties
  <2>4. Front(line) = SubSeq(line, 1, m - 1)
    BY <2>1 DEF Front
  <2>5. SubSeq(line, 1, m) = SubSeq(line, 1, m - 1) \o <<line[m]>>
    BY <1>1, <2>2, SubSeqRecursiveSecond
  <2>6. SubSeq(line, 1, m) = line
    BY <1>1, <2>1, SubSeqFull
  <2>7. SubSeq(line, 1, m - 1) \o <<line[m]>> = Append(SubSeq(line, 1, m - 1), line[m])
    BY <2>3
  <2> QED
    BY <2>3, <2>4, <2>5, <2>6, <2>7
<1>9. PICK x \in 0 .. 1 : x = IF vga'.col = WIDTH - 1 THEN 1 ELSE 0
  OBVIOUS
<1>10. /\ high' \in Nat \ {0}
       /\ \A e \in Nat \ {0} : Len(line') = WIDTH * (e - 1) + vga'.col
            => high' = Larger(high, gone' + Len(rows') + e + x)
  <2>1. rows' \in Seq([Col -> Cells]) /\ gone' \in Nat /\ line' \in Seq(Chars) /\ MeasuredWith(x)
    BY <1>1, <1>3, <1>8, <1>9
  <2> QED
    BY <1>1, <1>7, <2>1, MeasureDoes
<1>11. ASSUME ~vga'.lost
       PROVE  \E e \in Nat \ {0} : Follows(vga', rows', gone', line', high', e)
  <2>1. PICK e \in Nat \ {0} : Follows(vga, rows, gone, line, high, e)
    BY <1>7, <1>11 DEF TextInv
  <2>2. l \in Seq(Cells) /\ last \in Cells /\ Follows(vga, rows, gone, Append(l, last), high, e)
    <3>1. l \in Seq(Cells) /\ last \in Cells
      BY DEF Cells
    <3> QED
      BY <1>8, <2>1, <3>1
  <2>3. PICK e2 \in Nat \ {0} :
          Follows(vga', rows, gone, l,
                  Larger(high, gone + Len(rows) + e2 + (IF vga'.col = WIDTH - 1 THEN 1 ELSE 0)), e2)
    BY <1>1, <1>6, <1>11, <2>2, Erases
  <2>4. Follows(vga', rows', gone', line', Larger(high, gone' + Len(rows') + e2 + x), e2)
    BY <1>3, <1>8, <1>9, <2>3
  <2>5. Len(line') = WIDTH * (e2 - 1) + vga'.col
    BY <2>4 DEF Follows
  <2> QED
    BY <1>10, <2>4, <2>5
<1> QED
  BY <1>1, <1>3, <1>7, <1>8, <1>10, <1>11 DEF TextInv, TextTypes

\* A driver that starts with a blank display shows the empty text.
LEMMA StartsEmpty ==
  ASSUME NEW s \in VgaType, \A q \in Row : s.buf[q] = BlankRow,
         s.row = 0, s.col = 0, s.start_row = 0, s.move_row = 0, ~s.stray
  PROVE  Follows(s, <<>>, 0, <<>>, 1, 1)
<1>1. Len(<<>>) = 0 /\ <<>> \in Seq(Cells) /\ <<>> \in Seq([Col -> Cells])
  OBVIOUS
<1>2. Len(<<>>) = WIDTH * (1 - 1) + s.col
  BY <1>1, Sizes
<1>3. 0 + Len(<<>>) + 1 = 1 /\ 1 <= HEIGHT
  BY <1>1, Sizes
<1>4. Cursor(s, 1, 1)
  BY <1>3, Sizes DEF Cursor
<1>5. BlankAt(Page(<<>>, 0, <<>>), 1)
  <2>1. Len(<<>>) <= WIDTH * 0 /\ 0 \in Nat
    BY <1>1, Sizes
  <2>2. BlankAt(Page(<<>>, 0, <<>>), 0 + Len(<<>>) + (0 + 1))
    BY <1>1, <2>1, RestBlank
  <2> QED
    BY <1>1, <2>2
<1>6. Shows(s, Page(<<>>, 0, <<>>), 1, 1)
  <2> SUFFICES ASSUME NEW q \in Row, NEW c \in Col
               PROVE  s.buf[q][c] = Due(s, Page(<<>>, 0, <<>>), 1, 1, q, c)
    BY DEF Shows
  <2>1. s.buf[q][c] = Space
    BY Blanks
  <2>2. q \in Nat /\ TextRow(s, 1, q) = q + 1
    BY <1>3, Sizes DEF TextRow
  <2>3. q + 1 <= 1 => q + 1 = 1
    BY <2>2
  <2> QED
    BY <1>5, <2>1, <2>2, <2>3 DEF Due, BlankAt
<1> QED
  BY <1>2, <1>3, <1>4, <1>6 DEF Follows

LEMMA ClearedKeeps ==
  ASSUME TextInv, Cleared
  PROVE  TextInv'
<1>1. vga \in VgaType
  BY DEF TextInv
<1>2. /\ vga' = VGA_clear_screen(vga) /\ vram' = VGA_flush(vga')
      /\ rows' = <<>> /\ gone' = 0 /\ line' = <<>> /\ high' = 1
  BY Zenon DEF Cleared
<1>3. /\ vga.buf \in [Row -> [Col -> Cells]] /\ vga.row \in 0 .. 255 /\ vga.col \in 0 .. WIDTH
      /\ vga.start_row \in Row /\ vga.move_row \in 0 .. 255
      /\ vga.stray \in BOOLEAN /\ vga.lost \in BOOLEAN
  BY <1>1, Fields
<1>4. PICK b \in [Row -> [Col -> Cells]] : b = [r \in Row |-> IF r < HEIGHT - 1 THEN BlankRow ELSE vga.buf[r]]
  <2>1. [r \in Row |-> IF r < HEIGHT - 1 THEN BlankRow ELSE vga.buf[r]] \in [Row -> [Col -> Cells]]
    BY <1>3, Blanks
  <2> QED
    BY <2>1
<1>5. PICK x \in BOOLEAN : x = (vga.lost \/ vga.move_row # 0 \/ vga.buf[HEIGHT - 1] # BlankRow)
  OBVIOUS
<1>6. vga' = [vga EXCEPT !.buf = b, !.start_row = 0, !.col = 0, !.row = 0, !.lost = x]
  BY <1>2, <1>4, <1>5, Zenon DEF VGA_clear_screen
<1>7. 0 \in Row /\ 0 \in 0 .. WIDTH /\ 0 \in 0 .. 255
  BY Sizes
<1>8. PICK u : u = [vga EXCEPT !.buf = b, !.start_row = 0]
  OBVIOUS
<1>9. u \in VgaType
  BY <1>1, <1>7, <1>8, ZenonT(60) DEF VgaType
<1>10. PICK v : v = [u EXCEPT !.col = 0, !.row = 0]
  OBVIOUS
<1>11. v \in VgaType
  BY <1>7, <1>9, <1>10, ZenonT(60) DEF VgaType
<1>12. vga' = [v EXCEPT !.lost = x]
  BY <1>6, <1>8, <1>10
<1>13. vga' \in VgaType
  BY <1>11, <1>12, ZenonT(60) DEF VgaType
<1>14. /\ vga'.buf = b /\ vga'.row = 0 /\ vga'.col = 0 /\ vga'.start_row = 0
       /\ vga'.move_row = vga.move_row /\ vga'.stray = vga.stray /\ vga'.lost = x
  BY <1>1, <1>6, ZenonT(60) DEF VgaType
<1>15. ASSUME ~vga'.lost PROVE Follows(vga', <<>>, 0, <<>>, 1, 1)
  <2>1. ~vga.lost /\ vga.move_row = 0 /\ vga.buf[HEIGHT - 1] = BlankRow
    BY <1>5, <1>14, <1>15
  <2>2. ~vga.stray
    BY <2>1 DEF TextInv, Follows
  <2>3. \A q \in Row : vga'.buf[q] = BlankRow
    <3>1. \A q \in Row : q < HEIGHT - 1 \/ q = HEIGHT - 1
      BY Sizes
    <3> QED
      BY <1>4, <1>14, <2>1, <3>1
  <2> QED
    BY <1>13, <1>14, <2>1, <2>2, <2>3, StartsEmpty
<1>16. TextTypes(<<>>, 0, <<>>, 1)
  BY Sizes DEF TextTypes
<1> QED
  BY <1>2, <1>13, <1>15, <1>16 DEF TextInv

-----------------------------------------------------------------------------
(* The invariant holds. *)

LEMMA ConsoleInitially == ConsoleInit => ConsoleInv
<1> SUFFICES ASSUME ConsoleInit PROVE ConsoleInv
  OBVIOUS
<1>1. PICK b \in [Row -> [Col -> Cells]] : b = [r \in Row |-> BlankRow] /\ \A r \in Row : b[r] = BlankRow
  <2>1. [r \in Row |-> BlankRow] \in [Row -> [Col -> Cells]]
    BY Blanks
  <2> QED
    BY <2>1
<1>2. 0 \in Row /\ 0 \in 0 .. WIDTH /\ 0 \in 0 .. 255
  BY Sizes
<1>3. /\ vga = [buf |-> b, row |-> 0, col |-> 0, start_row |-> 0, move_row |-> 0, stray |-> FALSE, lost |-> FALSE]
      /\ vram = b /\ typed = 0 /\ rows = <<>> /\ gone = 0 /\ line = <<>> /\ high = 1
  BY <1>1, Zenon DEF ConsoleInit
<1>4. vga \in VgaType
  BY <1>2, <1>3, ZenonT(60) DEF VgaType
<1>5. vga.buf = b /\ vga.row = 0 /\ vga.col = 0 /\ vga.start_row = 0 /\ vga.move_row = 0 /\ ~vga.stray
  BY <1>3
<1>6. Follows(vga, <<>>, 0, <<>>, 1, 1)
  BY <1>1, <1>4, <1>5, StartsEmpty
<1>7. vram = VGA_flush(vga)
  <2>1. \A r \in Row : (r + 0) % HEIGHT \in Row
    <3>1. \A r \in Row : r + 0 \in Nat
      BY Sizes
    <3> QED
      BY <3>1, RingNext
  <2>2. VGA_flush(vga) = [r \in Row |-> BlankRow]
    BY <1>1, <1>5, <2>1 DEF VGA_flush
  <2> QED
    BY <1>1, <1>3, <2>2
<1>8. TextTypes(<<>>, 0, <<>>, 1)
  BY Sizes DEF TextTypes
<1> QED
  <2>1. 1 \in Nat \ {0} /\ Follows(vga, rows, gone, line, high, 1)
    BY <1>3, <1>6
  <2>2. TextTypes(rows, gone, line, high) /\ typed \in Nat
    BY <1>3, <1>8
  <2> QED
    BY <1>4, <1>7, <2>1, <2>2 DEF ConsoleInv, TextInv

LEMMA ConsoleSteps == ConsoleInv /\ [ConsoleNext]_consolevars => ConsoleInv'
<1> SUFFICES ASSUME ConsoleInv, [ConsoleNext]_consolevars PROVE ConsoleInv'
  OBVIOUS
<1>1. TextInv /\ typed \in Nat
  BY DEF ConsoleInv
<1>2. ASSUME NEW c \in Chars, BootMessage(c) PROVE ConsoleInv'
  <2>1. <<c>> \in Seq(Chars)
    OBVIOUS
  <2>2. PrintsLine(<<c>>) /\ Measured /\ typed' = typed
    BY <1>2 DEF BootMessage
  <2>3. TextInv'
    BY <1>1, <2>1, <2>2, PrintsLineKeeps
  <2> QED
    BY <1>1, <2>2, <2>3 DEF ConsoleInv
<1>3. ASSUME NEW c \in Chars, Echo(c) PROVE ConsoleInv'
  <2>1. <<c>> \in Seq(Chars)
    OBVIOUS
  <2>2. Prints(<<c>>) /\ Measured /\ typed' = typed + 1
    BY <1>3 DEF Echo
  <2>3. TextInv'
    BY <1>1, <2>1, <2>2, PrintsKeeps
  <2>4. typed' \in Nat
    BY <1>1, <2>2
  <2> QED
    BY <2>3, <2>4 DEF ConsoleInv
<1>4. ASSUME NEW c \in Chars, Answer(c) PROVE ConsoleInv'
  <2>1. <<c, c>> \in Seq(Chars)
    OBVIOUS
  <2>2. PrintsLine(<<c, c>>) /\ Measured /\ typed' = typed
    BY <1>4 DEF Answer
  <2>3. TextInv'
    BY <1>1, <2>1, <2>2, PrintsLineKeeps
  <2> QED
    BY <1>1, <2>2, <2>3 DEF ConsoleInv
<1>5. ASSUME NEW c \in Chars, Report(c) PROVE ConsoleInv'
  <2>1. <<c>> \in Seq(Chars)
    OBVIOUS
  <2>2. PrintsLine(<<c>>) /\ Measured /\ typed' = typed
    BY <1>5 DEF Report
  <2>3. TextInv'
    BY <1>1, <2>1, <2>2, PrintsLineKeeps
  <2> QED
    BY <1>1, <2>2, <2>3 DEF ConsoleInv
<1>6. ASSUME BootDone \/ Panic PROVE ConsoleInv'
  <2>1. Cleared /\ typed' = typed
    BY <1>6 DEF BootDone, Panic
  <2>2. TextInv'
    BY <1>1, <2>1, ClearedKeeps
  <2> QED
    BY <1>1, <2>1, <2>2 DEF ConsoleInv
<1>7. ASSUME ShellPrompt PROVE ConsoleInv'
  <2>1. Prints(Prompt) /\ Measured /\ typed' = 0
    BY <1>7 DEF ShellPrompt
  <2>2. Prompt \in Seq(Chars)
    BY ConsoleAssumption
  <2>3. TextInv'
    BY <1>1, <2>1, <2>2, PrintsKeeps
  <2> QED
    BY <2>1, <2>3 DEF ConsoleInv
<1>8. ASSUME Erase PROVE ConsoleInv'
  <2>1. typed > 0 /\ typed' = typed - 1
    BY <1>8 DEF Erase
  <2>2. typed' \in Nat
    BY <1>1, <2>1
  <2>3. TextInv'
    BY <1>1, <1>8, EraseKeeps
  <2> QED
    BY <2>2, <2>3 DEF ConsoleInv
<1>9. ASSUME Enter PROVE ConsoleInv'
  <2>1. <<>> \in Seq(Chars)
    OBVIOUS
  <2>2. PrintsLine(<<>>) /\ Measured /\ typed' = 0
    BY <1>9 DEF Enter
  <2>3. TextInv'
    BY <1>1, <2>1, <2>2, PrintsLineKeeps
  <2> QED
    BY <2>2, <2>3 DEF ConsoleInv
<1>10. ASSUME UNCHANGED consolevars PROVE ConsoleInv'
  BY <1>1, <1>10 DEF ConsoleInv, TextInv, consolevars
<1> QED
  BY <1>2, <1>3, <1>4, <1>5, <1>6, <1>7, <1>8, <1>9, <1>10 DEF ConsoleNext

\* The driver follows the text through every output of kernel_main, the shell and
\* fault_handler (vga.c:35-123), unless an erasure or a full screen disorients it.
THEOREM ConsoleInvariant == ConsoleSpec => []ConsoleInv
  BY ConsoleInitially, ConsoleSteps, PTL DEF ConsoleSpec

-----------------------------------------------------------------------------
(* What the invariant says of the display. *)

\* The text and the cursor, when the cursor is not lost.
LEMMA TextIs ==
  ASSUME ConsoleInv, ~vga.lost
  PROVE  \E e \in Nat \ {0}, n \in Nat \ {0} :
           /\ Follows(vga, rows, gone, line, high, e)
           /\ LineRows = e /\ n = gone + Len(rows) + e
           /\ Len(Text) = Len(rows) + e
           /\ \A k \in 1 .. Len(rows) + e, c \in Col : Text[k][c] = Page(rows, gone, line)[gone + k][c]
           /\ Above = high - n
<1>1. /\ vga \in VgaType /\ rows \in Seq([Col -> Cells]) /\ gone \in Nat /\ line \in Seq(Chars) /\ high \in Nat \ {0}
  BY DEF ConsoleInv, TextInv, TextTypes
<1>2. PICK e \in Nat \ {0} : Follows(vga, rows, gone, line, high, e)
  BY DEF ConsoleInv, TextInv
<1>3. vga.col \in 0 .. WIDTH /\ Len(line) \in Nat /\ Len(line) = WIDTH * (e - 1) + vga.col
  BY <1>1, <1>2, Fields DEF Follows
<1>4. LineRows = e
  BY <1>3, RowsTaken DEF LineRows
<1>5. PICK m \in Nat, n \in Nat \ {0} : m = Len(rows) /\ n = gone + Len(rows) + e /\ n = gone + m + e
  BY <1>1
<1>6. PICK R \in Seq([Col -> Cells]) : /\ R = Rows(line) /\ Len(R) >= e /\ Len(R) \in Nat
                                       /\ \A k \in 1 .. e : R[k] = RowOf(line, k - 1)
  <2>1. line \in Seq(Cells)
    BY <1>1 DEF Cells
  <2>2. /\ Rows(line) \in Seq([Col -> Cells]) /\ Len(Rows(line)) = Len(line) \div WIDTH + 1
        /\ \A k \in 1 .. Len(line) \div WIDTH + 1 : Rows(line)[k] = RowOf(line, k - 1)
        /\ Len(line) \div WIDTH \in Nat
    BY <2>1, RowsOf, Zenon
  <2>3. Len(line) \div WIDTH + 1 >= e
    BY <1>4, <2>2 DEF LineRows
  <2> QED
    BY <2>2, <2>3
<1>7. PICK S \in Seq([Col -> Cells]) : /\ S = SubSeq(Rows(line), 1, LineRows) /\ Len(S) = e
                                       /\ \A k \in 1 .. e : S[k] = RowOf(line, k - 1)
  <2>1. 1 \in 1 .. Len(R) + 1 /\ e \in 1 - 1 .. Len(R) /\ 1 <= e /\ e - 1 + 1 = e /\ \A k \in 1 .. e : 1 + k - 1 = k
    BY <1>6
  <2>2. /\ SubSeq(R, 1, e) \in Seq([Col -> Cells]) /\ Len(SubSeq(R, 1, e)) = IF 1 <= e THEN e - 1 + 1 ELSE 0
        /\ \A k \in 1 .. e - 1 + 1 : SubSeq(R, 1, e)[k] = R[1 + k - 1]
    BY <2>1, SubSeqProperties
  <2>3. SubSeq(R, 1, e) = SubSeq(Rows(line), 1, LineRows)
    BY <1>4, <1>6, Zenon
  <2>4. Len(SubSeq(R, 1, e)) = e
    BY <2>1, <2>2
  <2>5. ASSUME NEW k \in 1 .. e
        PROVE  SubSeq(R, 1, e)[k] = RowOf(line, k - 1)
    <3>1. k \in 1 .. e - 1 + 1 /\ 1 + k - 1 = k
      BY <2>1
    <3>2. SubSeq(R, 1, e)[k] = R[k]
      BY <2>2, <3>1, Zenon
    <3> QED
      BY <1>6, <3>2, Zenon
  <2> QED
    BY <2>2, <2>3, <2>4, <2>5, Zenon
<1>8. Text = rows \o S
  BY <1>7, Zenon DEF Text
<1>9. Len(Text) = m + e
  BY <1>1, <1>5, <1>7, <1>8
<1>10. ASSUME NEW k \in 1 .. m + e, NEW c \in Col
       PROVE  Text[k][c] = Page(rows, gone, line)[gone + k][c]
  <2>1. gone + k \in Nat \ {0} /\ ~(gone + k <= gone) /\ gone + k - gone = k
    BY <1>1
  <2>2. CASE k <= m
    <3>1. Page(rows, gone, line)[gone + k] = rows[k]
      BY <1>1, <1>5, <2>1, <2>2 DEF Page
    <3>2. Text[k] = rows[k]
      BY <1>1, <1>5, <1>8, <2>2
    <3> QED
      BY <3>1, <3>2
  <2>3. CASE ~(k <= m)
    <3>1. PICK x \in 1 .. e : k = m + x /\ gone + k - (gone + m) - 1 = x - 1 /\ ~(gone + k <= gone + m)
      BY <1>1, <2>3
    <3>2. Page(rows, gone, line)[gone + k] = RowOf(line, x - 1)
      <4>1. PICK j \in Nat \ {0} : j = gone + k
        BY <2>1
      <4>2. ~(j <= gone) /\ ~(j <= gone + m) /\ j - (gone + m) - 1 = x - 1
        BY <1>1, <2>1, <3>1, <4>1
      <4>3. ~(j <= gone) /\ ~(j <= gone + Len(rows)) /\ j - (gone + Len(rows)) - 1 = x - 1
        BY <1>5, <4>2
      <4> QED
        BY <4>1, <4>3 DEF Page
    <3>3. Text[k] = S[x]
      <4>1. \A y \in 1 .. Len(S) : (rows \o S)[Len(rows) + y] = S[y]
        <5>1. ASSUME NEW y \in 1 .. Len(S) PROVE (rows \o S)[Len(rows) + y] = S[y]
          <6>1. /\ Len(rows) + y \in 1 .. Len(rows) + Len(S) /\ ~(Len(rows) + y <= Len(rows))
                /\ Len(rows) + y - Len(rows) = y
            BY <1>1, <1>7
          <6> QED
            BY <1>1, <1>7, <6>1
        <5> QED
          BY <5>1
      <4> QED
        BY <1>5, <1>7, <1>8, <3>1, <4>1
    <3> QED
      BY <1>7, <3>1, <3>2, <3>3
  <2> QED
    BY <2>2, <2>3
<1>11. Above = high - n
  <2>1. gone + (m + e) = n
    BY <1>1, <1>5
  <2> QED
    BY <1>9, <2>1 DEF Above
<1> QED
  BY <1>2, <1>4, <1>5, <1>9, <1>10, <1>11

\* move_row counts how far the cursor is above the bottom of the text, unless an
\* erasure or a full screen has disoriented the driver: a state of vga.c:65-71 in which
\* it did not would scroll too early or too late.
THEOREM MoveRowCountsBackUntilLost == ConsoleSpec => []MoveRowCountsBack
<1>1. ConsoleInv => MoveRowCountsBack
  <2> SUFFICES ASSUME ConsoleInv, ~vga.lost, high >= HEIGHT
               PROVE  uint8(vga.start_row - vga.move_row) = Above
    BY DEF MoveRowCountsBack
  <2>1. PICK e \in Nat \ {0}, n \in Nat \ {0} :
          /\ Follows(vga, rows, gone, line, high, e) /\ n = gone + Len(rows) + e /\ Above = high - n
    BY TextIs
  <2>2. Cursor(vga, n, high) /\ n <= high
    BY <2>1 DEF Follows
  <2>3. vga \in VgaType /\ high \in Nat \ {0}
    BY DEF ConsoleInv, TextInv, TextTypes
  <2>4. vga.start_row \in Nat /\ vga.start_row < HEIGHT /\ vga.move_row \in 0 .. 255
    BY <2>3, Fields, Sizes
  <2>5. vga.start_row - vga.move_row = high - n /\ high - n \in 0 .. 255
    BY <2>2, <2>3, <2>4, Sizes DEF Cursor
  <2> QED
    BY <2>1, <2>5, Bytes
<1> QED
  BY <1>1, ConsoleInvariant, PTL

\* The ring row of a display row, and the row of the text that is due there.
LEMMA RingAdd ==
  ASSUME NEW r \in Row, NEW a \in Row
  PROVE  (r + a) % HEIGHT = IF r + a < HEIGHT THEN r + a ELSE (r + a) - HEIGHT
<1>1. PICK x \in Nat, b \in Nat \ {0} : x = r + a /\ b = HEIGHT /\ x < b + b
  <2>1. r \in Nat /\ a \in Nat /\ r < HEIGHT /\ a < HEIGHT /\ HEIGHT \in Nat \ {0}
    BY Sizes
  <2>2. r + a \in Nat /\ r + a < HEIGHT + HEIGHT
    BY <2>1
  <2> QED
    BY <2>1, <2>2
<1>2. x % b = IF x < b THEN x ELSE x - b
  <2>1. x < b => x % b = x
    OBVIOUS
  <2>2. x >= b => x % b = x - b
    BY <1>1
  <2> QED
    BY <2>1, <2>2
<1> QED
  BY <1>1, <1>2, Zenon

LEMMA RowShown ==
  ASSUME NEW s \in VgaType, NEW h \in Nat \ {0}, NEW r \in Row, NEW q,
         q = IF r + s.start_row < HEIGHT THEN r + s.start_row ELSE (r + s.start_row) - HEIGHT
  PROVE  /\ q \in Row /\ (q = s.start_row <=> r = 0)
         /\ h <= HEIGHT /\ s.start_row = 0 => TextRow(s, h, q) = r + 1
         /\ h > HEIGHT => TextRow(s, h, q) = r + 1 + h - HEIGHT
<1>1. r \in Nat /\ r < HEIGHT /\ s.start_row \in Nat /\ s.start_row < HEIGHT
  BY Fields, Sizes
<1>2. q = IF r + s.start_row < HEIGHT THEN r + s.start_row ELSE (r + s.start_row) - HEIGHT
  OBVIOUS
<1>3. q \in Row /\ (q = s.start_row <=> r = 0)
  <2>1. CASE r + s.start_row < HEIGHT
    <3>1. q = r + s.start_row
      BY <1>2, <2>1
    <3> QED
      BY <1>1, <2>1, <3>1, Sizes
  <2>2. CASE ~(r + s.start_row < HEIGHT)
    <3>1. q = (r + s.start_row) - HEIGHT
      BY <1>2, <2>2, Zenon
    <3> QED
      BY <1>1, <2>2, <3>1, Sizes
  <2> QED
    BY <2>1, <2>2
<1>4. h <= HEIGHT /\ s.start_row = 0 => TextRow(s, h, q) = r + 1
  BY <1>1, <1>2 DEF TextRow
<1>5. ASSUME h > HEIGHT PROVE TextRow(s, h, q) = r + 1 + h - HEIGHT
  <2>1. CASE r + s.start_row < HEIGHT
    <3>1. q = r + s.start_row /\ ~(q < s.start_row) /\ ~(h <= HEIGHT)
      BY <1>1, <1>2, <1>5, <2>1, Sizes
    <3>2. TextRow(s, h, q) = q + 1 + h - s.start_row - HEIGHT
      BY <3>1 DEF TextRow
    <3> QED
      BY <1>1, <3>1, <3>2, Sizes
  <2>2. CASE ~(r + s.start_row < HEIGHT)
    <3>1. q = r + s.start_row - HEIGHT /\ q < s.start_row /\ ~(h <= HEIGHT)
      BY <1>1, <1>2, <1>5, <2>2, Sizes
    <3>2. TextRow(s, h, q) = q + 1 + h - s.start_row
      BY <3>1 DEF TextRow
    <3> QED
      BY <1>1, <3>1, <3>2, Sizes
  <2> QED
    BY <2>1, <2>2
<1> QED
  BY <1>3, <1>4, <1>5

\* The next character goes where the text ends (vga.c:60-109), unless an erasure or
\* a full screen has disoriented the driver.
THEOREM CursorFollowsTextUntilLost == ConsoleSpec => []CursorFollowsText
<1>1. ConsoleInv => CursorFollowsText
  <2> SUFFICES ASSUME ConsoleInv, ~vga.lost
               PROVE  /\ vga.row = (vga.start_row + CursorRow) % HEIGHT
                      /\ vga.col = Len(line) - WIDTH * (LineRows - 1)
    BY DEF CursorFollowsText
  <2>1. PICK e \in Nat \ {0}, n \in Nat \ {0} :
          /\ Follows(vga, rows, gone, line, high, e) /\ LineRows = e
          /\ n = gone + Len(rows) + e /\ Len(Text) = Len(rows) + e /\ Above = high - n
    BY TextIs
  <2>2. Cursor(vga, n, high) /\ n <= high /\ Len(line) = WIDTH * (e - 1) + vga.col
    BY <2>1 DEF Follows
  <2>3. /\ vga \in VgaType /\ high \in Nat \ {0} /\ gone \in Nat /\ Len(rows) \in Nat
        /\ (gone > 0 => Len(rows) = HEIGHT)
    BY DEF ConsoleInv, TextInv, TextTypes
  <2>4. vga.start_row \in Nat /\ vga.start_row < HEIGHT /\ vga.row \in 0 .. 255 /\ vga.col \in Nat
    BY <2>3, Fields, Sizes
  <2>5. vga.col = Len(line) - WIDTH * (LineRows - 1)
    <3>1. WIDTH * (e - 1) \in Nat
      BY Sizes
    <3> QED
      BY <2>1, <2>2, <2>4, <3>1
  <2>6. PICK r \in Row : /\ r = CursorRow
                         /\ high <= HEIGHT => r = n - 1
                         /\ high > HEIGHT => r = HEIGHT - 1 - (high - n)
    <3>1. CASE high <= HEIGHT
      <4>1. n = high /\ gone = 0 /\ n = Len(rows) + e
        BY <2>1, <2>2, <2>3, <3>1, Sizes DEF Cursor
      <4>2. CursorRow = n - 1
        BY <2>1, <3>1, <4>1 DEF CursorRow
      <4> QED
        BY <2>3, <3>1, <4>1, <4>2, Sizes
    <3>2. CASE high > HEIGHT
      <4>1. CursorRow = HEIGHT - 1 - (high - n)
        BY <2>1, <2>3, <3>2, Sizes DEF CursorRow
      <4>2. high - n < HEIGHT
        BY <2>2, <2>3, <2>4, <3>2, Sizes DEF Cursor
      <4> QED
        BY <2>2, <2>3, <3>2, <4>1, <4>2, Sizes
    <3> QED
      BY <2>3, <3>1, <3>2, Sizes
  <2>7. PICK q : q = (r + vga.start_row) % HEIGHT
    OBVIOUS
  <2>8. /\ q \in Row
        /\ high <= HEIGHT /\ vga.start_row = 0 => TextRow(vga, high, q) = r + 1
        /\ high > HEIGHT => TextRow(vga, high, q) = r + 1 + high - HEIGHT
    <3>1. vga.start_row \in Row
      BY <2>3, Fields
    <3>2. q = IF r + vga.start_row < HEIGHT THEN r + vga.start_row ELSE (r + vga.start_row) - HEIGHT
      BY <2>7, <3>1, RingAdd, Zenon
    <3> QED
      BY <2>3, <3>2, RowShown
  <2>9. TextRow(vga, high, q) = n
    <3>1. r \in Nat
      BY Sizes
    <3>2. CASE high <= HEIGHT
      <4>1. vga.start_row = 0
        BY <2>2, <3>2 DEF Cursor
      <4> QED
        BY <2>6, <2>8, <3>1, <3>2, <4>1
    <3>3. CASE high > HEIGHT
      BY <2>3, <2>6, <2>8, <3>1, <3>3, Sizes
    <3> QED
      BY <2>3, <3>2, <3>3, Sizes
  <2>10. q = vga.row
    BY <2>2, <2>3, <2>8, <2>9, CursorAt
  <2>11. r + vga.start_row = vga.start_row + CursorRow
    BY <2>4, <2>6, Sizes
  <2> QED
    BY <2>5, <2>7, <2>10, <2>11
<1> QED
  BY <1>1, ConsoleInvariant, PTL

\* The display shows the text (vga.c:60-109): whatever is printed, wrapped or erased,
\* however long, on a screen of any size, unless an erasure or a full screen has
\* disoriented the driver.
THEOREM DisplayShowsTextUntilLost == ConsoleSpec => []DisplayShowsText
<1>1. ConsoleInv => DisplayShowsText
  <2> SUFFICES ASSUME ConsoleInv, ~vga.lost, NEW r \in Row, NEW c \in Col, NEW k,
                      k = Len(Text) - (CursorRow - r), ~FirstScroll(r, c)
               PROVE  vram[r][c] = IF k \in 1 .. Len(Text) /\ (high > HEIGHT => r > 0) THEN Text[k][c] ELSE Space
    BY DEF DisplayShowsText
  <2>1. PICK e \in Nat \ {0}, n \in Nat \ {0} :
          /\ Follows(vga, rows, gone, line, high, e)
          /\ n = gone + Len(rows) + e /\ Len(Text) = Len(rows) + e /\ Above = high - n
          /\ \A j \in 1 .. Len(rows) + e, d \in Col : Text[j][d] = Page(rows, gone, line)[gone + j][d]
    BY TextIs
  <2>2. PICK P : P = Page(rows, gone, line)
    OBVIOUS
  <2>3. Cursor(vga, n, high) /\ n <= high /\ Shows(vga, P, n, high)
    BY <2>1, <2>2 DEF Follows
  <2>4. /\ vga \in VgaType /\ high \in Nat \ {0} /\ gone \in Nat /\ Len(rows) \in Nat
        /\ (gone > 0 => Len(rows) = HEIGHT) /\ vram = VGA_flush(vga)
    BY DEF ConsoleInv, TextInv, TextTypes
  <2>5. PICK m \in Nat : m = Len(Text) /\ m = Len(rows) + e /\ n = gone + m
    BY <2>1, <2>4
  <2>6. r \in Nat /\ r < HEIGHT /\ vga.start_row \in Nat /\ vga.start_row < HEIGHT /\ vga.col \in Nat /\ c \in Nat
    BY <2>4, Fields, Sizes
  <2>7. PICK q : q = (r + vga.start_row) % HEIGHT
    OBVIOUS
  <2>8. /\ q \in Row /\ (q = vga.start_row <=> r = 0)
        /\ high <= HEIGHT /\ vga.start_row = 0 => TextRow(vga, high, q) = r + 1
        /\ high > HEIGHT => TextRow(vga, high, q) = r + 1 + high - HEIGHT
    <3>1. vga.start_row \in Row
      BY <2>4, Fields
    <3>2. q = IF r + vga.start_row < HEIGHT THEN r + vga.start_row ELSE (r + vga.start_row) - HEIGHT
      BY <2>7, <3>1, RingAdd, Zenon
    <3> QED
      BY <2>4, <3>2, RowShown
  <2>9. k \in Int /\ TextRow(vga, high, q) = gone + k
    <3>1. CASE high <= HEIGHT
      <4>1. vga.start_row = 0 /\ n = high /\ gone = 0
        BY <2>3, <2>4, <2>5, <3>1, <2>1, Sizes, SMTT(40) DEF Cursor
      <4>2. CursorRow = m - 1
        BY <2>5, <3>1 DEF CursorRow
      <4>3. k = r + 1
        BY <2>5, <2>6, <4>2
      <4> QED
        BY <2>6, <2>8, <3>1, <4>1, <4>3
    <3>2. CASE high > HEIGHT
      <4>1. CursorRow = HEIGHT - 1 - (high - n)
        BY <2>1, <2>4, <3>2, Sizes, SMTT(40) DEF CursorRow
      <4>2. k = m - (HEIGHT - 1 - (high - n) - r)
        BY <2>5, <4>1
      <4>3. k = (r + 1 + high - HEIGHT) - gone
        <5>1. \A x, y, z, w \in Int : w - (x - 1 - (y - (z + w)) - r) = (r + 1 + y - x) - z
          BY <2>6
        <5>2. m - (HEIGHT - 1 - (high - (gone + m)) - r) = (r + 1 + high - HEIGHT) - gone
          BY <2>4, <2>5, <5>1, Sizes
        <5> QED
          BY <2>5, <4>2, <5>2
      <4>4. \A x \in Int : x - gone \in Int /\ gone + (x - gone) = x
        BY <2>4
      <4>5. PICK x \in Int : x = r + 1 + high - HEIGHT
        BY <2>4, <2>6, Sizes
      <4>6. TextRow(vga, high, q) = x
        BY <2>8, <3>2, <4>5
      <4>7. k = x - gone
        BY <4>3, <4>5, Zenon
      <4> QED
        BY <4>4, <4>6, <4>7
    <3> QED
      BY <2>4, <3>1, <3>2, Sizes
  <2>10. vram[r][c] = vga.buf[q][c]
    BY <2>4, <2>7 DEF VGA_flush
  <2>11. ~Uncleared(vga, n, high, q, c)
    <3> SUFFICES ASSUME high = HEIGHT + 1, TextRow(vga, high, q) = n, c >= vga.col PROVE FALSE
      BY DEF Uncleared
    <3>1. vga.start_row = 1 /\ high - n < 1 /\ high > HEIGHT
      BY <2>3, Sizes DEF Cursor
    <3>2. n = high
      BY <2>3, <2>4, <3>1
    <3>3. r = HEIGHT - 1
      BY <2>6, <2>8, <3>1, <3>2, Sizes
    <3>4. CursorRow = HEIGHT - 1
      <4>1. Above = 0
        BY <2>1, <2>4, <3>2
      <4>2. ~(high <= HEIGHT) /\ HEIGHT - 1 - 0 = HEIGHT - 1
        BY <2>4, <3>1, Sizes
      <4> QED
        BY <4>1, <4>2 DEF CursorRow
    <3> QED
      BY <3>3, <3>4 DEF FirstScroll
  <2>12. vga.buf[q][c] = Due(vga, P, n, high, q, c)
    BY <2>3, <2>8, <2>11 DEF Shows
  <2>13. gone + k <= n <=> k <= m
    BY <2>4, <2>5, <2>9
  <2>14. r > 0 <=> r # 0
    BY <2>6
  <2>15. high > HEIGHT => (r > 0 => k >= 1)
    <3> SUFFICES ASSUME high > HEIGHT, r > 0 PROVE k >= 1
      OBVIOUS
    <3>1. gone + k = r + 1 + high - HEIGHT
      BY <2>8, <2>9
    <3>2. gone = 0 \/ (gone > 0 /\ n = gone + HEIGHT + e)
      <4>1. gone = 0 \/ gone > 0
        BY <2>4
      <4> QED
        BY <2>1, <2>4, <4>1
    <3> QED
      BY <2>3, <2>4, <2>6, <2>9, <3>1, <3>2, Sizes
  <2>16. ~(high > HEIGHT) => k >= 1
    <3> SUFFICES ASSUME ~(high > HEIGHT) PROVE k >= 1
      OBVIOUS
    <3>1. high <= HEIGHT
      BY <2>4, Sizes
    <3>2. vga.start_row = 0 /\ n = high /\ gone = 0
      BY <2>3, <2>4, <2>5, <3>1, <2>1, Sizes DEF Cursor
    <3> QED
      BY <2>6, <2>8, <2>9, <3>1, <3>2
  <2>17. CASE k \in 1 .. m /\ (high > HEIGHT => r > 0)
    <3>1. gone + k <= n /\ ~(high > HEIGHT /\ q = vga.start_row)
      BY <2>6, <2>8, <2>13, <2>17
    <3>2. Due(vga, P, n, high, q, c) = P[gone + k][c]
      BY <2>9, <3>1 DEF Due
    <3>3. Text[k][c] = P[gone + k][c]
      BY <2>1, <2>2, <2>5, <2>17
    <3> QED
      BY <2>5, <2>10, <2>12, <2>17, <3>2, <3>3
  <2>18. CASE ~(k \in 1 .. m /\ (high > HEIGHT => r > 0))
    <3>1. ~(gone + k <= n /\ ~(high > HEIGHT /\ q = vga.start_row))
      BY <2>5, <2>8, <2>9, <2>13, <2>14, <2>15, <2>16, <2>18
    <3>2. Due(vga, P, n, high, q, c) = Space
      BY <2>9, <3>1 DEF Due
    <3> QED
      BY <2>5, <2>10, <2>12, <2>18, <3>2
  <2> QED
    BY <2>17, <2>18
<1> QED
  BY <1>1, ConsoleInvariant, PTL

-----------------------------------------------------------------------------
(* The cursor's row, lost or not. *)

\* After m characters of a line that starts in row n + 1 of the text, the cursor is in
\* the e-th row of the line, and if ok, in its row of the ring.
Tracks(s, n, m, e, ok) ==
  /\ s \in VgaType /\ m = WIDTH * (e - 1) + s.col
  /\ ok => ~s.stray /\ s.row = (n + e - 1) % HEIGHT

\* Erasing the m-th character goes back over the start of the ring.
Turns(n, m) == m % WIDTH = 0 /\ (n + m \div WIDTH) % HEIGHT = 0

\* The remainder of a division is unique.
LEMMA ModIs ==
  ASSUME NEW w \in Nat \ {0}, NEW a \in Nat, NEW c \in 0 .. w - 1, NEW m, m = w * a + c
  PROVE  m % w = c
<1>1. PICK k \in Nat : k = m
  OBVIOUS
<1>2. PICK q \in Nat, r \in 0 .. w - 1 : q = k \div w /\ r = k % w /\ q * w + r = k
  <2>1. k \div w \in Nat /\ k % w \in 0 .. w - 1
    OBVIOUS
  <2>2. (k \div w) * w + (k % w) = k
    OBVIOUS
  <2> QED
    BY <2>1, <2>2
<1>3. ASSUME NEW x \in Nat, NEW y \in Nat, x < y PROVE x * w + w <= y * w
  <2>1. PICK z \in Nat : y = x + 1 + z
    <3>1. y - x - 1 \in Nat /\ y = x + 1 + (y - x - 1)
      BY <1>3
    <3> QED
      BY <3>1
  <2>2. y * w = x * w + w + z * w /\ z * w \in Nat /\ x * w \in Nat
    BY <2>1
  <2> QED
    BY <2>2
<1>4. a * w = w * a /\ a * w \in Nat /\ q * w \in Nat
  OBVIOUS
<1>5. ~(a < q)
  BY <1>1, <1>2, <1>3, <1>4
<1>6. ~(q < a)
  BY <1>1, <1>2, <1>3, <1>4
<1>7. a = q
  BY <1>5, <1>6
<1> QED
  BY <1>1, <1>2, <1>4, <1>7

\* The next row of the text is the next row of the ring.
LEMMA RingFollows ==
  ASSUME NEW a \in Nat
  PROVE  /\ ((a % HEIGHT) + 1) % HEIGHT = (a + 1) % HEIGHT /\ a % HEIGHT \in Row
         /\ (a + 1) % HEIGHT # 0 => a % HEIGHT = ((a + 1) % HEIGHT) - 1
<1>0. PICK h \in Nat \ {0} : h = HEIGHT /\ 2 <= h
  BY Sizes
<1>1. PICK q \in Nat, r \in 0 .. h - 1 : r = a % h /\ a = h * q + r
  <2>2. a \div h \in Nat /\ a % h \in 0 .. h - 1
    OBVIOUS
  <2>3. (a \div h) * h + (a % h) = a /\ (a \div h) * h = h * (a \div h)
    BY <2>2
  <2> QED
    BY <2>2, <2>3
<1>2. h * q \in Nat /\ h * (q + 1) = h * q + h
  OBVIOUS
<1>3. CASE r < h - 1
  <2>1. r + 1 \in 0 .. h - 1 /\ a + 1 = h * q + (r + 1)
    BY <1>1, <1>2, <1>3
  <2>2. (a + 1) % h = r + 1
    <3>1. PICK p \in Nat, c \in 0 .. h - 1, k \in Nat : p = q /\ c = r + 1 /\ k = a + 1 /\ k = h * p + c
      BY <2>1
    <3>2. k = h * p + c
      BY <3>1
    <3>3. k % h = c
      BY <3>2, ModIs, Zenon
    <3> QED
      BY <3>1, <3>3
  <2>3. (r + 1) % h = r + 1
    BY <2>1
  <2>4. r + 1 - 1 = r /\ r \in Row
    BY <1>0, Sizes
  <2> QED
    BY <1>0, <1>1, <2>2, <2>3, <2>4
<1>4. CASE r = h - 1
  <2>1. 0 \in 0 .. h - 1 /\ q + 1 \in Nat /\ a + 1 = h * (q + 1) + 0
    BY <1>1, <1>2, <1>4
  <2>2. (a + 1) % h = 0
    <3>1. PICK p \in Nat, c \in 0 .. h - 1, k \in Nat : p = q + 1 /\ c = 0 /\ k = a + 1 /\ k = h * p + c
      BY <2>1
    <3>2. k = h * p + c
      BY <3>1
    <3>3. k % h = c
      BY <3>2, ModIs, Zenon
    <3> QED
      BY <3>1, <3>3
  <2>3. (r + 1) % h = 0
    BY <1>1, <1>4
  <2> QED
    BY <1>0, <1>1, <2>2, <2>3, Sizes
<1> QED
  BY <1>1, <1>3, <1>4

\* A line feed at the right margin.
LEMMA FeedTracks ==
  ASSUME NEW s, NEW n \in Nat, NEW m \in Nat, NEW e \in Nat \ {0}, NEW ok \in BOOLEAN,
         Tracks(s, n, m, e, ok)
  PROVE  /\ LineFeed(s) \in VgaType /\ LineFeed(s).col = 0
         /\ ok => ~LineFeed(s).stray /\ LineFeed(s).row = (n + e) % HEIGHT
         /\ s.col = WIDTH => Tracks(LineFeed(s), n, m, e + 1, ok)
<1>1. PICK t : t = LineFeed(s)
  OBVIOUS
<1>2. t \in VgaType /\ t.row = (s.row + 1) % HEIGHT /\ t.col = 0 /\ t.stray = s.stray
  BY <1>1, LineFeedDoes DEF LineFed, Tracks
<1>3. PICK a \in Nat : a = n + e - 1 /\ a + 1 = n + e
  OBVIOUS
<1>4. ok => t.row = (n + e) % HEIGHT /\ ~t.stray
  <2>1. ok => s.row = a % HEIGHT /\ ~s.stray
    BY <1>3 DEF Tracks
  <2>2. ((a % HEIGHT) + 1) % HEIGHT = (a + 1) % HEIGHT
    BY RingFollows
  <2> QED
    BY <1>2, <1>3, <2>1, <2>2
<1>5. ASSUME s.col = WIDTH PROVE Tracks(t, n, m, e + 1, ok)
  <2>1. m = WIDTH * (e - 1) + WIDTH
    BY <1>5 DEF Tracks
  <2>2. m = WIDTH * ((e + 1) - 1) + t.col
    BY <1>2, <2>1, Sizes
  <2>3. n + (e + 1) - 1 = n + e
    OBVIOUS
  <2> QED
    BY <1>2, <1>4, <2>2, <2>3 DEF Tracks
<1> QED
  BY <1>1, <1>2, <1>4, <1>5

\* Before every character the cursor leaves the right margin.
LEMMA OffMargin ==
  ASSUME NEW s, NEW n \in Nat, NEW m \in Nat, NEW e \in Nat \ {0}, NEW ok \in BOOLEAN,
         Tracks(s, n, m, e, ok), NEW t, t = IF s.col = WIDTH THEN LineFeed(s) ELSE s
  PROVE  \E i \in Nat \ {0} : Tracks(t, n, m, i, ok) /\ t.col \in Col
<1>1. CASE s.col = WIDTH
  <2>1. e + 1 \in Nat \ {0} /\ Tracks(t, n, m, e + 1, ok) /\ t.col = 0
    BY <1>1, FeedTracks
  <2> QED
    BY <2>1, Sizes
<1>2. CASE s.col # WIDTH
  <2>1. s.col \in Col /\ t = s
    BY <1>2, Fields, Sizes DEF Tracks
  <2> QED
    BY <2>1
<1> QED
  BY <1>1, <1>2

\* A character.
LEMMA CellTracks ==
  ASSUME NEW s, NEW n \in Nat, NEW m \in Nat, NEW e \in Nat \ {0}, NEW ok \in BOOLEAN,
         Tracks(s, n, m, e, ok), NEW ch \in Cells, ch # NewLine, ch # Backspace
  PROVE  \E i \in Nat \ {0} : Tracks(VGA_putc(s, ch), n, m + 1, i, ok)
<1>1. PICK t : t = IF s.col = WIDTH THEN LineFeed(s) ELSE s
  OBVIOUS
<1>2. PICK i \in Nat \ {0} : Tracks(t, n, m, i, ok) /\ t.col \in Col
  BY <1>1, OffMargin
<1>3. PICK w : w = VGA_set(t, t.row, t.col, ch)
  OBVIOUS
<1>4. PICK v : v = [w EXCEPT !.col = @ + 1]
  OBVIOUS
<1>5. VGA_putc(s, ch) = v
  BY <1>1, <1>3, <1>4 DEF VGA_putc
<1>6. v \in VgaType
  BY <1>5, PutcKeeps DEF Tracks
<1>7. t \in VgaType /\ t.col \in Nat
  BY <1>2, Sizes DEF Tracks
<1>8. w.col = t.col /\ w.row = t.row /\ (ok => w.stray = t.stray) /\ v.col = w.col + 1 /\ v.row = w.row /\ v.stray = w.stray
  <2>1. CASE t.row \in Row
    <3>1. PICK b : b = [t.buf EXCEPT ![t.row][t.col] = ch]
      OBVIOUS
    <3>2. w = [t EXCEPT !.buf = b]
      BY <1>3, <2>1, <3>1, Zenon DEF VGA_set
    <3>3. w.col = t.col /\ w.row = t.row /\ w.stray = t.stray
      BY <1>7, <3>2, ZenonT(60) DEF VgaType
    <3>4. v.col = w.col + 1 /\ v.row = w.row /\ v.stray = w.stray
      BY <1>4, <1>7, <3>2 DEF VgaType
    <3> QED
      BY <3>3, <3>4
  <2>2. CASE t.row \notin Row
    <3>1. w = [t EXCEPT !.stray = TRUE]
      BY <1>3, <2>2, Zenon DEF VGA_set
    <3>2. w.col = t.col /\ w.row = t.row
      BY <1>7, <3>1, ZenonT(60) DEF VgaType
    <3>3. v.col = w.col + 1 /\ v.row = w.row /\ v.stray = w.stray
      BY <1>4, <1>7, <3>1 DEF VgaType
    <3>4. ~ok
      <4>1. n + i - 1 \in Nat
        OBVIOUS
      <4>2. (n + i - 1) % HEIGHT \in Row
        BY <4>1, RingFollows
      <4> QED
        BY <1>2, <2>2, <4>2 DEF Tracks
    <3> QED
      BY <3>2, <3>3, <3>4
  <2> QED
    BY <2>1, <2>2
<1>9. m + 1 = WIDTH * (i - 1) + v.col
  <2>1. m = WIDTH * (i - 1) + t.col /\ WIDTH * (i - 1) \in Nat
    BY <1>2, Sizes DEF Tracks
  <2> QED
    BY <1>7, <1>8, <2>1
<1>10. ok => ~v.stray /\ v.row = (n + i - 1) % HEIGHT
  BY <1>2, <1>8 DEF Tracks
<1> QED
  BY <1>5, <1>6, <1>9, <1>10 DEF Tracks

\* A newline.
LEMMA LineTracks ==
  ASSUME NEW s, NEW n \in Nat, NEW m \in Nat, NEW e \in Nat \ {0}, NEW ok \in BOOLEAN,
         Tracks(s, n, m, e, ok)
  PROVE  Tracks(VGA_putc(s, NewLine), n + (m \div WIDTH + 1), 0, 1, ok)
<1>1. PICK t : t = IF s.col = WIDTH THEN LineFeed(s) ELSE s
  OBVIOUS
<1>2. PICK i \in Nat \ {0} : Tracks(t, n, m, i, ok) /\ t.col \in Col
  BY <1>1, OffMargin
<1>3. PICK u, v : u = BlankRest(t) /\ v = LineFeed(u)
  OBVIOUS
<1>4. VGA_putc(s, NewLine) = v
  BY <1>1, <1>3 DEF VGA_putc, NewLine, Backspace
<1>5. u \in VgaType /\ u.col = t.col /\ (ok => u.row = t.row /\ u.stray = t.stray)
  <2>1. t \in VgaType
    BY <1>2 DEF Tracks
  <2>2. CASE t.row \in Row
    BY <1>3, <2>1, <2>2, BlankRestDoes
  <2>3. CASE t.row \notin Row
    <3>1. u = [t EXCEPT !.stray = TRUE]
      BY <1>3, <2>3, Zenon DEF BlankRest
    <3>2. u \in VgaType /\ u.col = t.col
      BY <2>1, <3>1, ZenonT(60) DEF VgaType
    <3>3. ~ok
      <4>1. n + i - 1 \in Nat
        OBVIOUS
      <4>2. (n + i - 1) % HEIGHT \in Row
        BY <4>1, RingFollows
      <4> QED
        BY <1>2, <2>3, <4>2 DEF Tracks
    <3> QED
      BY <3>2, <3>3
  <2> QED
    BY <2>2, <2>3
<1>6. Tracks(u, n, m, i, ok)
  BY <1>2, <1>5 DEF Tracks
<1>7. v \in VgaType /\ v.col = 0 /\ (ok => ~v.stray /\ v.row = (n + i) % HEIGHT)
  BY <1>3, <1>6, FeedTracks
<1>8. m \div WIDTH = i - 1
  <2>1. i - 1 \in Nat /\ m = WIDTH * (i - 1) + t.col
    BY <1>2 DEF Tracks
  <2> QED
    BY <1>2, <2>1, DivIs
<1>9. n + (m \div WIDTH + 1) + 1 - 1 = n + i /\ WIDTH * (1 - 1) + 0 = 0
  BY <1>8, Sizes
<1> QED
  BY <1>4, <1>7, <1>9 DEF Tracks

\* An erasure that does not go back over the start of the ring.
LEMMA BackTracks ==
  ASSUME NEW s, NEW n \in Nat, NEW m \in Nat \ {0}, NEW e \in Nat \ {0}, NEW ok \in BOOLEAN,
         Tracks(s, n, m, e, ok)
  PROVE  \E i \in Nat \ {0} : Tracks(VGA_putc(s, Backspace), n, m - 1, i, ok /\ ~Turns(n, m))
<1>1. PICK t : t = IF s.col = WIDTH THEN LineFeed(s) ELSE s
  OBVIOUS
<1>2. PICK i \in Nat \ {0} : Tracks(t, n, m, i, ok) /\ t.col \in Col
  BY <1>1, OffMargin
<1>3. PICK v : v = GoBack(t)
  OBVIOUS
<1>4. VGA_putc(s, Backspace) = v
  BY <1>1, <1>3 DEF VGA_putc, NewLine, Backspace
<1>5. v \in VgaType
  BY <1>4, PutcKeeps DEF Tracks
<1>6. t \in VgaType /\ t.col \in Nat /\ t.row \in 0 .. 255 /\ m = WIDTH * (i - 1) + t.col
  BY <1>2, Fields, Sizes DEF Tracks
<1>7. CASE t.col # 0
  <2>1. v = [t EXCEPT !.col = t.col - 1]
    BY <1>3, <1>7 DEF GoBack
  <2>2. v.col = t.col - 1 /\ v.row = t.row /\ v.stray = t.stray
    BY <1>6, <2>1 DEF VgaType
  <2>3. WIDTH * (i - 1) \in Nat
    BY Sizes
  <2>4. m - 1 = WIDTH * (i - 1) + v.col
    BY <1>6, <2>2, <2>3
  <2>5. Tracks(v, n, m - 1, i, ok /\ ~Turns(n, m))
    BY <1>2, <1>5, <2>2, <2>4 DEF Tracks
  <2> QED
    BY <1>4, <2>5
<1>8. CASE t.col = 0
  <2>1. PICK j \in Nat \ {0} : i = j + 1
    <3>1. i # 1
      BY <1>6, <1>8, Sizes
    <3>2. i - 1 \in Nat \ {0} /\ i = (i - 1) + 1
      BY <3>1
    <3> QED
      BY <3>2
  <2>2. m = WIDTH * j + 0 /\ 0 \in Col
    BY <1>6, <1>8, <2>1, Sizes
  <2>3. m \div WIDTH = j
    BY <2>2, DivIs
  <2>4. m % WIDTH = 0
    <3>1. PICK w \in Nat \ {0} : w = WIDTH
      BY Sizes
    <3>2. PICK c \in 0 .. w - 1 : c = 0
      OBVIOUS
    <3>3. m = w * j + c
      BY <2>2, <3>1, <3>2
    <3>4. m % w = c
      BY <3>3, ModIs
    <3> QED
      BY <3>1, <3>2, <3>4
  <2>5. PICK a \in Nat : a = n + j - 1 /\ a + 1 = n + j
    OBVIOUS
  <2>6. Turns(n, m) <=> (a + 1) % HEIGHT = 0
    BY <2>3, <2>4, <2>5 DEF Turns
  <2>7. v.col = WIDTH - 1 /\ v.row = uint8(t.row - 1) /\ v.stray = t.stray
    <3>1. PICK x, y, z : x = uint8(t.row - 1) /\ y = uint8(t.move_row - 1) /\ z = (t.lost \/ Disorients(t))
      OBVIOUS
    <3>2. v = [t EXCEPT !.col = WIDTH - 1, !.row = x, !.move_row = y, !.lost = z]
      BY <1>3, <1>8, <3>1, Zenon DEF GoBack
    <3>3. v.col = WIDTH - 1 /\ v.row = x /\ v.stray = t.stray
      BY <1>6, <3>2 DEF VgaType
    <3> QED
      BY <3>1, <3>3
  <2>8. m - 1 = WIDTH * (j - 1) + v.col
    <3>1. WIDTH * j = WIDTH * (j - 1) + WIDTH /\ WIDTH * (j - 1) \in Nat
      BY Sizes
    <3> QED
      BY <2>2, <2>7, <3>1, Sizes
  <2>9. ASSUME ok, ~Turns(n, m) PROVE ~v.stray /\ v.row = a % HEIGHT
    <3>1. ~t.stray /\ t.row = (n + i - 1) % HEIGHT /\ n + i - 1 = a + 1
      BY <1>2, <2>1, <2>5, <2>9 DEF Tracks
    <3>2. a % HEIGHT = t.row - 1 /\ a % HEIGHT \in Row
      BY <2>6, <2>9, <3>1, RingFollows
    <3>3. PICK x \in Row : x = t.row - 1
      BY <3>2
    <3>4. t.row - 1 \in 0 .. 255
      <4>1. x \in 0 .. 255
        BY Sizes
      <4> QED
        BY <3>3, <4>1
    <3> QED
      BY <2>7, <3>1, <3>2, <3>4, Bytes
  <2>10. Tracks(v, n, m - 1, j, ok /\ ~Turns(n, m))
    BY <1>5, <2>5, <2>8, <2>9 DEF Tracks
  <2> QED
    BY <1>4, <2>10
<1> QED
  BY <1>7, <1>8

\* Characters printed one after the other.
LEMMA PutsTrack ==
  ASSUME NEW b, NEW n \in Nat, NEW m \in Nat, NEW e \in Nat \ {0}, NEW ok \in BOOLEAN,
         Tracks(b, n, m, e, ok), NEW w \in Nat, NEW z \in Nat, w <= z,
         NEW full, \A k \in 1 .. w : full[k] \in Chars, NEW f, Puts(f, b, full, z)
  PROVE  \E i \in Nat \ {0} : Tracks(f[w], n, m + w, i, ok)
<1> DEFINE Good(k) == \E i \in Nat \ {0} : Tracks(f[k], n, m + k, i, ok)
<1> SUFFICES ASSUME ~Good(w) PROVE FALSE
  OBVIOUS
<1>1. f[0] = b /\ \A k \in 1 .. w : f[k] = VGA_putc(f[k - 1], full[k])
  <2>1. f[0] = b /\ \A k \in 1 .. z : f[k] = VGA_putc(f[k - 1], full[k])
    BY Zenon DEF Puts
  <2>2. \A k \in 1 .. w : k \in 1 .. z
    OBVIOUS
  <2> QED
    BY <2>1, <2>2, Zenon
<1>2. Good(0)
  <2>1. m + 0 = m
    OBVIOUS
  <2> QED
    BY <1>1, <2>1
<1>3. ASSUME NEW k \in 1 .. w, Good(k - 1) PROVE Good(k)
  <2>1. PICK i \in Nat \ {0} : Tracks(f[k - 1], n, m + (k - 1), i, ok)
    BY <1>3
  <2>2. PICK q \in Nat : q = m + (k - 1) /\ q + 1 = m + k
    OBVIOUS
  <2>3. full[k] \in Cells /\ full[k] # NewLine /\ full[k] # Backspace
    BY Printable
  <2>4. \E j \in Nat \ {0} : Tracks(VGA_putc(f[k - 1], full[k]), n, q + 1, j, ok)
    BY <2>1, <2>2, <2>3, CellTracks
  <2> QED
    BY <1>1, <2>2, <2>4
<1> HIDE DEF Good
<1>4. PICK T \in SUBSET Nat : T = {k \in 0 .. w : ~Good(k)}
  <2>1. {k \in 0 .. w : ~Good(k)} \in SUBSET Nat
    OBVIOUS
  <2> QED
    BY <2>1
<1>5. PICK k \in T : \A j \in T : k <= j
  <2>1. w \in T
    BY <1>4
  <2> QED
    BY <2>1, LeastNatural
<1>6. k \in 1 .. w /\ k - 1 \in 0 .. w
  BY <1>2, <1>4, <1>5
<1>7. k - 1 \notin T
  BY <1>5, <1>6
<1> QED
  BY <1>3, <1>4, <1>5, <1>6, <1>7

\* The invariant: the cursor is in the text's row of the ring until an erasure crosses
\* the start of the ring.
RingInv ==
  /\ crossed \in BOOLEAN
  /\ \E e \in Nat \ {0} : Tracks(vga, gone + Len(rows), Len(line), e, ~crossed)

LEMMA PrintsTracks ==
  ASSUME TextInv, RingInv, NEW str \in Seq(Chars), Prints(str)
  PROVE  RingInv'
<1>1. /\ rows \in Seq([Col -> Cells]) /\ gone \in Nat /\ line \in Seq(Chars)
  BY DEF TextInv, TextTypes
<1>2. /\ vga' = FoldLeft(VGA_putc, vga, str) /\ line' = line \o str
      /\ rows' = rows /\ gone' = gone /\ crossed' = crossed
  BY Zenon DEF Prints, Printed
<1>3. PICK w \in Nat : w = Len(str) /\ DOMAIN str = 1 .. w /\ \A k \in 1 .. w : str[k] \in Chars
  OBVIOUS
<1>4. PICK f : Puts(f, vga, str, w) /\ vga' = f[w]
  BY <1>2, <1>3, PrintfPuts
<1>5. PICK n \in Nat, m \in Nat : n = gone + Len(rows) /\ m = Len(line)
  BY <1>1
<1>6. Len(line') = m + w
  BY <1>1, <1>2, <1>3, <1>5
<1>7. PICK e \in Nat \ {0}, ok \in BOOLEAN : ok = ~crossed /\ Tracks(vga, n, m, e, ok)
  BY <1>5 DEF RingInv
<1>8. \E i \in Nat \ {0} : Tracks(f[w], n, m + w, i, ok)
  <2>1. w <= w
    OBVIOUS
  <2> QED
    BY <1>3, <1>4, <1>7, <2>1, PutsTrack
<1> QED
  BY <1>2, <1>4, <1>5, <1>6, <1>7, <1>8 DEF RingInv

LEMMA PrintsLineTracks ==
  ASSUME TextInv, RingInv, NEW str \in Seq(Chars), PrintsLine(str)
  PROVE  RingInv'
<1>1. /\ rows \in Seq([Col -> Cells]) /\ Len(rows) <= HEIGHT /\ gone \in Nat
      /\ (gone > 0 => Len(rows) = HEIGHT) /\ line \in Seq(Chars)
  BY DEF TextInv, TextTypes
<1>2. PICK full : full = Append(str, NewLine)
  OBVIOUS
<1>3. /\ vga' = FoldLeft(VGA_putc, vga, full) /\ line' = <<>> /\ crossed' = crossed
      /\ Trims(rows, gone, line \o str, rows', gone')
  BY <1>2, Zenon DEF PrintsLine, Printed, Trims
<1>4. PICK w \in Nat, z \in Nat : w = Len(str) /\ z = w + 1 /\ w <= z
  OBVIOUS
<1>5. /\ DOMAIN full = 1 .. z /\ full[z] = NewLine /\ \A k \in 1 .. w : full[k] \in Chars
  BY <1>2, <1>4
<1>6. PICK f : Puts(f, vga, full, z) /\ vga' = f[z]
  BY <1>3, <1>4, <1>5, PrintfPuts
<1>7. PICK n \in Nat, m \in Nat : n = gone + Len(rows) /\ m = Len(line)
  BY <1>1
<1>8. PICK e \in Nat \ {0}, ok \in BOOLEAN : ok = ~crossed /\ Tracks(vga, n, m, e, ok)
  BY <1>7 DEF RingInv
<1>9. PICK i \in Nat \ {0} : Tracks(f[w], n, m + w, i, ok)
  BY <1>4, <1>5, <1>6, <1>8, PutsTrack
<1>10. vga' = VGA_putc(f[w], NewLine)
  <2>1. z \in 1 .. z /\ z - 1 = w
    BY <1>4
  <2> QED
    BY <1>5, <1>6, <2>1 DEF Puts
<1>11. Tracks(vga', n + ((m + w) \div WIDTH + 1), 0, 1, ok)
  <2>1. PICK q \in Nat : q = m + w
    OBVIOUS
  <2> QED
    BY <1>9, <1>10, <2>1, LineTracks
<1>12. gone' + Len(rows') = n + ((m + w) \div WIDTH + 1)
  <2>1. PICK l \in Seq(Cells) : l = line \o str
    <3>1. line \in Seq(Cells) /\ str \in Seq(Cells)
      BY <1>1 DEF Cells
    <3>2. line \o str \in Seq(Cells)
      BY <3>1
    <3> QED
      BY <3>2
  <2>2. LastRows(rows, gone, l, rows', gone')
    BY <1>1, <1>3, <2>1, Trimmed
  <2>3. Len(l) = m + w
    BY <1>1, <1>4, <1>7, <2>1
  <2> QED
    BY <1>7, <2>2, <2>3 DEF LastRows
<1>13. Len(line') = 0
  BY <1>3
<1> QED
  BY <1>3, <1>8, <1>11, <1>12, <1>13 DEF RingInv

LEMMA EraseTracks ==
  ASSUME TextInv, RingInv, Erase
  PROVE  RingInv'
<1>1. /\ rows \in Seq([Col -> Cells]) /\ gone \in Nat /\ line \in Seq(Chars)
  BY DEF TextInv, TextTypes
<1>2. PICK full : full = <<Backspace, Space, Backspace>>
  OBVIOUS
<1>3. /\ vga' = FoldLeft(VGA_putc, vga, full) /\ line # <<>> /\ line' = Front(line)
      /\ rows' = rows /\ gone' = gone /\ crossed' = (crossed \/ Crosses)
  BY <1>2, Zenon DEF Erase, Printed
<1>4. DOMAIN full = 1 .. 3 /\ full[1] = Backspace /\ full[2] = Space /\ full[3] = Backspace
  BY <1>2
<1>5. PICK f : Puts(f, vga, full, 3) /\ vga' = f[3]
  <2>1. PICK z \in Nat : z = 3 /\ DOMAIN full = 1 .. z
    BY <1>4
  <2>2. \E f : Puts(f, vga, full, z) /\ FoldLeft(VGA_putc, vga, full) = f[z]
    BY <2>1, PrintfPuts
  <2> QED
    BY <1>3, <2>1, <2>2
<1>6. /\ f[1] = VGA_putc(vga, Backspace) /\ f[2] = VGA_putc(f[1], Space)
      /\ f[3] = VGA_putc(f[2], Backspace)
  BY <1>4, <1>5 DEF Puts
<1>7. PICK n \in Nat, m \in Nat \ {0} : n = gone + Len(rows) /\ m = Len(line)
  BY <1>1, <1>3
<1>8. Len(line') = m - 1
  <2>1. Front(line) = SubSeq(line, 1, Len(line) - 1)
    BY DEF Front
  <2>2. Len(SubSeq(line, 1, m - 1)) = m - 1
    BY <1>1, <1>7
  <2> QED
    BY <1>3, <1>7, <2>1, <2>2
<1>9. PICK e \in Nat \ {0}, ok \in BOOLEAN : ok = ~crossed /\ Tracks(vga, n, m, e, ok)
  BY <1>7 DEF RingInv
<1>10. PICK k2 \in BOOLEAN : k2 = (ok /\ ~Turns(n, m))
  OBVIOUS
<1>11. crossed' \in BOOLEAN /\ k2 = ~crossed'
  <2>1. Crosses <=> Turns(n, m)
    BY <1>7 DEF Crosses, Turns
  <2> QED
    BY <1>3, <1>9, <1>10, <2>1 DEF RingInv
<1>12. PICK q \in Nat : q = m - 1 /\ q + 1 = m
  OBVIOUS
<1>13. PICK i1 \in Nat \ {0} : Tracks(f[1], n, q, i1, k2)
  <2>1. PICK i \in Nat \ {0} : Tracks(f[1], n, m - 1, i, ok /\ ~Turns(n, m))
    <3>1. Tracks(vga, n, m, e, ok)
      BY <1>9
    <3>2. \E i \in Nat \ {0} : Tracks(VGA_putc(vga, Backspace), n, m - 1, i, ok /\ ~Turns(n, m))
      BY <3>1, BackTracks
    <3> QED
      BY <1>6, <3>2
  <2>2. Tracks(f[1], n, q, i, k2)
    BY <1>10, <1>12, <2>1
  <2> QED
    BY <2>2
<1>14. PICK i2 \in Nat \ {0} : Tracks(f[2], n, m, i2, k2)
  <2>1. Space \in Cells /\ Space # NewLine /\ Space # Backspace
    BY DEF Cells, Space, NewLine, Backspace
  <2>2. \E i \in Nat \ {0} : Tracks(f[2], n, q + 1, i, k2)
    BY <1>6, <1>13, <2>1, CellTracks
  <2> QED
    BY <1>12, <2>2
<1>15. PICK i3 \in Nat \ {0} : Tracks(f[3], n, m - 1, i3, k2 /\ ~Turns(n, m))
  BY <1>6, <1>14, BackTracks
<1>16. (k2 /\ ~Turns(n, m)) = k2
  BY <1>10
<1> QED
  BY <1>3, <1>5, <1>7, <1>8, <1>11, <1>15, <1>16 DEF RingInv

LEMMA ClearedTracks ==
  ASSUME TextInv, RingInv, Cleared
  PROVE  RingInv'
<1>1. vga \in VgaType /\ vga' \in VgaType
  BY ClearedKeeps DEF TextInv
<1>2. /\ vga' = VGA_clear_screen(vga) /\ rows' = <<>> /\ gone' = 0 /\ line' = <<>> /\ crossed' = crossed
  BY Zenon DEF Cleared
<1>3. vga'.row = 0 /\ vga'.col = 0 /\ vga'.stray = vga.stray
  <2>1. PICK b, x : vga' = [vga EXCEPT !.buf = b, !.start_row = 0, !.col = 0, !.row = 0, !.lost = x]
    BY <1>2, Zenon DEF VGA_clear_screen
  <2> QED
    BY <1>1, <2>1, ZenonT(60) DEF VgaType
<1>4. Len(line') = 0 /\ gone' + Len(rows') = 0
  BY <1>2
<1>5. 0 = WIDTH * (1 - 1) + vga'.col /\ (0 + 1 - 1) % HEIGHT = 0
  BY <1>3, Sizes
<1>6. ~crossed => ~vga.stray
  BY DEF RingInv, Tracks
<1>7. Tracks(vga', gone' + Len(rows'), Len(line'), 1, ~crossed')
  BY <1>1, <1>2, <1>3, <1>4, <1>5, <1>6 DEF Tracks
<1> QED
  BY <1>2, <1>7 DEF RingInv

LEMMA RingInitially == ConsoleInit => RingInv
<1> SUFFICES ASSUME ConsoleInit PROVE RingInv
  OBVIOUS
<1>1. vga \in VgaType
  BY ConsoleInitially DEF ConsoleInv, TextInv
<1>2. rows = <<>> /\ gone = 0 /\ line = <<>> /\ crossed \in BOOLEAN /\ ~crossed
  BY Zenon DEF ConsoleInit
<1>3. vga.row = 0 /\ vga.col = 0 /\ ~vga.stray
  BY DEF ConsoleInit
<1>4. gone + Len(rows) = 0 /\ Len(line) = 0
  BY <1>2
<1>5. 0 = WIDTH * (1 - 1) + vga.col /\ (0 + 1 - 1) % HEIGHT = 0
  BY <1>3, Sizes
<1>6. Tracks(vga, gone + Len(rows), Len(line), 1, ~crossed)
  BY <1>1, <1>3, <1>4, <1>5 DEF Tracks
<1>7. 1 \in Nat \ {0}
  OBVIOUS
<1> QED
  BY <1>2, <1>6, <1>7, Zenon DEF RingInv

LEMMA RingSteps == ConsoleInv /\ RingInv /\ [ConsoleNext]_consolevars => RingInv'
<1> SUFFICES ASSUME ConsoleInv, RingInv, [ConsoleNext]_consolevars PROVE RingInv'
  OBVIOUS
<1>1. TextInv
  BY DEF ConsoleInv
<1>2. ASSUME NEW c \in Chars, BootMessage(c) \/ Report(c) PROVE RingInv'
  <2>1. <<c>> \in Seq(Chars) /\ PrintsLine(<<c>>)
    BY <1>2 DEF BootMessage, Report
  <2> QED
    BY <1>1, <2>1, PrintsLineTracks
<1>3. ASSUME NEW c \in Chars, Echo(c) PROVE RingInv'
  <2>1. <<c>> \in Seq(Chars) /\ Prints(<<c>>)
    BY <1>3 DEF Echo
  <2> QED
    BY <1>1, <2>1, PrintsTracks
<1>4. ASSUME NEW c \in Chars, Answer(c) PROVE RingInv'
  <2>1. <<c, c>> \in Seq(Chars) /\ PrintsLine(<<c, c>>)
    BY <1>4 DEF Answer
  <2> QED
    BY <1>1, <2>1, PrintsLineTracks
<1>5. ASSUME BootDone \/ Panic PROVE RingInv'
  BY <1>1, <1>5, ClearedTracks DEF BootDone, Panic
<1>6. ASSUME ShellPrompt PROVE RingInv'
  <2>1. Prompt \in Seq(Chars) /\ Prints(Prompt)
    BY <1>6, ConsoleAssumption DEF ShellPrompt
  <2> QED
    BY <1>1, <2>1, PrintsTracks
<1>7. ASSUME Erase PROVE RingInv'
  BY <1>1, <1>7, EraseTracks
<1>8. ASSUME Enter PROVE RingInv'
  <2>1. <<>> \in Seq(Chars) /\ PrintsLine(<<>>)
    BY <1>8 DEF Enter
  <2> QED
    BY <1>1, <2>1, PrintsLineTracks
<1>9. ASSUME UNCHANGED consolevars PROVE RingInv'
  BY <1>9 DEF RingInv, consolevars
<1> QED
  BY <1>2, <1>3, <1>4, <1>5, <1>6, <1>7, <1>8, <1>9 DEF ConsoleNext

\* Nothing is written outside vga_buf and the cursor is in the text's row of the ring,
\* lost or not, through every output of any length on a screen of any size, until an
\* erasure goes back from row 0 of the ring (vga.c:98), after which the code does write
\* outside it.
THEOREM CursorStaysInBuffer == ConsoleSpec => []StaysInBuffer
<1>1. ConsoleInv /\ RingInv => StaysInBuffer
  <2> SUFFICES ASSUME ConsoleInv, RingInv, ~crossed
               PROVE  ~vga.stray /\ vga.row = (gone + Len(rows) + LineRows - 1) % HEIGHT
    BY DEF StaysInBuffer
  <2>1. /\ vga \in VgaType /\ rows \in Seq([Col -> Cells]) /\ gone \in Nat /\ line \in Seq(Chars)
    BY DEF ConsoleInv, TextInv, TextTypes
  <2>2. PICK n \in Nat, m \in Nat : n = gone + Len(rows) /\ m = Len(line)
    BY <2>1
  <2>3. PICK e \in Nat \ {0} : Tracks(vga, n, m, e, TRUE)
    BY <2>2 DEF RingInv
  <2>4. LineRows = e
    <3>1. vga.col \in 0 .. WIDTH /\ m = WIDTH * (e - 1) + vga.col
      BY <2>1, <2>3, Fields DEF Tracks
    <3> QED
      BY <2>2, <3>1, RowsTaken DEF LineRows
  <2> QED
    BY <2>2, <2>3, <2>4 DEF Tracks
<1>2. ConsoleSpec => []RingInv
  BY ConsoleInvariant, RingInitially, RingSteps, PTL DEF ConsoleSpec
<1> QED
  BY <1>1, <1>2, ConsoleInvariant, PTL
=============================================================================
