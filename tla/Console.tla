------------------------------ MODULE Console ------------------------------
(***************************************************************************)
(* The VGA console (kernel/drivers/vga/vga.c) under the output the kernel  *)
(* and the shell send it: the boot messages, the screen cleared after them, *)
(* the shell's prompt, echo, erasures and answers, and a panic's report.   *)
(*                                                                         *)
(* vga_buf is a ring of rows: start_row is the ring row shown at the top,  *)
(* and a line feed on the bottom row advances it.  move_row says how far   *)
(* the cursor is above the bottom: an erasure that goes back over the left *)
(* margin takes it one below start_row, a line feed takes it back.         *)
(*                                                                         *)
(* A printf is one step: its lock keeps other programs' output out         *)
(* (TestProcesses), and handlers do not print except to panic.  Cells hold *)
(* characters; colours are constant and left out.                          *)
(***************************************************************************)
EXTENDS Integers, Sequences, SequencesExt

CONSTANTS
  WIDTH, HEIGHT,  \* 80 and 25
  Chars,          \* printable characters
  Prompt,         \* the shell's prompt, a sequence over Chars
  MaxRows,        \* bound: rows of text since the screen was cleared
  MaxTyped        \* bound: characters of a command

ASSUME ConsoleAssumption ==
  /\ WIDTH \in 2 .. 255 /\ HEIGHT \in 2 .. 255
  /\ Prompt \in Seq(Chars) /\ Prompt # <<>> /\ {"newline", "backspace"} \cap Chars = {}
  /\ MaxRows \in Nat /\ MaxTyped \in Nat

NewLine == "newline"
Backspace == "backspace"
Space == "space"

VARIABLES
  vga,     \* buf, row, col, start_row, move_row of the driver, and two history
           \* flags: stray (a write outside buf), lost (Disorients, below)
  vram,    \* what the display shows, row 0 at the top
  phase,   \* "boot", "shell" or "panic"
  typed,   \* the shell's i
  rows,    \* history: the last HEIGHT complete rows of text since the screen was cleared
  gone,    \* history: how many came before them
  line,    \* history: the characters since the last newline
  high,    \* history: the most rows the text ever took
  crossed  \* history: an erasure crossed the bottom of the ring (Crosses, below)

consolevars == <<vga, vram, phase, typed, rows, gone, line, high, crossed>>

Row == 0 .. HEIGHT - 1
Col == 0 .. WIDTH - 1
BlankRow == [c \in Col |-> Space]
uint8(n) == n % 256

-----------------------------------------------------------------------------
(* The driver. *)

VGA_set(s, r, c, ch) ==
  IF r \in Row THEN [s EXCEPT !.buf[r][c] = ch] ELSE [s EXCEPT !.stray = TRUE]

VGA_clear_line(s) == [s EXCEPT !.buf[s.start_row] = BlankRow]

\* The start of the display moves on, unless the cursor is above the bottom.
Scroll(t) ==
  LET next == (t.start_row + 1) % HEIGHT
  IN IF t.move_row = t.start_row THEN [t EXCEPT !.start_row = next, !.move_row = next]
                                 ELSE [t EXCEPT !.move_row = uint8(@ + 1)]

\* Mutation: the row that comes in next is not cleared.
LineFeed_unclear(s) ==
  LET t == [s EXCEPT !.row = (s.row + 1) % HEIGHT, !.col = 0]
  IN IF t.start_row > 0 \/ t.row = 0 THEN Scroll(t) ELSE t

\* Mutation: the row does not wrap at the bottom of the ring.
LineFeed_unwrapped(s) ==
  LET t == [s EXCEPT !.row = uint8(@ + 1), !.col = 0]
  IN IF t.start_row > 0 \/ t.row = HEIGHT THEN VGA_clear_line(Scroll(t)) ELSE t

\* What VGA_putc does at the right margin and for a newline.
LineFeed(s) ==
  LET t == [s EXCEPT !.row = (s.row + 1) % HEIGHT, !.col = 0]
  IN IF t.start_row > 0 \/ t.row = 0 THEN VGA_clear_line(Scroll(t)) ELSE t

\* History: an erasure goes over the left margin of ring row 0, below which the
\* 8-bit row number wraps to 255, or while the top of the ring is the top of the
\* display, where line feeds do not take move_row back.
Disorients(s) == s.col = 0 /\ (s.row = 0 \/ s.start_row = 0)

\* Mutation: an erasure at the left margin stays in the row.
GoBack_in_row(s) == IF s.col = 0 THEN s ELSE [s EXCEPT !.col = @ - 1]

\* Mutation: move_row does not count the erasure.
GoBack_uncounted(s) ==
  IF s.col = 0 THEN [s EXCEPT !.col = WIDTH - 1, !.row = uint8(@ - 1), !.lost = @ \/ Disorients(s)]
  ELSE [s EXCEPT !.col = @ - 1]

GoBack(s) ==
  IF s.col = 0
  THEN [s EXCEPT !.col = WIDTH - 1, !.row = uint8(@ - 1), !.move_row = uint8(@ - 1),
                 !.lost = @ \/ Disorients(s)]
  ELSE [s EXCEPT !.col = @ - 1]

BlankRest(s) ==
  IF s.row \in Row
  THEN [s EXCEPT !.buf[s.row] = [c \in Col |-> IF c >= s.col THEN Space ELSE @[c]]]
  ELSE [s EXCEPT !.stray = TRUE]

VGA_putc(s, c) ==
  LET t == IF s.col = WIDTH THEN LineFeed(s) ELSE s
  IN CASE c = NewLine   -> LineFeed(BlankRest(t))
       [] c = Backspace -> GoBack(t)
       [] OTHER         -> [VGA_set(t, t.row, t.col, c) EXCEPT !.col = @ + 1]

VGA_flush(s) == [r \in Row |-> s.buf[(r + s.start_row) % HEIGHT]]

\* Mutation: the start of the display stays where it is.
VGA_clear_screen_there(s) ==
  [s EXCEPT !.buf = [r \in Row |-> IF r < HEIGHT - 1 THEN BlankRow ELSE @[r]],
            !.col = 0, !.row = 0, !.lost = TRUE]

\* It leaves the last row and move_row as they are.  History: the display is not
\* empty, or scrolls wrongly later, unless both are clear.
VGA_clear_screen(s) ==
  [s EXCEPT !.buf = [r \in Row |-> IF r < HEIGHT - 1 THEN BlankRow ELSE @[r]],
            !.start_row = 0, !.col = 0, !.row = 0,
            !.lost = @ \/ s.move_row # 0 \/ s.buf[HEIGHT - 1] # BlankRow]

-----------------------------------------------------------------------------
(* printf, and the text it prints as history. *)

\* The rows a complete line takes: a full one is followed by an empty one.
RowOf(l, k) == [c \in Col |-> IF k * WIDTH + c < Len(l) THEN l[k * WIDTH + c + 1] ELSE Space]
Rows(l) == [k \in 1 .. Len(l) \div WIDTH + 1 |-> RowOf(l, k - 1)]

\* Rows the current line takes: the cursor waits at the margin of a full row.
LineRows == Len(line) \div WIDTH + (IF vga.col = WIDTH THEN 0 ELSE 1)

Printed(str) ==
  /\ vga' = FoldLeft(VGA_putc, vga, str)
  /\ vram' = VGA_flush(vga')

\* str, without newlines or erasures, is printed.
Prints(str) ==
  /\ Printed(str)
  /\ line' = line \o str
  /\ UNCHANGED <<rows, gone, crossed>>

PrintsLine(str) ==
  /\ Printed(Append(str, NewLine))
  /\ LET all == rows \o Rows(line \o str)
         n == IF Len(all) > HEIGHT THEN Len(all) - HEIGHT ELSE 0
     IN rows' = SubSeq(all, n + 1, Len(all)) /\ gone' = gone + n
  /\ line' = <<>>
  /\ UNCHANGED crossed

\* Measure what was printed, within the bound.
MeasuredWith(extra) ==
  LET n == gone' + Len(rows') + LineRows' + extra
  IN n <= MaxRows /\ high' = IF n > high THEN n ELSE high

Measured == MeasuredWith(0)

Cleared ==
  /\ vga' = VGA_clear_screen(vga)
  /\ vram' = VGA_flush(vga')
  /\ rows' = <<>> /\ gone' = 0 /\ line' = <<>> /\ high' = 1
  /\ UNCHANGED crossed

\* The character to be erased is the last of a row, and the next row of the text is
\* the first of the ring.
Crosses == Len(line) % WIDTH = 0 /\ (gone + Len(rows) + Len(line) \div WIDTH) % HEIGHT = 0

-----------------------------------------------------------------------------
\* A line of find_rsdp or pci_enumerate_devices.
BootMessage(c) ==
  /\ phase = "boot" /\ PrintsLine(<<c>>) /\ Measured /\ UNCHANGED <<phase, typed>>

\* kernel_main clears the screen; the shell prints its first prompt.
BootDone ==
  /\ phase = "boot" /\ Cleared /\ phase' = "shell" /\ UNCHANGED typed

\* The prompt; each command's answer ends with the next one.
ShellPrompt ==
  /\ phase = "shell" /\ line = <<>>
  /\ Prints(Prompt) /\ Measured /\ typed' = 0 /\ UNCHANGED phase

Echo(c) ==
  /\ phase = "shell" /\ line # <<>> /\ typed < MaxTyped
  /\ Prints(<<c>>) /\ Measured /\ typed' = typed + 1 /\ UNCHANGED phase

\* printf("\b \b"), unless nothing was typed.  The space it puts in the last column
\* makes the second \b feed a line before it goes back.
Erase ==
  /\ phase = "shell" /\ line # <<>> /\ typed > 0
  /\ Printed(<<Backspace, Space, Backspace>>)
  /\ line' = Front(line) /\ typed' = typed - 1
  /\ UNCHANGED <<phase, rows, gone>>
  /\ crossed' = (crossed \/ Crosses)
  /\ MeasuredWith(IF vga'.col = WIDTH - 1 THEN 1 ELSE 0)

\* printf("\n") ends the command.
Enter ==
  /\ phase = "shell" /\ line # <<>>
  /\ PrintsLine(<<>>) /\ Measured /\ typed' = 0 /\ UNCHANGED phase

\* A line of a command's answer, or of the block devices kernel_main lists first.
Answer(c) ==
  /\ phase = "shell" /\ line = <<>>
  /\ PrintsLine(<<c, c>>) /\ Measured /\ UNCHANGED <<phase, typed>>

\* fault_handler clears the screen and prints its report.
Panic ==
  /\ phase = "shell" /\ Cleared /\ phase' = "panic" /\ UNCHANGED typed

Report(c) ==
  /\ phase = "panic" /\ PrintsLine(<<c>>) /\ Measured /\ UNCHANGED <<phase, typed>>

ConsoleInit ==
  /\ vga = [buf |-> [r \in Row |-> BlankRow], row |-> 0, col |-> 0, start_row |-> 0,
            move_row |-> 0, stray |-> FALSE, lost |-> FALSE]
  /\ vram = [r \in Row |-> BlankRow]
  /\ phase = "boot" /\ typed = 0
  /\ rows = <<>> /\ gone = 0 /\ line = <<>> /\ high = 1 /\ crossed = FALSE

ConsoleNext ==
  \/ \E c \in Chars : BootMessage(c) \/ Echo(c) \/ Answer(c) \/ Report(c)
  \/ BootDone \/ ShellPrompt \/ Erase \/ Enter \/ Panic

ConsoleSpec == ConsoleInit /\ [][ConsoleNext]_consolevars

-----------------------------------------------------------------------------
(* Properties. *)

\* The text as rows, how far its last row is above the most rows it took, and the
\* display row of the cursor if the display follows it.
Text == rows \o SubSeq(Rows(line), 1, LineRows)
Above == high - (gone + Len(Text))
CursorRow == IF high <= HEIGHT THEN Len(Text) - 1 ELSE HEIGHT - 1 - Above

\* The cells from the cursor on in the row that the first scroll brings in, which
\* no one has cleared.
FirstScroll(r, c) == high = HEIGHT + 1 /\ r = CursorRow /\ r = HEIGHT - 1 /\ c >= vga.col

\* The display shows the last rows of the text up to the cursor's, and nothing
\* else: below it blank rows, and, once it has scrolled, a blank row at the top,
\* which the next line feed brings in (VGA_clear_line clears one row ahead).
\* Lines wrap, and erasing goes back over them, however the ring has turned
\* (vga.c:60-109), unless Disorients or a full screen was cleared.  The
\* cells of FirstScroll still show the first row of the text.
DisplayShowsText ==
  ~vga.lost =>
    \A r \in Row, c \in Col :
      LET k == Len(Text) - (CursorRow - r)
          shown == k \in 1 .. Len(Text) /\ (high > HEIGHT => r > 0)
      IN FirstScroll(r, c) \/ vram[r][c] = IF shown THEN Text[k][c] ELSE Space

\* The next character goes where the text ends: the ring row of the cursor is the
\* one shown there, unless Disorients or a full screen was cleared.
CursorFollowsText ==
  ~vga.lost =>
    /\ vga.row = (vga.start_row + CursorRow) % HEIGHT
    /\ vga.col = Len(line) - WIDTH * (LineRows - 1)

\* move_row is as far below start_row as the cursor is above the bottom of the
\* text (vga.c:65-71), so that line feeds scroll exactly when there is no row left.
MoveRowCountsBack ==
  ~vga.lost /\ high >= HEIGHT => uint8(vga.start_row - vga.move_row) = Above

\* Whatever was cleared, erased and scrolled, lost or not, the cursor's row is that of
\* the text in the ring and nothing is written outside vga_buf (vga.c:26), until an
\* erasure goes back from row 0 of the ring to the row above it: that is row 255 to the
\* driver (vga.c:98), and the blank of the erasure is written there.
StaysInBuffer ==
  ~crossed => ~vga.stray /\ vga.row = (gone + Len(rows) + LineRows - 1) % HEIGHT

\* After a screen is cleared, be it lost, scrolled or full, as when a panic comes, the
\* display shows the new text from its top row on and nothing of the old, up to the
\* bottom row: VGA_clear_screen leaves that one as it is (vga.c:47) and also move_row,
\* which misleads only the scrolling.
ClearedScreenShown ==
  high <= HEIGHT =>
    \A r \in 0 .. HEIGHT - 2 : vram[r] = IF r < Len(Text) THEN Text[r + 1] ELSE BlankRow
=============================================================================
