-------------------------------- MODULE Screen --------------------------------
(***************************************************************************)
(* The screen emtask keeps for a task (emtask_screen_* in emtask.c): every *)
(* byte the task writes is fed to a small terminal emulator, and a client  *)
(* that attaches is sent the screen as a snapshot, in as many reads as its *)
(* window makes of it, before anything else. All of it happens under       *)
(* term->lock. What a task is sent and how its exit is noticed is in       *)
(* module EmtaskTerm.                                                      *)
(*                                                                         *)
(* A screen is a record of its cells, by row and column from 0, and of the *)
(* emulator's state. A byte is a string; the digits are "0" to "9".        *)
(***************************************************************************)
EXTENDS Integers, Sequences, FiniteSets, SequencesExt

CONSTANTS Sizes,      \* sizes <<cols, rows>> of the window
          FirstSize,  \* EMTASK_DEFAULT_TERM_COLS and _ROWS
          TabStop,    \* columns from one tab stop to the next (8)
          CsiMax,     \* bytes kept of a control sequence (63)
          IntMax,     \* INT_MAX
          Overflowed(_),  \* what the build makes of a number above it
          Text,       \* what is on the screen at first, by row
          Letters,    \* characters the task writes
          Numbers,    \* digits the task writes
          ReadSizes,  \* sizes of the buffer of a read
          MaxBytes    \* bound on the bytes the task writes

ASSUME ScreenAssumption ==
    /\ FirstSize \in Sizes /\ TabStop \in Nat \ {0} /\ CsiMax \in Nat
    /\ IntMax \in Nat
    /\ \A size \in Sizes : size[1] \in Nat \ {0} /\ size[2] \in Nat \ {0}
    /\ Text = [i \in 0..(FirstSize[2] - 1) |-> Text[i]]
    /\ \A i \in DOMAIN Text : DOMAIN Text[i] = 0..(FirstSize[1] - 1)

ASSUME SnapshotAssumption ==
    /\ \A size \in Sizes : size[1] <= IntMax /\ size[2] <= IntMax
    /\ ReadSizes \subseteq Nat \ {0} /\ MaxBytes \in Nat

VARIABLES scr,     \* the screen of the task
          told,    \* term->cols and term->rows, the size the task is told
          over,    \* a number of a control sequence was no int
          bytes,   \* bytes the task has written
          client,  \* "none", "wants", "sending", "sent", "live"
          snap,    \* attachment->screen_snapshot_phase and _offset, and whether
                   \* a read of it has ended behind a line break
          shown    \* the screen of the client's own terminal, up to that

screenVars == <<scr, told, over, bytes, client, snap, shown>>

Digit == <<"0", "1", "2", "3", "4", "5", "6", "7", "8", "9">>
DigitValue(b) == (CHOOSE i \in 1..10 : Digit[i] = b) - 1

Least(a, b) == IF a < b THEN a ELSE b

-----------------------------------------------------------------------------
(* The cells.                                                              *)

BlankRow(s) == [j \in 0..(s.cols - 1) |-> " "]

\* emtask_screen_reset_locked, for a screen of this size.
Fresh(cols, rows) ==
    [cols |-> cols, rows |-> rows,
     cells |-> [i \in 0..(rows - 1) |-> [j \in 0..(cols - 1) |-> " "]],
     row |-> 0, col |-> 0, srow |-> 0, scol |-> 0,
     top |-> 0, bottom |-> rows - 1, wrap |-> FALSE,
     esc |-> 0, csi |-> << >>, tab |-> 0]

\* The cells after from..to have moved by n rows, up or down; the rows that
\* come in are blank.
MovedRows(s, from, to, n) ==
    [i \in DOMAIN s.cells |->
        IF i \notin from..to THEN s.cells[i]
        ELSE IF i + n \in from..to THEN s.cells[i + n] ELSE BlankRow(s)]

\* The region that scrolls, or the whole screen when it makes no sense.
Region(s) == IF s.bottom >= s.rows \/ s.top > s.bottom
             THEN [top |-> 0, bottom |-> s.rows - 1]
             ELSE [top |-> s.top, bottom |-> s.bottom]

\* Faulty variant: the whole screen scrolls.
ScrollUpAll(s) == [s EXCEPT !.cells = MovedRows(s, 0, s.rows - 1, 1)]

ScrollUp(s) ==
    [s EXCEPT !.cells = MovedRows(s, Region(s).top, Region(s).bottom, 1)]
ScrollDown(s) ==
    [s EXCEPT !.cells = MovedRows(s, Region(s).top, Region(s).bottom, -1)]

Rounds(op(_), n, s) ==
    LET after[i \in 0..n] == IF i = 0 THEN s ELSE op(after[i - 1]) IN after

Times(op(_), n, s) == Rounds(op, n, s)[n]

Newline(s) ==
    LET t == [s EXCEPT !.wrap = FALSE]
    IN  IF s.row = s.bottom THEN ScrollUp(t)
        ELSE [t EXCEPT !.row = Least(s.row + 1, s.rows - 1)]

ReverseIndex(s) ==
    LET t == [s EXCEPT !.wrap = FALSE]
    IN  IF s.row = s.top THEN ScrollDown(t)
        ELSE [t EXCEPT !.row = IF @ = 0 THEN 0 ELSE @ - 1]

\* The cursor stays on the last column; the next character goes to the
\* line below.
PutChar(s, ch) ==
    LET t == IF s.wrap THEN Newline([s EXCEPT !.col = 0]) ELSE s
        u == [t EXCEPT !.cells = [i \in DOMAIN @ |-> [j \in DOMAIN @[i] |->
                 IF i * t.cols + j = t.row * t.cols + t.col THEN ch ELSE @[i][j]]]]
    IN  IF t.col + 1 >= t.cols THEN [u EXCEPT !.wrap = TRUE]
        ELSE [u EXCEPT !.col = @ + 1]

\* Columns from..to of the cursor's row.
ClearLine(s, from, to) ==
    IF s.row >= s.rows THEN s
    ELSE [s EXCEPT !.cells[s.row] = [j \in DOMAIN @ |->
             IF j \in from..to THEN " " ELSE @[j]]]

ClearDisplay(s, mode) ==
    LET here == s.row * s.cols + s.col
        Cleared(i, j) == LET pos == i * s.cols + j
                         IN  CASE mode \in {2, 3} -> TRUE
                               [] mode = 0        -> pos >= here
                               [] mode = 1        -> pos <= here
                               [] OTHER           -> FALSE
    IN  [s EXCEPT !.cells = [i \in DOMAIN @ |-> [j \in DOMAIN @[i] |->
                                IF Cleared(i, j) THEN " " ELSE @[i][j]]]]

\* Lines come in at the cursor, or go; those below, down to the bottom of
\* the region, make room.
InsertLines(s, n) ==
    IF s.row \notin s.top..s.bottom THEN s
    ELSE [s EXCEPT !.cells = MovedRows(s, s.row, s.bottom,
                                       -Least(n, s.bottom - s.row + 1))]
DeleteLines(s, n) ==
    IF s.row \notin s.top..s.bottom THEN s
    ELSE [s EXCEPT !.cells = MovedRows(s, s.row, s.bottom,
                                       Least(n, s.bottom - s.row + 1))]

\* The same within the cursor's row. (With the cursor below the screen the
\* code moves or clears what is behind the cells; that is not modelled.)
MovedCells(s, n) ==
    IF s.col >= s.cols \/ s.row >= s.rows THEN s
    ELSE [s EXCEPT !.cells[s.row] = [j \in DOMAIN @ |->
             IF j < s.col THEN @[j]
             ELSE IF j + n \in s.col..(s.cols - 1) THEN @[j + n] ELSE " "]]
InsertChars(s, n) == MovedCells(s, -Least(n, s.cols - s.col))
DeleteChars(s, n) == MovedCells(s, Least(n, s.cols - s.col))
EraseChars(s, n) == IF n = 0 \/ s.col >= s.cols THEN s ELSE ClearLine(s, s.col, s.col + n - 1)

-----------------------------------------------------------------------------
(* Control sequences.                                                      *)

\* emtask_screen_csi_param: the index-th number, between ";" (-1: none yet).
\* Bytes that are neither are passed over.
CsiByte(a, b, index) ==
    CASE b = ";" -> [a EXCEPT !.current = @ + 1]
      [] b \in Range(Digit) /\ a.current = index ->
            [a EXCEPT !.value = (IF @ < 0 THEN 0 ELSE @ * 10) + DigitValue(b)]
      [] OTHER -> a

CsiScan(csi, index) ==
    LET after[i \in 0..Len(csi)] ==
            IF i = 0 THEN [current |-> 0, value |-> -1]
            ELSE CsiByte(after[i - 1], csi[i], index)
    IN  after

CsiNumber(csi, index) == CsiScan(csi, index)[Len(csi)].value

\* The number is computed in an int. One that is too large for it is undefined:
\* a build may take it for any int, a negative one too.
CsiParam(csi, index, default) ==
    LET value == CsiNumber(csi, index)
    IN  IF value < 0 THEN default
        ELSE IF value <= IntMax THEN value ELSE Overflowed(value)

\* As an unsigned number.
Count(n) == n % (2 * (IntMax + 1))

\* A position given from 1, on a line of that size.
At(n, size) == Least(size - 1, IF n > 0 THEN n - 1 ELSE 0)

Save(s) == [s EXCEPT !.scol = s.col, !.srow = s.row]
Restore(s) == [s EXCEPT !.col = s.scol, !.row = s.srow]

\* n further, at most to the last; below 0 is a very large number.
Forth(at, n, size) == IF at + n < 0 THEN size - 1 ELSE Least(size - 1, at + n)

\* Faulty variant: not stopped at the last row.
CursorDownFree(s, n) == [s EXCEPT !.row = @ + n]
CursorDown(s, n) == [s EXCEPT !.row = Forth(@, n, s.rows)]

\* "r": with no second number there is no region (it is taken for 1).
SetRegion(s, n, m) ==
    LET from == IF n < 1 THEN 1 ELSE n
        to == IF m < 1 THEN s.rows ELSE m
    IN  IF from < to /\ to <= s.rows
        THEN [s EXCEPT !.top = from - 1, !.bottom = to - 1, !.col = 0, !.row = 0]
        ELSE s

Commanded(s, final) ==
    LET n == CsiParam(s.csi, 0, 1)
        m == CsiParam(s.csi, 1, 1)
        mode == CsiParam(s.csi, 0, 0)
    IN  CASE final = "A" -> [s EXCEPT !.row = IF n > @ THEN 0 ELSE @ - n]
          [] final = "B" -> CursorDown(s, n)
          [] final = "C" -> [s EXCEPT !.col = Forth(@, n, s.cols)]
          [] final = "D" -> [s EXCEPT !.col = IF n > @ THEN 0 ELSE @ - n]
          [] final = "G" -> [s EXCEPT !.col = At(n, s.cols)]
          [] final \in {"H", "f"} ->
                [s EXCEPT !.row = At(n, s.rows), !.col = At(m, s.cols)]
          [] final = "d" -> [s EXCEPT !.row = At(n, s.rows)]
          [] final = "J" -> ClearDisplay(s, mode)
          [] final = "K" -> ClearLine(s, IF mode \in {1, 2} THEN 0 ELSE s.col,
                                         IF mode = 1 THEN s.col ELSE s.cols - 1)
          [] final = "L" -> InsertLines(s, Count(n))
          [] final = "M" -> DeleteLines(s, Count(n))
          [] final = "@" -> InsertChars(s, Count(n))
          [] final = "P" -> DeleteChars(s, Count(n))
          [] final = "X" -> EraseChars(s, Count(n))
          [] final = "S" -> Times(ScrollUp, IF n > 0 THEN n ELSE 0, s)
          [] final = "T" -> Times(ScrollDown, IF n > 0 THEN n ELSE 0, s)
          [] final = "r" -> SetRegion(s, n, m)
          [] final = "s" -> Save(s)
          [] final = "u" -> Restore(s)
          [] OTHER       -> s

\* A number that this command is given, or passes over, is no int.
Overflows(s) == \E index \in {0, 1} : CsiNumber(s.csi, index) > IntMax

ApplyCsi(s, final) == [Commanded(s, final) EXCEPT !.wrap = FALSE]

Escaped(s, b) ==
    CASE b = "7" -> Save(s)
      [] b = "8" -> Restore(s)
      [] b = "c" -> Fresh(s.cols, s.rows)
      [] b = "D" -> Newline(s)
      [] b = "M" -> ReverseIndex(s)
      [] b = "E" -> Newline([s EXCEPT !.col = 0])
      [] OTHER   -> s

Finals == {"A", "B", "C", "D", "G", "H", "f", "d", "J", "K", "L", "M", "@",
           "P", "X", "S", "T", "r", "s", "u", "h"}

\* emtask_screen_feed_locked, for one byte. A tab only starts the loop that
\* fills up to the next stop.
Feed(s, b) ==
    CASE s.esc = 1 /\ b = "[" -> [s EXCEPT !.esc = 2, !.csi = << >>]
      [] s.esc = 1 /\ b # "[" -> [Escaped(s, b) EXCEPT !.esc = 0]
      [] s.esc = 2 /\ b \in Finals ->
            [ApplyCsi(s, b) EXCEPT !.esc = 0, !.csi = << >>]
      [] s.esc = 2 /\ b \notin Finals ->
            IF Len(s.csi) < CsiMax THEN [s EXCEPT !.csi = Append(@, b)] ELSE s
      [] s.esc = 0 ->
            CASE b = "esc" -> [s EXCEPT !.esc = 1]
              [] b = "cr"  -> [s EXCEPT !.col = 0, !.wrap = FALSE]
              [] b = "lf"  -> Newline(s)
              [] b = "bs"  -> [s EXCEPT !.col = IF @ = 0 THEN 0 ELSE @ - 1,
                                        !.wrap = FALSE]
              [] b = "tab" -> [s EXCEPT !.tab = ((s.col + TabStop) \div TabStop) * TabStop]
              [] OTHER     -> PutChar(s, b)

\* One round of that loop.
FeedTab(s) == IF s.col < s.tab /\ s.col < s.cols THEN PutChar(s, " ")
              ELSE [s EXCEPT !.tab = 0]

FeedAll(s, bs) ==
    LET after[i \in 0..Len(bs)] == IF i = 0 THEN s ELSE Feed(after[i - 1], bs[i])
    IN  after[Len(bs)]

-----------------------------------------------------------------------------
(* The snapshot: a prefix that clears the client's screen, the rows, and   *)
(* the position of the cursor.                                             *)

Prefix == <<"esc", "[", "?", "1", "h", "esc", "[", "H", "esc", "[", "2", "J">>

\* "%u", for numbers up to 99.
Decimal(n) == IF n < 10 THEN <<Digit[n + 1]>> ELSE <<Digit[(n \div 10) + 1], Digit[(n % 10) + 1]>>

\* Faulty variant: column and row are swapped.
SuffixSwapped(s) ==
    <<"esc", "[">> \o Decimal(s.col + 1) \o <<";">> \o Decimal(s.row + 1) \o <<"H">>
Suffix(s) ==
    <<"esc", "[">> \o Decimal(s.row + 1) \o <<";">> \o Decimal(s.col + 1) \o <<"H">>

Cell(s, n) == s.cells[n \div s.cols][n % s.cols]

\* The next byte of the snapshot of s. A line break is written in front of
\* the first cell of a row and is not counted by the offset: newline tells,
\* within one read, how much of it is there.
NextByte(s, c) ==
    LET Emit(b, n) == [c EXCEPT !.out = Append(@, b), !.offset = @ + 1, !.newline = n]
        Break(b) == [c EXCEPT !.out = Append(@, b), !.newline = @ + 1]
    IN  CASE c.phase = 0 ->
               LET d == Emit(Prefix[c.offset + 1], 0)
               IN  IF d.offset < Len(Prefix) THEN d
                   ELSE [d EXCEPT !.phase = 1, !.offset = 0]
          [] c.phase = 1 /\ c.offset < s.cols * s.rows ->
               IF c.offset # 0 /\ c.offset % s.cols = 0 /\ c.newline < 2
               THEN Break(IF c.newline = 0 THEN "cr" ELSE "lf")
               ELSE Emit(Cell(s, c.offset), 0)
          [] OTHER ->
               LET start == IF c.phase = 1 THEN 0 ELSE c.offset
                   d == [Emit(Suffix(s)[start + 1], 0) EXCEPT
                            !.phase = 2, !.offset = start + 1]
               IN  IF d.offset < Len(Suffix(s)) THEN d ELSE [d EXCEPT !.phase = 3]

\* emtask_screen_snapshot_copy_locked with a buffer of n bytes; in phase 3
\* nothing is pending.
SnapshotCopy(s, p, n) ==
    Times(LAMBDA c : IF c.phase = 3 THEN c ELSE NextByte(s, c), n,
          [phase |-> p.phase, offset |-> p.offset, newline |-> 0, out |-> << >>])

-----------------------------------------------------------------------------
NoScreen == Fresh(1, 1)
NoSnapshot == [phase |-> 0, offset |-> 0, doubled |-> FALSE]

\* A screen with text on it, the cursor anywhere, and any region: a task
\* brings it about with letters and control sequences.
ScreenInit ==
    /\ LET s == Fresh(FirstSize[1], FirstSize[2])
       IN  \E i \in 0..(s.rows - 1), j \in 0..(s.cols - 1), from \in 0..(s.rows - 1),
              to \in 0..(s.rows - 1), w \in BOOLEAN :
            /\ from < to /\ (w => j = s.cols - 1)
            /\ scr = [s EXCEPT !.cells = Text, !.row = i, !.col = j,
                               !.top = from, !.bottom = to, !.wrap = w]
    /\ told = FirstSize /\ over = FALSE
    /\ bytes = 0
    /\ client = "none"
    /\ snap = NoSnapshot
    /\ shown = NoScreen

\* What the task may write next: a text, or a control sequence that may be
\* cut short by another.
TaskBytes(s) ==
    CASE s.esc = 0 -> Letters \cup {"esc", "cr", "lf", "bs", "tab"}
      [] s.esc = 1 -> {"[", "7", "8", "c", "D", "M", "E", "x"}
      [] OTHER     -> Numbers \cup {";", "?"} \cup Finals

\* emtask_term_capture_output_locked, by the monitor, or by the session of a
\* client that has the snapshot; its terminal is followed no further.
Output ==
    /\ scr.tab = 0 /\ bytes < MaxBytes /\ client # "sending"
    /\ \E b \in TaskBytes(scr) :
          /\ scr' = Feed(scr, b)
          /\ over' = (over \/ (scr.esc = 2 /\ b \in Finals /\ Overflows(scr)))
    /\ bytes' = bytes + 1
    /\ IF client = "sent" THEN client' = "live" /\ shown' = NoScreen
       ELSE UNCHANGED <<client, shown>>
    /\ UNCHANGED <<told, snap>>

FillTab ==
    /\ scr.tab # 0
    /\ scr' = FeedTab(scr)
    /\ UNCHANGED <<told, over, bytes, client, snap, shown>>

\* A client's terminal, of any size and with something on it.
Arrive ==
    /\ client = "none"
    /\ client' = "wants"
    /\ \E size \in Sizes :
         shown' = [Fresh(size[1], size[2]) EXCEPT
                     !.row = size[2] - 1,
                     !.cells = [i \in DOMAIN @ |-> [j \in DOMAIN @[i] |-> "z"]]]
    /\ UNCHANGED <<scr, told, over, bytes, snap>>

\* emtask_term_attach: the task is told the client's size, but its screen is
\* left as large as it is. It is always worth a snapshot, for the reset at
\* the start has marked it dirty.
Attach ==
    /\ client = "wants" /\ scr.tab = 0
    /\ client' = "sending" /\ snap' = NoSnapshot
    /\ told' = <<shown.cols, shown.rows>>
    /\ UNCHANGED <<scr, over, bytes, shown>>

\* emtask_term_read while the snapshot is pending.
Read ==
    /\ client = "sending" /\ scr.tab = 0
    /\ \E n \in ReadSizes :
        LET c == SnapshotCopy(scr, snap, n)
        IN  /\ snap' = [phase |-> c.phase, offset |-> c.offset,
                        doubled |-> snap.doubled \/ c.newline = 2]
            /\ shown' = FeedAll(shown, c.out)
            /\ client' = IF c.phase = 3 THEN "sent" ELSE "sending"
    /\ UNCHANGED <<scr, told, over, bytes>>

\* emtask_term_resize: a screen of another size is a new one. (A client
\* whose terminal changes while the snapshot is on its way is left out: how
\* its screen is rearranged is its own affair.)
Resize ==
    /\ client \in {"sent", "live"} /\ scr.tab = 0
    /\ \E size \in Sizes :
         /\ told' = size
         /\ scr' = IF <<scr.cols, scr.rows>> = size THEN scr ELSE Fresh(size[1], size[2])
    /\ client' = "live" /\ shown' = NoScreen
    /\ UNCHANGED <<over, bytes, snap>>

Leave ==
    /\ client \in {"sent", "live"}
    /\ client' = "none" /\ snap' = NoSnapshot /\ shown' = NoScreen
    /\ UNCHANGED <<scr, told, over, bytes>>

ScreenNext == Output \/ FillTab \/ Arrive \/ Attach \/ Read \/ Resize \/ Leave

ScreenSpec == ScreenInit /\ [][ScreenNext]_screenVars

\* A thread that holds the lock goes on; one that waits for it gets it when
\* it is free again and again.
Fairness == WF_screenVars(FillTab) /\ SF_screenVars(Attach)

ScreenFairSpec == ScreenSpec /\ Fairness

-----------------------------------------------------------------------------
(* Properties.                                                             *)

\* Wherever control sequences, wrapped lines, a restored cursor and a new
\* window size lead, the cursor, the saved cursor and the region stay on the
\* screen: the offsets computed from them are offsets of cells. Nothing is
\* said once a number was too large for an int.
OnScreen ==
    ~over =>
        /\ scr.row \in 0..(scr.rows - 1) /\ scr.col \in 0..(scr.cols - 1)
        /\ scr.srow \in 0..(scr.rows - 1) /\ scr.scol \in 0..(scr.cols - 1)
        /\ scr.top < scr.bottom \/ scr.rows = 1
        /\ scr.bottom \in 0..(scr.rows - 1)

Cells(s) == (0..(s.rows - 1)) \X (0..(s.cols - 1))

\* What a step does to what the task keeps in place outside the region (a
\* title, a status line).
OutsideStep ==
    \A p \in Cells(scr) :
        LET old == scr.cells[p[1]][p[2]]
        IN  \/ over'
            \/ p[1] \in scr.top..scr.bottom
            \/ <<scr'.cols, scr'.rows>> # <<scr.cols, scr.rows>>
            \/ scr'.cells[p[1]][p[2]] \in {old, " "}
            \/ p[1] = scr'.row

\* No step moves what is outside the region: a cell there is left alone, or
\* cleared by a command that clears, or it is in the row the character is
\* written to; again until a number was too large for an int.
OutsideKept == [][OutsideStep]_scr

Shows == shown.cells = scr.cells /\ shown.row = scr.row /\ shown.col = scr.col

\* The client's terminal is as large as the screen that is sent to it.
SameSize == shown.cols = scr.cols /\ shown.rows = scr.rows

\* A client that has been sent the snapshot, however many reads it took, shows
\* what the task's screen shows, with the cursor where it is: a client with a
\* window of the screen's size, unless a read ended behind a line break, which
\* the next one then repeats, or a number was too large for an int.
SnapshotShown == client = "sent" /\ SameSize => Shows \/ snap.doubled \/ over

\* Every client that comes gets to the snapshot of the current screen.
SnapshotSent == client = "wants" ~> client = "sending"
=============================================================================
